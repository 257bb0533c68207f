--------------------------- MODULE BackgroundTasks ---------------------------
(***************************************************************************)
(* The task tool (tool/task.ts and kilocode/tool/task.ts) over the registry*)
(* of background jobs, with the draining of a tree of sessions             *)
(* (kilocode/session/drain.ts) and the stop of a session with the jobs     *)
(* below it (cancelTree and SessionRunState.cancel).                       *)
(*                                                                         *)
(* A call of the tool resumes or starts the job of a child session: the    *)
(* job's id is the child's.  In the foreground it waits for the job, or for*)
(* its promotion; in the background, or once promoted, the outcome is      *)
(* injected into the parent as a prompt.  The turn of a session is the loop*)
(* of its runner; calls are made in it, and it ends when they have.        *)
(***************************************************************************)
EXTENDS BackgroundJob

CONSTANTS
  Root,    \* the session at the top
  Parent,  \* Parent[s]: the session that s is a child of
  Child,   \* Child[c]: the session that the call c is about
  Foreground, Background,  \* the calls that may be made in each mode
  Promotable,  \* the jobs that clients may move to the background
  Outcome,     \* Outcome[c]: what the run that c brings may come to
  Client   \* clients that stop the session at the top

Session == Job \cup {Root}

ASSUME TreeAssumption ==
  /\ Root \notin Job
  /\ Parent \in [Job -> Session]
  /\ Child \in [Call -> Job]
  /\ Foreground \subseteq Call /\ Background \subseteq Call /\ Promotable \subseteq Job
  /\ Outcome \in [Call -> (SUBSET {"text", "empty", "failed"}) \ {{}}]

\* There are finitely many sessions, and each was created after its parent.
ASSUME FiniteTree ==
  /\ IsFiniteSet(Job)
  /\ \E order \in [Session -> 0..Cardinality(Session)] : \A j \in Job : order[Parent[j]] < order[j]

\* The session that makes the call.
Caller(c) == Parent[Child[c]]

Above[s \in Session] == IF s = Root THEN {Root} ELSE {s} \cup Above[Parent[s]]

Below == [s \in Session |-> {d \in Session : s \in Above[d]}]

\* Who stops a session: a client, a run that was interrupted, a foreground call
\* that was interrupted.
Stopper == ({"client"} \X Client) \cup ({"run", "call"} \X Call)

VARIABLES
  pc,        \* pc[c]: where the call c is
  awaits,    \* awaits[c]: the incarnation c waits for in the foreground
  dropped,   \* calls whose start found the job running
  delivery,  \* delivery[c]: the delivery of c's background result
  delivers,  \* delivers[c]: the incarnation it is about
  told,      \* told[c]: the incarnation whose outcome the parent got from c
  turn,      \* sessions whose loop runs
  paused,    \* sessions that only a human's prompt starts again
  stop       \* stop[p]: how far p has stopped its session

taskVars == <<pc, awaits, dropped, delivery, delivers, told>>
sessionVars == <<turn, paused>>
vars == <<jobVars, taskVars, sessionVars, stop>>

(* A call is "starting" between its vain attempt to extend the job and the *)
(* start of a new one, "waiting" in the foreground, "aborting" when it has *)
(* been interrupted, "cancelling" when it has stopped its child.           *)
CallStates == {"new", "starting", "waiting", "aborting", "stopping", "cancelling",
               "started", "updated", "result", "failed", "aborted"}

InProgress == {"starting", "waiting", "aborting", "stopping", "cancelling"}

NoStop == [at |-> "none", scope |-> "tree", tree |-> {}, lists |-> {}, turns |-> {},
           closing |-> {}, calls |-> {}]

TypeOK ==
  /\ JobTypeOK
  /\ pc \in [Call -> CallStates]
  /\ awaits \in [Call -> Call \cup {Nobody}]
  /\ dropped \subseteq Call
  /\ delivery \in [Call -> {"none", "waiting", "over"}]
  /\ delivers \in [Call -> Call \cup {Nobody}]
  /\ told \in [Call -> Call \cup {Nobody}]
  /\ turn \subseteq Session /\ paused \subseteq Session
  /\ stop \in [Stopper -> [at : {"none", "on", "over"}, scope : {"tree", "session"},
                           tree : SUBSET Session, lists : SUBSET Session, turns : SUBSET Session,
                           closing : SUBSET (Session \X Call), calls : SUBSET Call]]

Init ==
  /\ JobInit
  /\ pc = [c \in Call |-> "new"]
  /\ awaits = [c \in Call |-> Nobody]
  /\ dropped = {}
  /\ delivery = [c \in Call |-> "none"]
  /\ delivers = [c \in Call |-> Nobody]
  /\ told = [c \in Call |-> Nobody]
  /\ turn = {Root} /\ paused = {}
  /\ stop = [p \in Stopper |-> NoStop]

-----------------------------------------------------------------------------
\* Draining.

\* What holds a session: its turn, a call it makes, the delivery of a result to
\* it, its stop.  (A prompt holds it too, and with it the delivery, until the
\* turn is over.)
Held(s) ==
  \/ s \in turn
  \/ \E c \in Call : Caller(c) = s /\ (pc[c] \in InProgress \/ delivery[c] = "waiting")
  \/ \E p \in Stopper : stop[p].at = "on" /\ s \in stop[p].tree

\* `wait` returns when neither the session nor one below it is held.
Drained(s) == \A d \in Below[s] : ~Held(d)

-----------------------------------------------------------------------------
\* Turns and prompts.

TurnEnd(s) ==
  /\ s \in turn
  /\ \A c \in Call : Caller(c) = s => pc[c] \notin InProgress
  /\ turn' = turn \ {s}
  /\ UNCHANGED <<jobVars, taskVars, paused, stop>>

\* A run prompts its child, which a human's prompt would do as well.
Prompt(r) ==
  /\ BeginRun(r)
  /\ turn' = turn \cup {run[r].job}
  /\ paused' = paused \ {run[r].job}
  /\ UNCHANGED <<taskVars, stop>>

\* The outcome is read as soon as the prompt has returned.
AnswerAtOnce(r, exit) ==
  /\ exit \in Outcome[r]
  /\ run[r].phase = "running" /\ run[r].job \notin turn
  /\ EndRun(r, exit)
  /\ UNCHANGED <<taskVars, sessionVars, stop>>

\* The prompt has returned and the child has drained: its last message is the
\* run's outcome.
Answer(r, exit) ==
  /\ exit \in Outcome[r]
  /\ run[r].phase = "running" /\ Drained(run[r].job)
  /\ EndRun(r, exit)
  /\ UNCHANGED <<taskVars, sessionVars, stop>>

-----------------------------------------------------------------------------
\* Calls of the tool.

MayCall(c) == pc[c] = "new" /\ Caller(c) \in turn

Goto(c, s) == pc' = [pc EXCEPT ![c] = s]

\* Once for each call: the delivery of whatever incarnation the job has.
Notify(c, t) ==
  IF delivery[c] = "none"
  THEN delivery' = [delivery EXCEPT ![c] = "waiting"] /\ delivers' = [delivers EXCEPT ![c] = t]
  ELSE UNCHANGED <<delivery, delivers>>

Update(c) ==
  /\ MayCall(c) /\ Extend(c, Child[c])
  /\ Goto(c, "updated")
  /\ UNCHANGED <<awaits, dropped, delivery, delivers, told, sessionVars, stop>>

StartBackground(c) ==
  /\ MayCall(c) /\ c \in Background /\ StartNew(c, Child[c], TRUE)
  /\ Goto(c, "started")
  /\ Notify(c, c)
  /\ UNCHANGED <<awaits, dropped, told, sessionVars, stop>>

\* A foreground call finds nothing to extend, and reads its child's cost before
\* it starts the job.
FindNothing(c) ==
  /\ MayCall(c) /\ c \in Foreground /\ ~Running(Child[c])
  /\ Goto(c, "starting")
  /\ UNCHANGED <<jobVars, awaits, dropped, delivery, delivers, told, sessionVars, stop>>

StartForeground(c) ==
  /\ pc[c] = "starting"
  /\ Goto(c, "waiting")
  /\ \/ /\ StartNew(c, Child[c], FALSE)
        /\ awaits' = [awaits EXCEPT ![c] = c]
        /\ UNCHANGED dropped
     \/ /\ StartKnown(Child[c])
        /\ awaits' = [awaits EXCEPT ![c] = jobs[Child[c]]]
        /\ dropped' = dropped \cup {c}
  /\ UNCHANGED <<delivery, delivers, told, sessionVars, stop>>

\* The job, as it was when the wait for it was over, is in the background.
GoBackground(c) ==
  /\ pc[c] = "waiting" /\ active[awaits[c]].background
  /\ Notify(c, jobs[Child[c]])
  /\ Goto(c, "started")
  /\ awaits' = [awaits EXCEPT ![c] = Nobody]
  /\ UNCHANGED <<jobVars, dropped, told, sessionVars, stop>>

\* Whatever the wait for the job says is returned.
ReturnAnyway(c) ==
  LET a == active[awaits[c]] IN
  /\ pc[c] = "waiting" /\ a.status \in Ended
  /\ Goto(c, IF a.status = "completed" THEN "result" ELSE "failed")
  /\ told' = [told EXCEPT ![c] = IF a.status = "cancelled" THEN @ ELSE awaits[c]]
  /\ awaits' = [awaits EXCEPT ![c] = Nobody]
  /\ UNCHANGED <<jobVars, dropped, delivery, delivers, sessionVars, stop>>

Return(c) ==
  LET a == active[awaits[c]] IN
  /\ pc[c] = "waiting" /\ ~a.background /\ a.status \in Ended
  /\ Goto(c, IF a.status = "completed" THEN "result" ELSE "failed")
  /\ told' = [told EXCEPT ![c] = IF a.status = "cancelled" THEN @ ELSE awaits[c]]
  /\ awaits' = [awaits EXCEPT ![c] = Nobody]
  /\ UNCHANGED <<jobVars, dropped, delivery, delivers, sessionVars, stop>>

\* The call that started the job is left to deliver by itself.
PromoteJobSilently(j) ==
  /\ j \in Promotable /\ Promote(j)
  /\ UNCHANGED <<taskVars, sessionVars, stop>>

\* A client moves the job to the background: the call that started it is to
\* deliver, before anything else happens.
PromoteJob(j) ==
  /\ j \in Promotable /\ Promote(j)
  /\ Notify(jobs[j], jobs[j])
  /\ UNCHANGED <<pc, awaits, dropped, told, sessionVars, stop>>

\* Nothing ends the delivery of a job that was cancelled.
DeliverOutcome(c) ==
  /\ delivery[c] = "waiting" /\ active[delivers[c]].status \in {"completed", "error"}
  /\ delivery' = [delivery EXCEPT ![c] = "over"]
  /\ told' = [told EXCEPT ![c] = delivers[c]]
  /\ turn' = IF Caller(c) \in paused THEN turn ELSE turn \cup {Caller(c)}
  /\ UNCHANGED <<jobVars, pc, awaits, dropped, delivers, paused, stop>>

\* The outcome of a background job becomes a prompt of the parent, which runs
\* unless the parent is paused.
Deliver(c) ==
  LET status == active[delivers[c]].status IN
  /\ delivery[c] = "waiting" /\ status \in Ended
  /\ delivery' = [delivery EXCEPT ![c] = "over"]
  /\ IF status = "cancelled"
     THEN UNCHANGED <<told, turn>>
     ELSE /\ told' = [told EXCEPT ![c] = delivers[c]]
          /\ turn' = IF Caller(c) \in paused THEN turn ELSE turn \cup {Caller(c)}
  /\ UNCHANGED <<jobVars, pc, awaits, dropped, delivers, paused, stop>>

-----------------------------------------------------------------------------
\* Stopping a session and what is below it.

\* p stops s and the sessions below, with their jobs, or s only and no jobs.
BeginStop(p, s, scope) ==
  LET tree == IF scope = "tree" THEN Below[s] ELSE {s} IN
  /\ stop' = [stop EXCEPT ![p] = [NoStop EXCEPT !.at = "on", !.scope = scope, !.tree = tree, !.lists = tree]]
  /\ paused' = paused \cup tree

CallsOf(s) == {c \in Call : Caller(c) = s /\ pc[c] \in InProgress}

\* The turn of s ends and its calls are interrupted.
InterruptTurn(s) ==
  /\ turn' = turn \ {s}
  /\ pc' = [c \in Call |->
       IF c \notin CallsOf(s) THEN pc[c]
       ELSE CASE pc[c] = "starting" -> "aborted" [] pc[c] = "waiting" -> "aborting" [] OTHER -> pc[c]]
  /\ UNCHANGED <<awaits, dropped, delivery, delivers, told, paused>>

\* The running jobs of a session, its own and those it has started, are listed
\* and cancelled; jobs that come later are not on the list.  Where there are
\* none the turn is stopped at once.
StopJobs(p, s) ==
  LET listed == IF stop[p].scope = "session" THEN {}
                ELSE {j \in Job : Running(j) /\ (j = s \/ Parent[j] = s)}
  IN /\ s \in stop[p].lists
     /\ IF listed = {}
        THEN /\ stop' = [stop EXCEPT ![p].lists = @ \ {s}, ![p].calls = @ \cup CallsOf(s)]
             /\ InterruptTurn(s)
             /\ UNCHANGED jobVars
        ELSE /\ stop' = [stop EXCEPT ![p].lists = @ \ {s}, ![p].turns = @ \cup {s},
                                    ![p].closing = @ \cup ({s} \X {jobs[j] : j \in listed})]
             /\ Cancel(listed)
             /\ UNCHANGED <<taskVars, sessionVars>>

\* The jobs of s are closed.
StopTurn(p, s) ==
  /\ s \in stop[p].turns
  /\ \A x \in stop[p].closing : x[1] = s => Closed(x[2])
  /\ stop' = [stop EXCEPT ![p].turns = @ \ {s}, ![p].calls = @ \cup CallsOf(s),
                          ![p].closing = {x \in @ : x[1] # s}]
  /\ InterruptTurn(s)
  /\ UNCHANGED jobVars

\* Nothing is left to stop.
AllStopped(p) ==
  /\ stop[p].at = "on" /\ stop[p].lists = {} /\ stop[p].turns = {}
  /\ \A c \in stop[p].calls : pc[c] \notin InProgress

EndStop(p) ==
  /\ AllStopped(p)
  /\ stop' = [stop EXCEPT ![p] = [NoStop EXCEPT !.at = "over"]]

ClientStop(k, scope) ==
  /\ stop[<<"client", k>>].at = "none"
  /\ BeginStop(<<"client", k>>, Root, scope)
  /\ UNCHANGED <<jobVars, taskVars, turn>>

ClientStopped(k) == EndStop(<<"client", k>>) /\ UNCHANGED <<jobVars, taskVars, sessionVars>>

\* The scope of the job is closed: the run stops its child.
Interrupt(r) ==
  /\ InterruptRun(r)
  /\ BeginStop(<<"run", r>>, run[r].job, "tree")
  /\ UNCHANGED <<taskVars, turn>>

EndInterrupt(r) ==
  /\ EndStop(<<"run", r>>) /\ EndRun(r, "interrupted")
  /\ UNCHANGED <<taskVars, sessionVars>>

Drop(r) == DropRun(r) /\ UNCHANGED <<taskVars, sessionVars, stop>>

SettleRun(r) == Settle(r) /\ UNCHANGED <<taskVars, sessionVars, stop>>

\* An interrupted foreground call leaves a job of the background alone, and
\* stops its child otherwise.
Abort(c) ==
  /\ pc[c] = "aborting"
  /\ IF Running(Child[c]) /\ ~IsBackground(Child[c])
     THEN Goto(c, "stopping") /\ BeginStop(<<"call", c>>, Child[c], "tree")
     ELSE Goto(c, "aborted") /\ UNCHANGED <<stop, paused>>
  /\ UNCHANGED <<jobVars, awaits, dropped, delivery, delivers, told, turn>>

\* Then it cancels the job, whatever it has become, and waits for the runs of one
\* that was running.
AbortJob(c) ==
  /\ EndStop(<<"call", c>>)
  /\ Cancel({Child[c]})
  /\ Goto(c, "cancelling")
  /\ awaits' = [awaits EXCEPT ![c] = IF Running(Child[c]) THEN jobs[Child[c]] ELSE Nobody]
  /\ UNCHANGED <<dropped, delivery, delivers, told, sessionVars>>

Aborted(c) ==
  /\ pc[c] = "cancelling"
  /\ awaits[c] # Nobody => Closed(awaits[c])
  /\ Goto(c, "aborted")
  /\ UNCHANGED <<jobVars, awaits, dropped, delivery, delivers, told, sessionVars, stop>>

-----------------------------------------------------------------------------
CallStep(c) ==
  \/ StartForeground(c) \/ GoBackground(c) \/ Return(c)
  \/ Abort(c) \/ AbortJob(c) \/ Aborted(c)

NewCall(c) == Update(c) \/ StartBackground(c) \/ FindNothing(c)

RunStep(r) ==
  \/ Prompt(r)
  \/ \E exit \in {"text", "empty", "failed"} : Answer(r, exit)
  \/ Interrupt(r) \/ EndInterrupt(r) \/ Drop(r) \/ SettleRun(r)

StopStep(p) == \E s \in Session : StopJobs(p, s) \/ StopTurn(p, s)

\* What goes on by itself, once a client has asked for it.
Progress ==
  \/ \E c \in Call : CallStep(c) \/ RunStep(c) \/ Deliver(c)
  \/ \E s \in Session : TurnEnd(s)
  \/ \E p \in Stopper : StopStep(p)
  \/ \E k \in Client : ClientStopped(k)

Next ==
  \/ Progress
  \/ \E c \in Call : NewCall(c)
  \/ \E j \in Job : PromoteJob(j)
  \/ \E k \in Client, scope \in {"session", "tree"} : ClientStop(k, scope)

Spec == Init /\ [][Next]_vars

-----------------------------------------------------------------------------
RunsOf(t) == {r \in Call : run[r].phase # "none" /\ run[r].token = t}

\* A job counts the runs it waits for, however runs end, are added, dropped and
\* settled late, and it is completed when all of them have been.
JobCountsRuns ==
  \A t \in Call :
    LET left == {r \in RunsOf(t) : run[r].phase # "over"} IN
    /\ active[t].status = "running" => active[t].pending = Cardinality(left)
    /\ active[t].status = "completed" => left = {}

\* A completed job reports the last of its runs that had something to say, in
\* whatever order they were settled.
LatestAnswer ==
  \A t \in Call : active[t].status = "completed" =>
    LET said == {r \in RunsOf(t) : run[r].exit = "text"} IN
    IF said = {} THEN active[t].output = Nobody
    ELSE /\ active[t].output \in said
         /\ \A r \in said : run[r].sequence <= run[active[t].output].sequence

\* The parent gets the outcome of a call's own job, as the call's result or as a
\* delivery and not both.
ToldOnce ==
  \A c \in Call \ dropped :
    /\ told[c] \in {Nobody, c}
    /\ pc[c] \in {"result", "failed"} => delivery[c] = "none"

\* A session that has drained has no job running anywhere below it.
DrainCoversJobs ==
  \A s \in Session : Drained(s) => \A j \in Job : Running(j) => s \notin Above[Parent[j]]

Outstanding(s) ==
  \E c \in Call : Caller(c) \in Below[s] /\ (pc[c] \in InProgress \/ delivery[c] = "waiting")

\* A job is completed when whatever its child has started has come to its end,
\* and the results have been delivered to the child.
CompletesDrained ==
  [][\A t \in Call :
       active[t].status = "running" /\ active'[t].status = "completed" => ~Outstanding(run[t].job)]_vars

\* The conditions under which an action of Progress is possible: of a call, of
\* its delivery, of a run, of a stop.
CallMoves(c) ==
  \/ pc[c] \in {"starting", "aborting"}
  \/ pc[c] = "waiting" /\ (active[awaits[c]].background \/ active[awaits[c]].status \in Ended)
  \/ pc[c] = "cancelling" /\ (awaits[c] # Nobody => Closed(awaits[c]))

DeliveryMoves(c) == delivery[c] = "waiting" /\ active[delivers[c]].status \in Ended

RunMoves(r) ==
  \/ run[r].phase = "queued" /\ (TailResolved(run[r].previous) \/ Interrupted(r))
  \/ run[r].phase = "running" /\ (Drained(run[r].job) \/ Interrupted(r))
  \/ run[r].phase = "ended"

StopMoves(p) ==
  \/ \E s \in Session : \/ s \in stop[p].lists
                        \/ s \in stop[p].turns /\ \A x \in stop[p].closing : x[1] = s => Closed(x[2])
  \/ AllStopped(p)

TurnMoves(s) == s \in turn /\ CallsOf(s) = {}

CanMove ==
  \/ \E c \in Call : CallMoves(c) \/ DeliveryMoves(c) \/ RunMoves(c)
  \/ \E s \in Session : TurnMoves(s)
  \/ \E p \in Stopper : StopMoves(p)

GuardsEnable == CanMove => ENABLED Progress

\* What has been begun comes to its end: as long as a call, a run, a delivery, a
\* stop or a turn is under way something can go on without a client, whoever
\* waits for whom.  (Every behaviour is finite.)
NothingStuck ==
  /\ GuardsEnable
  /\ \/ CanMove
     \/ /\ \A c \in Call : pc[c] \notin InProgress /\ delivery[c] # "waiting" /\ run[c].phase \in {"none", "over"}
        /\ \A p \in Stopper : stop[p].at \in {"none", "over"}
        /\ turn = {}

\* A call that was answered has prompted its child.
CallsPrompt ==
  \A c \in Call : pc[c] \in {"result", "started", "updated"} => run[c].phase # "none"

\* When a stop of the whole tree is over no job of it is running.
StopCatches ==
  [][\A k \in Client : ClientStopped(k) /\ stop[<<"client", k>>].tree = Session => \A j \in Job : ~Running(j)]_vars
=============================================================================
