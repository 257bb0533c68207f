---------------------------- MODULE BackgroundJob ----------------------------
(***************************************************************************)
(* The registry of background jobs (core/background-job.ts).               *)
(*                                                                         *)
(* A job has an id and, one after the other, incarnations: each is an      *)
(* `Active` object with a token, and the map holds the last one.  A run is *)
(* the work of one `start` or `extend`; runs of an incarnation follow each *)
(* other through a chain of tails.  A caller brings one run at most, so    *)
(* runs are named by callers, and incarnations by the run that started     *)
(* them.  An incarnation that has ended never changes again, and its `done`*)
(* deferred is what its record says.                                       *)
(***************************************************************************)
EXTENDS Naturals, FiniteSets

CONSTANTS
  Job,     \* ids of jobs
  Call,    \* callers of start and extend, and what they bring
  Nobody

ASSUME NobodyIsNoCall == Nobody \notin Call
\* A process makes finitely many calls.
ASSUME FiniteCalls == IsFiniteSet(Call)

VARIABLES
  jobs,     \* jobs[j]: the incarnation the map holds for j, Nobody for none
  active,   \* active[t]: the record of the incarnation t
  run,      \* run[c]: the run that c brought
  closed    \* the incarnations whose scope has been closed

jobVars == <<jobs, active, run, closed>>

Ended == {"completed", "error", "cancelled"}

Exits == {"text", "empty", "failed", "interrupted"}

(* A run is "queued" behind the previous one, "running", "stopping" when it *)
(* has been interrupted and cleans up, "ended" when its tail is resolved   *)
(* and "over" when it has been settled.                                    *)
RunPhases == {"none", "queued", "running", "stopping", "ended", "over"}

JobTypeOK ==
  /\ jobs \in [Job -> Call \cup {Nobody}]
  /\ active \in [Call -> [status : {"none", "running"} \cup Ended, pending : Nat, next : Nat,
                          tail : Call, output : Call \cup {Nobody}, background : BOOLEAN]]
  /\ run \in [Call -> [phase : RunPhases, job : Job \cup {Nobody}, token : Call, sequence : Nat,
                       previous : Call \cup {Nobody}, exit : Exits \cup {"none"}]]
  /\ closed \subseteq Call

JobInit ==
  /\ jobs = [j \in Job |-> Nobody]
  /\ active = [t \in Call |-> [status |-> "none", pending |-> 0, next |-> 0, tail |-> t,
                               output |-> Nobody, background |-> FALSE]]
  /\ run = [c \in Call |-> [phase |-> "none", job |-> Nobody, token |-> c, sequence |-> 0,
                            previous |-> Nobody, exit |-> "none"]]
  /\ closed = {}

Running(j) == jobs[j] # Nobody /\ active[jobs[j]].status = "running"

IsBackground(j) == Running(j) /\ active[jobs[j]].background

RunOf(j, t, n, previous) ==
  [phase |-> "queued", job |-> j, token |-> t, sequence |-> n, previous |-> previous, exit |-> "none"]

-----------------------------------------------------------------------------
\* Operations of the registry.

StartNew(c, j, background) ==
  /\ ~Running(j)
  /\ jobs' = [jobs EXCEPT ![j] = c]
  /\ active' = [active EXCEPT ![c] =
       [status |-> "running", pending |-> 1, next |-> 1, tail |-> c,
        output |-> Nobody, background |-> background]]
  /\ run' = [run EXCEPT ![c] = RunOf(j, c, 0, Nobody)]
  /\ UNCHANGED closed

\* The job is running: its record is returned, and what the caller brought is
\* dropped.
StartKnown(j) == Running(j) /\ UNCHANGED jobVars

Extend(c, j) ==
  LET t == jobs[j] IN
  /\ Running(j)
  /\ active' = [active EXCEPT ![t].pending = @ + 1, ![t].next = @ + 1, ![t].tail = c]
  /\ run' = [run EXCEPT ![c] = RunOf(j, t, active[t].next, active[t].tail)]
  /\ UNCHANGED <<jobs, closed>>

Promote(j) ==
  /\ Running(j) /\ ~active[jobs[j]].background
  /\ active' = [active EXCEPT ![jobs[j]].background = TRUE]
  /\ UNCHANGED <<jobs, run, closed>>

Cancel(J) ==
  LET ts == {jobs[j] : j \in {i \in J : Running(i)}} IN
  /\ active' = [t \in Call |-> IF t \in ts THEN [active[t] EXCEPT !.status = "cancelled", !.pending = 0]
                               ELSE active[t]]
  /\ closed' = closed \cup ts
  /\ UNCHANGED <<jobs, run>>

\* `cancel` returns when the scope is closed: its runs have come to their ends.
Closed(t) == \A r \in Call : run[r].token = t => run[r].phase \in {"none", "over"}

-----------------------------------------------------------------------------
\* Runs.

TailResolved(r) == \A q \in Call : q = r => run[q].phase \in {"ended", "over"}

BeginRun(r) ==
  /\ run[r].phase = "queued" /\ TailResolved(run[r].previous)
  /\ run[r].token \notin closed
  /\ run' = [run EXCEPT ![r].phase = "running"]
  /\ UNCHANGED <<jobs, active, closed>>

EndRun(r, exit) ==
  /\ run' = [run EXCEPT ![r].phase = "ended", ![r].exit = exit]
  /\ UNCHANGED <<jobs, active, closed>>

Interrupted(r) == run[r].token \in closed /\ run[r].phase \in {"queued", "running"}

\* A run that has not begun has nothing to clean up, and its settlement comes to
\* nothing.
DropRun(r) ==
  /\ Interrupted(r) /\ run[r].phase = "queued"
  /\ run' = [run EXCEPT ![r].phase = "over", ![r].exit = "interrupted"]
  /\ UNCHANGED <<jobs, active, closed>>

InterruptRun(r) ==
  /\ Interrupted(r) /\ run[r].phase = "running"
  /\ run' = [run EXCEPT ![r].phase = "stopping"]
  /\ UNCHANGED <<jobs, active, closed>>

\* Whatever text was settled last.
LatestSettled(r, a) ==
  LET x == run[r].exit IN
  IF x \in {"text", "empty"}
  THEN [a EXCEPT !.output = IF x = "text" THEN r ELSE @, !.pending = @ - 1,
                 !.status = IF a.pending > 1 THEN "running" ELSE "completed"]
  ELSE [a EXCEPT !.pending = 0, !.status = IF x = "failed" THEN "error" ELSE "cancelled"]

\* The record settle writes: the job goes on while other runs are pending,
\* unless this one failed.
AfterRun(r, a) ==
  LET x == run[r].exit
      output == IF x = "text" /\ (a.output = Nobody \/ run[a.output].sequence < run[r].sequence)
                THEN r ELSE a.output
  IN IF x \in {"text", "empty"}
     THEN [a EXCEPT !.output = output, !.pending = @ - 1,
                    !.status = IF a.pending > 1 THEN "running" ELSE "completed"]
     ELSE [a EXCEPT !.pending = 0, !.status = IF x = "failed" THEN "error" ELSE "cancelled"]

\* Settlements are not told apart by the token.
IsCurrentAlways(r) == TRUE

IsCurrent(r) == jobs[run[r].job] = run[r].token

Settle(r) ==
  LET t == jobs[run[r].job]
      a == AfterRun(r, active[t])
  IN /\ run[r].phase = "ended"
     /\ run' = [run EXCEPT ![r].phase = "over"]
     /\ UNCHANGED jobs
     /\ IF IsCurrent(r) /\ active[t].status = "running"
        THEN /\ active' = [active EXCEPT ![t] = a]
             /\ closed' = IF a.status = "running" THEN closed ELSE closed \cup {t}
        ELSE UNCHANGED <<active, closed>>
=============================================================================
