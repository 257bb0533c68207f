-------------------------- MODULE SessionRunState --------------------------
(***************************************************************************)
(* What runs in one session of the V1 runtime: the runner (effect/runner.ts*)
(* and kilocode/effect/runner.ts), the table of runners and their callbacks*)
(* (session/run-state.ts) and the status clients see (session/status.ts).  *)
(*                                                                         *)
(* A runner is idle, runs a loop, runs a shell, or runs a shell with a loop*)
(* pending: loop[r] and shell[r] say which.  The work of a caller is named *)
(* by the caller, since every caller brings at most one.                   *)
(*                                                                         *)
(* The state of a runner is read and written under its semaphore, which    *)
(* only `startShell` holds over an asynchronous step, its `onBusy`.        *)
(***************************************************************************)
EXTENDS Naturals

CONSTANTS
  Loop,       \* callers of ensureRunning
  Shell,      \* callers of startShell
  Canceller,  \* callers of cancel
  Nobody

ASSUME NobodyAssumption == Nobody \notin Loop \cup Shell \cup Canceller
ASSUME CancellersAssumption == Canceller \cap (Loop \cup Shell) = {}
ASSUME LoopsAreNoShells == Loop \cap Shell = {}

Caller == Loop \cup Shell

\* Every caller makes a runner at most once.
Runner == Caller

VARIABLES
  registered,  \* the runner the table holds for the session, Nobody for none
  loop,        \* loop[r]: the work of `run` in r's state
  shell,       \* shell[r]: the work of `shell` in r's state
  holder,      \* holder[r]: who holds r's semaphore while it publishes busy
  at,          \* at[c]: the runner c waits for, or its work was begun on
  joined,      \* joined[c]: the work whose outcome c awaits
  work,        \* work[c]: how far the work of c is
  status,      \* what the status store says
  victims,     \* victims[k]: the works the canceller k has taken off a runner
  kpc          \* where each canceller is

registry == <<registered, loop, shell, holder>>
works == <<at, joined, work>>
runState == <<registry, works, status, victims, kpc>>

(* A loop is "pending" behind a shell, "starting" until it has published   *)
(* that the session is busy, "running", then "idling" while the session's  *)
(* status is set to idle.  A shell is "starting" until it has opened its   *)
(* latch.  A work taken off is "doomed" until then and "stopping" until its*)
(* clean-up is over.                                                       *)
WorkStates == {"none", "pending", "starting", "running", "doomed", "stopping", "idling", "over"}

RunStateTypeOK ==
  /\ registered \in Runner \cup {Nobody}
  /\ loop \in [Runner -> Loop \cup {Nobody}]
  /\ shell \in [Runner -> Shell \cup {Nobody}]
  /\ holder \in [Runner -> Shell \cup {Nobody}]
  /\ at \in [Caller \cup Canceller -> Runner \cup {Nobody}]
  /\ joined \in [Loop -> Loop \cup {Nobody}]
  /\ work \in [Caller -> WorkStates]
  /\ status \in {"idle", "busy"}
  /\ victims \in [Canceller -> SUBSET Caller]
  /\ kpc \in [Canceller -> {"new", "stopped", "runner", "stopping", "status", "end", "over"}]

RunStateInit ==
  /\ registered = Nobody
  /\ loop = [r \in Runner |-> Nobody]
  /\ shell = [r \in Runner |-> Nobody]
  /\ holder = [r \in Runner |-> Nobody]
  /\ at = [c \in Caller \cup Canceller |-> Nobody]
  /\ joined = [c \in Loop |-> Nobody]
  /\ work = [c \in Caller |-> "none"]
  /\ status = "idle"
  /\ victims = [k \in Canceller |-> {}]
  /\ kpc = [k \in Canceller |-> "new"]

\* c has looked r up and waits for its semaphore.
Waits(c, r) ==
  /\ at[c] = r /\ holder[r] # c
  /\ IF c \in Canceller THEN kpc[c] = "runner" ELSE work[c] = "none"

\* The semaphore is free, and is given to those who wait for it first.
Enters(c, r) ==
  /\ holder[r] = Nobody
  /\ Waits(c, r) \/ \A d \in Caller \cup Canceller : ~Waits(d, r)

Idle(r) == loop[r] = Nobody /\ shell[r] = Nobody

\* The runner a caller uses: the one it waits for, else the registered one,
\* else a new one.
RunnerOf(c) ==
  IF at[c] # Nobody THEN at[c]
  ELSE IF registered # Nobody THEN registered ELSE c

Register(c) == registered' = IF at[c] = Nobody THEN RunnerOf(c) ELSE registered

\* c has looked its runner up and finds the semaphore taken.
WaitForRunner(c) ==
  /\ at[c] = Nobody /\ registered # Nobody /\ ~Enters(c, registered)
  /\ at' = [at EXCEPT ![c] = registered]
  /\ UNCHANGED <<registry, joined, work, status, victims, kpc>>

-----------------------------------------------------------------------------
\* ensureRunning, with `valid` evaluated under the semaphore.

Refuse(c, valid) ==
  /\ Enters(c, RunnerOf(c)) /\ ~valid
  /\ Register(c)
  /\ at' = [at EXCEPT ![c] = Nobody]
  /\ UNCHANGED <<loop, shell, holder, joined, work, status, victims, kpc>>

Join(c, valid) ==
  LET r == RunnerOf(c) IN
  /\ Enters(c, r) /\ valid /\ loop[r] # Nobody
  /\ joined' = [joined EXCEPT ![c] = loop[r]]
  /\ at' = [at EXCEPT ![c] = Nobody]
  /\ Register(c)
  /\ UNCHANGED <<loop, shell, holder, work, status, victims, kpc>>

Begin(c, valid, where) ==
  LET r == RunnerOf(c) IN
  /\ Enters(c, r) /\ valid /\ loop[r] = Nobody
  /\ loop' = [loop EXCEPT ![r] = c]
  /\ work' = [work EXCEPT ![c] = where]
  /\ joined' = [joined EXCEPT ![c] = c]
  /\ at' = [at EXCEPT ![c] = r]
  /\ Register(c)
  /\ UNCHANGED <<shell, holder, status, victims, kpc>>

Start(c, valid) == shell[RunnerOf(c)] = Nobody /\ Begin(c, valid, "starting")

\* Mutant of Pend: the loop does not wait for the shell.
PendNever(c, valid) == shell[RunnerOf(c)] # Nobody /\ Begin(c, valid, "starting")

Pend(c, valid) == shell[RunnerOf(c)] # Nobody /\ Begin(c, valid, "pending")

-----------------------------------------------------------------------------
\* The body of a loop.

PublishBusy(c) ==
  /\ c \in Loop /\ work[c] = "starting"
  /\ work' = [work EXCEPT ![c] = "running"]
  /\ status' = "busy"
  /\ UNCHANGED <<registry, at, joined, victims, kpc>>

\* finishRun, or finishShell of a shell with no loop pending: the entry of the
\* table goes, whichever runner it names.
Finish(c) ==
  LET r == at[c] IN
  /\ work[c] = "running" /\ Enters(c, r)
  /\ work' = [work EXCEPT ![c] = "idling"]
  /\ registered' = Nobody
  /\ loop' = [loop EXCEPT ![r] = Nobody]
  /\ shell' = [shell EXCEPT ![r] = Nobody]
  /\ UNCHANGED <<holder, at, joined, status, victims, kpc>>

FinishLoop(c) == Finish(c) /\ loop[at[c]] = c

SetIdle(c) ==
  /\ work[c] = "idling"
  /\ work' = [work EXCEPT ![c] = "over"]
  /\ status' = "idle"
  /\ UNCHANGED <<registry, at, joined, victims, kpc>>

-----------------------------------------------------------------------------
\* startShell.

\* A runner that is not idle rejects the shell.
Reject(c) ==
  /\ Enters(c, RunnerOf(c)) /\ ~Idle(RunnerOf(c)) /\ work[c] = "none"
  /\ work' = [work EXCEPT ![c] = "over"]
  /\ UNCHANGED <<registry, at, joined, status, victims, kpc>>

Take(c) ==
  LET r == RunnerOf(c) IN
  /\ Enters(c, r) /\ Idle(r) /\ work[c] = "none"
  /\ holder' = [holder EXCEPT ![r] = c]
  /\ at' = [at EXCEPT ![c] = r]
  /\ Register(c)
  /\ UNCHANGED <<loop, shell, joined, work, status, victims, kpc>>

Fork(c) ==
  LET r == at[c] IN
  /\ r # Nobody /\ holder[r] = c
  /\ holder' = [holder EXCEPT ![r] = Nobody]
  /\ shell' = [shell EXCEPT ![r] = c]
  /\ work' = [work EXCEPT ![c] = "starting"]
  /\ status' = "busy"
  /\ UNCHANGED <<registered, loop, at, joined, victims, kpc>>

Ready(c) ==
  /\ c \in Shell /\ work[c] \in {"starting", "doomed"}
  /\ work' = [work EXCEPT ![c] = IF @ = "doomed" THEN "stopping" ELSE "running"]
  /\ UNCHANGED <<registry, at, joined, status, victims, kpc>>

FinishShell(c) == Finish(c) /\ shell[at[c]] = c /\ loop[at[c]] = Nobody

\* finishShell starts the pending loop.
HandToLoop(c) ==
  LET r == at[c] IN
  /\ work[c] = "running" /\ Enters(c, r)
  /\ shell[r] = c /\ loop[r] # Nobody
  /\ shell' = [shell EXCEPT ![r] = Nobody]
  /\ work' = [work EXCEPT ![c] = "over", ![loop[r]] = "starting"]
  /\ UNCHANGED <<registered, loop, holder, at, joined, status, victims, kpc>>

-----------------------------------------------------------------------------
\* cancel.

Target(k) == IF at[k] # Nobody THEN at[k] ELSE registered

CancelWaits(k) == kpc[k] = "runner" /\ WaitForRunner(k)

CancelNone(k) ==
  /\ kpc[k] = "runner" /\ Target(k) = Nobody
  /\ kpc' = [kpc EXCEPT ![k] = "status"]
  /\ UNCHANGED <<registry, works, status, victims>>

CancelIdle(k) ==
  /\ kpc[k] = "runner" /\ Target(k) # Nobody
  /\ Enters(k, Target(k)) /\ Idle(Target(k))
  /\ kpc' = [kpc EXCEPT ![k] = "end"]
  /\ UNCHANGED <<registry, works, status, victims>>

Off(c) ==
  CASE work[c] = "pending" -> "pending"
    [] c \in Shell /\ work[c] = "starting" -> "doomed"
    [] OTHER -> "stopping"

\* The runner is idle at once; the works it had are interrupted, a shell only
\* when its latch is open.
CancelActive(k) ==
  LET r == Target(k)
      found == {loop[r], shell[r]} \ {Nobody} IN
  /\ kpc[k] = "runner" /\ r # Nobody
  /\ Enters(k, r) /\ found # {}
  /\ loop' = [loop EXCEPT ![r] = Nobody]
  /\ shell' = [shell EXCEPT ![r] = Nobody]
  /\ work' = [c \in Caller |-> IF c \in found THEN Off(c) ELSE work[c]]
  /\ victims' = [victims EXCEPT ![k] = found]
  /\ kpc' = [kpc EXCEPT ![k] = "stopping"]
  /\ UNCHANGED <<registered, holder, at, joined, status>>

\* Mutant of Stopped: what a shell kept pending is not failed.
StoppedShellOnly(k) ==
  LET r == at[CHOOSE c \in victims[k] : TRUE] IN
  /\ kpc[k] = "stopping"
  /\ Enters(k, r)
  /\ \A c \in victims[k] : work[c] \in {"stopping", "pending"}
  /\ work' = [c \in Caller |-> IF c \in victims[k] /\ work[c] = "stopping" THEN "over" ELSE work[c]]
  /\ victims' = [victims EXCEPT ![k] = {}]
  /\ IF Idle(r)
       THEN registered' = Nobody /\ kpc' = [kpc EXCEPT ![k] = "status"]
       ELSE kpc' = [kpc EXCEPT ![k] = "end"] /\ UNCHANGED registered
  /\ UNCHANGED <<loop, shell, holder, at, joined, status>>

\* The end of an interrupted work, the failure of what it kept pending and
\* `idleIfCurrent`: no I/O lies between them.
Stopped(k) ==
  LET r == at[CHOOSE c \in victims[k] : TRUE] IN
  /\ kpc[k] = "stopping"
  /\ Enters(k, r)
  /\ \A c \in victims[k] : work[c] \in {"stopping", "pending"}
  /\ work' = [c \in Caller |-> IF c \in victims[k] THEN "over" ELSE work[c]]
  /\ victims' = [victims EXCEPT ![k] = {}]
  /\ IF Idle(r)
       THEN registered' = Nobody /\ kpc' = [kpc EXCEPT ![k] = "status"]
       ELSE kpc' = [kpc EXCEPT ![k] = "end"] /\ UNCHANGED registered
  /\ UNCHANGED <<loop, shell, holder, at, joined, status>>

SetStopped(k) ==
  /\ kpc[k] = "status"
  /\ status' = "idle"
  /\ kpc' = [kpc EXCEPT ![k] = "end"]
  /\ UNCHANGED <<registry, works, victims>>

\* Work that nobody has stopped and that is not over.
Live(c) == work[c] \in {"starting", "running"}
=============================================================================
