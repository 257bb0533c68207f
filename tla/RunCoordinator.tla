--------------------------- MODULE RunCoordinator ---------------------------
(***************************************************************************)
(* The session run coordinator (packages/core/src/session/run-coordinator  *)
(* .ts): `run`, `wake` and `interrupt` over the map `active` of entries,   *)
(* and `start` and `settle`, which give an entry its owner fiber and end   *)
(* it.                                                                     *)
(*                                                                         *)
(* All fibers share one JavaScript thread, so a synchronous block is one   *)
(* action; fibers interleave between the blocks.  An entry is an object    *)
(* that nobody references once it has settled, so its name in Entry can be *)
(* used again.                                                             *)
(***************************************************************************)

CONSTANTS
  Key,       \* the sessions
  Entry,     \* names for the objects of type Entry
  Caller,    \* the fibers that call `run` or `interrupt`
  NoEntry,
  NoKey

ASSUME NoEntryAssumption == NoEntry \notin Entry
ASSUME NoKeyAssumption   == NoKey \notin Key

VARIABLES
  active,        \* the map from keys to entries
  owner,         \* phase of the owner fiber: "none", "starting", "draining"
  keyOf,         \* the key the owner fiber closed over
  forced,        \* the `force` argument of its drain
  pendingWake,
  stopping,
  signalled,     \* the owner fiber has been interrupted
  pc,            \* where a caller is
  at,            \* the entry a caller waits for
  wants,         \* the key a caller asked for
  got,           \* the exit a caller was handed
  closed,        \* the scope of the fiber set is closed
  owed,          \* history: a wake no drain has started for since
  quiet          \* history: stopped, and nobody asked again since

entries  == <<active, owner, keyOf, forced, pendingWake, stopping, signalled>>
callers  == <<pc, at, wants, got>>
history  == <<owed, quiet>>
vars     == <<entries, callers, closed, history>>

Exits == {"success", "failure", "interrupt"}

TypeOK ==
  /\ active \in [Key -> Entry \cup {NoEntry}]
  /\ owner \in [Entry -> {"none", "starting", "draining"}]
  /\ keyOf \in [Entry -> Key \cup {NoKey}]
  /\ forced \in [Entry -> BOOLEAN]
  /\ pendingWake \in [Entry -> BOOLEAN]
  /\ stopping \in [Entry -> BOOLEAN]
  /\ signalled \in [Entry -> BOOLEAN]
  /\ pc \in [Caller -> {"idle", "joined", "retrying", "signalling", "stopping", "released", "retry"}]
  /\ at \in [Caller -> Entry \cup {NoEntry}]
  /\ wants \in [Caller -> Key \cup {NoKey}]
  /\ got \in [Caller -> Exits \cup {"none"}]
  /\ closed \in BOOLEAN
  /\ owed \in [Key -> BOOLEAN]
  /\ quiet \in [Key -> BOOLEAN]

Init ==
  /\ active = [k \in Key |-> NoEntry]
  /\ owner = [e \in Entry |-> "none"]
  /\ keyOf = [e \in Entry |-> NoKey]
  /\ forced = [e \in Entry |-> FALSE]
  /\ pendingWake = [e \in Entry |-> FALSE]
  /\ stopping = [e \in Entry |-> FALSE]
  /\ signalled = [e \in Entry |-> FALSE]
  /\ pc = [c \in Caller |-> "idle"]
  /\ at = [c \in Caller |-> NoEntry]
  /\ wants = [c \in Caller |-> NoKey]
  /\ got = [c \in Caller |-> "none"]
  /\ closed = FALSE
  /\ owed = [k \in Key |-> FALSE]
  /\ quiet = [k \in Key |-> FALSE]

-----------------------------------------------------------------------------
Free == {e \in Entry : owner[e] = "none"}

Live(e) == owner[e] # "none"

\* `start`: the entry gets a new owner fiber, which first parks (on `ready`, or
\* on a yield when it follows another).  Forking into a closed fiber set
\* interrupts the fiber at once.
Start(k, e, force, wake, stop) ==
  /\ owner' = [owner EXCEPT ![e] = "starting"]
  /\ keyOf' = [keyOf EXCEPT ![e] = k]
  /\ forced' = [forced EXCEPT ![e] = force]
  /\ pendingWake' = [pendingWake EXCEPT ![e] = wake]
  /\ stopping' = [stopping EXCEPT ![e] = stop]
  /\ signalled' = [signalled EXCEPT ![e] = closed]

\* Mutant of Launch: the map is not looked up first.
LaunchUnchecked(k, e, force) ==
  /\ e \in Free
  /\ active' = [active EXCEPT ![k] = e]
  /\ Start(k, e, force, FALSE, FALSE)

\* `makeEntry`, entered in the map and started.
Launch(k, e, force) ==
  /\ active[k] = NoEntry
  /\ e \in Free
  /\ active' = [active EXCEPT ![k] = e]
  /\ Start(k, e, force, FALSE, FALSE)

Wait(c, k, e, where) ==
  /\ pc' = [pc EXCEPT ![c] = where]
  /\ at' = [at EXCEPT ![c] = e]
  /\ wants' = [wants EXCEPT ![c] = k]
  /\ got' = [got EXCEPT ![c] = "none"]

\* `run` on an idle key: a forced execution.
RunLaunch(c, k) ==
  \E e \in Entry :
    /\ Launch(k, e, TRUE)
    /\ Wait(c, k, e, "joined")
    /\ quiet' = [quiet EXCEPT ![k] = FALSE]
    /\ UNCHANGED <<closed, owed>>

\* `run` on an active key joins it.  If it is being stopped, the caller means
\* to run again once it is over.
RunJoin(c, k) ==
  /\ active[k] # NoEntry
  /\ Wait(c, k, active[k], IF stopping[active[k]] THEN "retrying" ELSE "joined")
  /\ UNCHANGED <<entries, closed, history>>

Run(c, k) == pc[c] = "idle" /\ (RunLaunch(c, k) \/ RunJoin(c, k))

\* `Effect.andThen(run(key))`, reached after the awaited exit was a success.
RunAgain(c) == pc[c] = "retry" /\ (RunLaunch(c, wants[c]) \/ RunJoin(c, wants[c]))

WakeActive(k) ==
  /\ active[k] # NoEntry
  /\ pendingWake' = [pendingWake EXCEPT ![active[k]] = TRUE]
  /\ UNCHANGED <<active, owner, keyOf, forced, stopping, signalled>>

\* `wake`: a coalesced follow-up, or an execution that is not forced.
Wake(k) ==
  /\ WakeActive(k) \/ \E e \in Entry : Launch(k, e, FALSE)
  /\ owed' = [owed EXCEPT ![k] = ~closed]
  /\ quiet' = [quiet EXCEPT ![k] = FALSE]
  /\ UNCHANGED <<callers, closed>>

\* Mutant of InterruptMark: the coalesced wake survives.
InterruptMarkKeepsWake(c, k) ==
  /\ pc[c] = "idle"
  /\ active[k] # NoEntry
  /\ stopping' = [stopping EXCEPT ![active[k]] = TRUE]
  /\ Wait(c, k, active[k], "signalling")
  /\ owed' = [owed EXCEPT ![k] = FALSE]
  /\ quiet' = [quiet EXCEPT ![k] = TRUE]
  /\ UNCHANGED <<active, owner, keyOf, forced, pendingWake, signalled, closed>>

\* The synchronous half of `interrupt`.
InterruptMark(c, k) ==
  /\ pc[c] = "idle"
  /\ active[k] # NoEntry
  /\ stopping' = [stopping EXCEPT ![active[k]] = TRUE]
  /\ pendingWake' = [pendingWake EXCEPT ![active[k]] = FALSE]
  /\ Wait(c, k, active[k], "signalling")
  /\ owed' = [owed EXCEPT ![k] = FALSE]
  /\ quiet' = [quiet EXCEPT ![k] = TRUE]
  /\ UNCHANGED <<active, owner, keyOf, forced, signalled, closed>>

\* `Fiber.interrupt(entry.owner)`: the scheduler may run other fibers before.
InterruptSignal(c) ==
  /\ pc[c] = "signalling"
  /\ signalled' = [signalled EXCEPT ![at[c]] = TRUE]
  /\ pc' = [pc EXCEPT ![c] = "stopping"]
  /\ UNCHANGED <<active, owner, keyOf, forced, pendingWake, stopping>>
  /\ UNCHANGED <<at, wants, got, closed, history>>

\* The owner fiber leaves its park and calls `options.drain`.
DrainStart(e) ==
  /\ owner[e] = "starting"
  /\ ~signalled[e]
  /\ owner' = [owner EXCEPT ![e] = "draining"]
  /\ owed' = [owed EXCEPT ![keyOf[e]] = FALSE]
  /\ UNCHANGED <<active, keyOf, forced, pendingWake, stopping, signalled>>
  /\ UNCHANGED <<callers, closed, quiet>>

\* `settle`, first branch: the same entry drains again.
Restart(e) ==
  /\ Start(keyOf[e], e, FALSE, FALSE, FALSE)
  /\ UNCHANGED <<active, callers>>

\* The entry is removed from the map.
Retire(e) ==
  /\ active' = [active EXCEPT ![keyOf[e]] = NoEntry]
  /\ owner' = [owner EXCEPT ![e] = "none"]
  /\ keyOf' = [keyOf EXCEPT ![e] = NoKey]
  /\ forced' = [forced EXCEPT ![e] = FALSE]
  /\ pendingWake' = [pendingWake EXCEPT ![e] = FALSE]
  /\ stopping' = [stopping EXCEPT ![e] = FALSE]
  /\ signalled' = [signalled EXCEPT ![e] = FALSE]

\* The entry is replaced by a successor for the wake it still holds.
Succeed(e, n) ==
  /\ n \in Free
  /\ active' = [active EXCEPT ![keyOf[e]] = n]
  /\ owner' = [owner EXCEPT ![e] = "none", ![n] = "starting"]
  /\ keyOf' = [keyOf EXCEPT ![e] = NoKey, ![n] = keyOf[e]]
  /\ forced' = [forced EXCEPT ![e] = FALSE, ![n] = FALSE]
  /\ pendingWake' = [pendingWake EXCEPT ![e] = FALSE, ![n] = FALSE]
  /\ stopping' = [stopping EXCEPT ![e] = FALSE, ![n] = FALSE]
  /\ signalled' = [signalled EXCEPT ![e] = FALSE, ![n] = closed]

\* Mutant of Release: `entry.done` is not completed.
ReleaseInterrupters(e, exit) ==
  /\ pc' = [c \in Caller |-> IF at[c] = e /\ pc[c] = "stopping" THEN "released" ELSE pc[c]]
  /\ at' = [c \in Caller |-> IF at[c] = e /\ pc[c] = "stopping" THEN NoEntry ELSE at[c]]
  /\ UNCHANGED <<wants, got>>

\* `Deferred.doneUnsafe(entry.done, exit)` hands the exit to everyone who
\* awaits it; the end of the owner fiber releases those who interrupted it.
Release(e, exit) ==
  /\ pc' = [c \in Caller |->
       IF at[c] # e THEN pc[c]
       ELSE IF pc[c] = "retrying" /\ exit = "success" THEN "retry" ELSE "released"]
  /\ got' = [c \in Caller |->
       IF at[c] = e /\ pc[c] \in {"joined", "retrying"} THEN exit ELSE got[c]]
  /\ at' = [c \in Caller |-> IF at[c] = e THEN NoEntry ELSE at[c]]
  /\ UNCHANGED wants

\* Mutant of CatchUp: the wake is always left to a successor.
CatchUpNever(e, exit) == FALSE

CatchUp(e, exit) == exit = "success" /\ ~stopping[e] /\ pendingWake[e]

\* Mutant of Settle: a drain that failed does not look at the pending wake.
SettleForgetsWake(e, exit) ==
  /\ \/ CatchUp(e, exit) /\ Restart(e)
     \/ ~CatchUp(e, exit) /\ Retire(e) /\ Release(e, exit)
  /\ UNCHANGED <<closed, history>>

\* `settle`, run by the owner fiber with the exit of its drain.
Settle(e, exit) ==
  /\ \/ CatchUp(e, exit) /\ Restart(e)
     \/ /\ ~CatchUp(e, exit)
        /\ IF pendingWake[e] THEN \E n \in Entry : Succeed(e, n) ELSE Retire(e)
        /\ Release(e, exit)
  /\ UNCHANGED <<closed, history>>

\* The drain ends by itself.  It may interrupt itself (a session that moved).
DrainEnd(e, exit) ==
  /\ owner[e] = "draining"
  /\ ~signalled[e]
  /\ Settle(e, exit)

\* An interrupted fiber ends without starting its drain, or after the drain's
\* cleanup, which may itself fail.
DrainStopped(e, exit) ==
  /\ Live(e)
  /\ signalled[e]
  /\ exit = "failure" => owner[e] = "draining"
  /\ exit # "success"
  /\ Settle(e, exit)

\* A caller of `run` or `interrupt` goes on with what it was handed.
Return(c) ==
  /\ pc[c] = "released"
  /\ pc' = [pc EXCEPT ![c] = "idle"]
  /\ wants' = [wants EXCEPT ![c] = NoKey]
  /\ got' = [got EXCEPT ![c] = "none"]
  /\ UNCHANGED <<entries, at, closed, history>>

\* A waiting caller is itself interrupted: only its wait ends.
Abandon(c) ==
  /\ pc[c] \in {"joined", "retrying", "stopping", "retry"}
  /\ pc' = [pc EXCEPT ![c] = "idle"]
  /\ at' = [at EXCEPT ![c] = NoEntry]
  /\ wants' = [wants EXCEPT ![c] = NoKey]
  /\ got' = [got EXCEPT ![c] = "none"]
  /\ UNCHANGED <<entries, closed, history>>

\* The scope of the fiber set closes: every fiber in it is interrupted.
Close ==
  /\ ~closed
  /\ closed' = TRUE
  /\ signalled' = [e \in Entry |-> Live(e)]
  /\ owed' = [k \in Key |-> FALSE]
  /\ UNCHANGED <<active, owner, keyOf, forced, pendingWake, stopping, callers, quiet>>

Next ==
  \/ \E k \in Key : Wake(k)
  \/ \E c \in Caller, k \in Key : Run(c, k) \/ InterruptMark(c, k)
  \/ \E c \in Caller : RunAgain(c) \/ InterruptSignal(c) \/ Return(c) \/ Abandon(c)
  \/ \E e \in Entry : DrainStart(e)
  \/ \E e \in Entry, exit \in Exits : DrainEnd(e, exit) \/ DrainStopped(e, exit)
  \/ Close

Spec == Init /\ [][Next]_vars

\* The runtime resumes every runnable fiber, and every drain ends: the provider
\* stream and the tools it waits for terminate.  Nobody has to call anything.
Fairness ==
  /\ \A e \in Entry : WF_vars(DrainStart(e) \/ \E exit \in Exits : DrainStopped(e, exit))
  /\ \A e \in Entry : WF_vars(\E exit \in Exits : DrainEnd(e, exit) \/ DrainStopped(e, exit))
  /\ \A c \in Caller : WF_vars(RunAgain(c)) /\ WF_vars(InterruptSignal(c)) /\ WF_vars(Return(c))

FairSpec == Spec /\ Fairness

-----------------------------------------------------------------------------
\* Executions of one session never overlap: no two entries have a live owner
\* fiber for the same key, in the middle of restarts and successions included.
OneDrainPerKey ==
  \A e, f \in Entry : Live(e) /\ Live(f) /\ keyOf[e] = keyOf[f] => e = f

\* Nobody waits for an execution that is gone: every caller suspended in `run`
\* or `interrupt` waits for an entry that has a live owner fiber on its key.
NobodyStranded ==
  \A c \in Caller :
    pc[c] \in {"joined", "retrying", "signalling", "stopping"} =>
      /\ at[c] \in Entry
      /\ Live(at[c])
      /\ keyOf[at[c]] = wants[c]

\* A wake that no drain has started for is still held by the active entry,
\* whatever exits, interrupts and successions happened since.
WakeRemembered ==
  \A k \in Key : owed[k] =>
    /\ active[k] # NoEntry
    /\ \/ pendingWake[active[k]]
       \/ owner[active[k]] = "starting" /\ ~stopping[active[k]]

\* After an interrupt no execution is scheduled for the key until somebody
\* asks again: the wakes that came before the interrupt are forgotten.
InterruptIsFinal ==
  [][\A e \in Entry :
       owner'[e] = "starting" /\ owner[e] # "starting" => ~quiet'[keyOf'[e]]]_vars

\* A `run` that joined an execution is told of success only when no wake is
\* left without a drain, unless the execution was being stopped.
SuccessMeansCaughtUp ==
  [][\A c \in Caller :
       pc[c] = "joined" /\ pc'[c] = "released" /\ got'[c] = "success" =>
         ~owed[wants[c]] \/ stopping[at[c]]]_vars

\* A `run` that found the execution stopping starts or joins another one; it is
\* never answered with the exit of the execution that was being stopped.
ResumeSurvivesStop ==
  [][\A c \in Caller : pc[c] = "retrying" => pc'[c] # "released"]_vars

\* Once wakes stop coming, everyone who joined an execution is answered.  While
\* they keep coming, one entry drains for ever and its waiters wait for ever.
WaitersReleased ==
  <>[](\A k \in Key : ~owed[k]) =>
    \A c \in Caller : pc[c] = "joined" ~> pc[c] = "idle"

\* The coordinator implements the single-flight executor: an entry in the map is
\* an execution, and its pending wake is the coalesced follow-up.
SF == INSTANCE SingleFlight WITH
  phase <- [k \in Key |->
    IF active[k] = NoEntry THEN "idle"
    ELSE IF owner[active[k]] = "starting" THEN "scheduled" ELSE "running"],
  again <- [k \in Key |-> IF active[k] = NoEntry THEN FALSE ELSE pendingWake[active[k]]]

ImplementsSingleFlight == SF!FairSpec
=============================================================================
