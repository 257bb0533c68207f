---------------------------- MODULE SingleFlight ----------------------------
(***************************************************************************)
(* What the session run coordinator promises its callers, without its      *)
(* entries, fibers and deferreds: for every key there is at most one       *)
(* execution, requests that overlap it are coalesced into one follow-up,   *)
(* and stopping an execution forgets the follow-up.                        *)
(*                                                                         *)
(* RunCoordinator implements this specification; SessionExecution composes *)
(* it with the prompt inbox.                                               *)
(***************************************************************************)

CONSTANT Key

VARIABLES
  phase,   \* phase[k]: "idle", "scheduled" (owned, not begun) or "running"
  again    \* again[k]: one follow-up is owed after the current execution

vars == <<phase, again>>

TypeOK ==
  /\ phase \in [Key -> {"idle", "scheduled", "running"}]
  /\ again \in [Key -> BOOLEAN]

Init ==
  /\ phase = [k \in Key |-> "idle"]
  /\ again = [k \in Key |-> FALSE]

\* An idle key starts an execution, whoever asks for it.
Launch(k) ==
  /\ phase[k] = "idle"
  /\ phase' = [phase EXCEPT ![k] = "scheduled"]
  /\ UNCHANGED again

\* New work recorded during an execution asks for one more pass.
Coalesce(k) ==
  /\ phase[k] # "idle"
  /\ again' = [again EXCEPT ![k] = TRUE]
  /\ UNCHANGED phase

Begin(k) ==
  /\ phase[k] = "scheduled"
  /\ phase' = [phase EXCEPT ![k] = "running"]
  /\ UNCHANGED again

\* The execution is over: the owed pass is scheduled, or the key is idle. An
\* execution that is stopped before it began ends without running.
End(k) ==
  /\ phase[k] # "idle"
  /\ phase' = [phase EXCEPT ![k] = IF again[k] THEN "scheduled" ELSE "idle"]
  /\ again' = [again EXCEPT ![k] = FALSE]

\* Stopping forgets the follow-up; the execution itself still has to end.
Cancel(k) ==
  /\ phase[k] # "idle"
  /\ again' = [again EXCEPT ![k] = FALSE]
  /\ UNCHANGED phase

Next == \E k \in Key : Launch(k) \/ Coalesce(k) \/ Begin(k) \/ End(k) \/ Cancel(k)

Spec == Init /\ [][Next]_vars

\* An execution that was scheduled begins or ends, one that runs ends.
FairSpec ==
  /\ Spec
  /\ \A k \in Key : WF_vars(Begin(k) \/ End(k))
  /\ \A k \in Key : WF_vars(phase[k] = "running" /\ End(k))
=============================================================================
