------------------------ MODULE RunCoordinatorProofs ------------------------
(***************************************************************************)
(* Proofs about RunCoordinator for every set of keys, entries and callers: *)
(* executions of a key never overlap, no caller waits for an execution     *)
(* that is gone, a wake is held until a drain starts for it, an interrupt  *)
(* leaves no wake behind, a success means that none is owed, and every step *)
(* is a step of SingleFlight or none.                                      *)
(***************************************************************************)
EXTENDS RunCoordinator, TLAPS

\* The map and the owner fibers agree: the part of the invariant on which all
\* others rest.
MapOwnsFibers ==
  /\ \A k \in Key : active[k] # NoEntry => Live(active[k]) /\ keyOf[active[k]] = k
  /\ \A e \in Entry : Live(e) => keyOf[e] \in Key /\ active[keyOf[e]] = e

\* Callers refer to an entry exactly while they wait for it.
CallersWait ==
  \A c \in Caller :
    /\ at[c] # NoEntry <=> pc[c] \in {"joined", "retrying", "signalling", "stopping"}
    /\ at[c] # NoEntry => Live(at[c]) /\ keyOf[at[c]] = wants[c]
    /\ pc[c] = "retry" => wants[c] \in Key

\* A fiber is interrupted by `interrupt`, or because the scope closed, and a
\* closed scope owes nothing.
SignalsHaveCause ==
  /\ \A e \in Entry : signalled[e] => stopping[e] \/ closed
  /\ \A k \in Key : owed[k] => ~closed
  /\ \A c \in Caller : pc[c] \in {"signalling", "stopping"} => stopping[at[c]]

IInv == TypeOK /\ MapOwnsFibers /\ CallersWait /\ SignalsHaveCause /\ WakeRemembered
-----------------------------------------------------------------------------
\* The initial state satisfies the inductive invariant.
LEMMA InitInvariant == Init => IInv
<1> SUFFICES ASSUME Init PROVE IInv
  OBVIOUS
<1>1. TypeOK
  BY DEF Init, TypeOK
<1>2. MapOwnsFibers
  BY DEF Init, MapOwnsFibers, Live
<1>3. CallersWait
  BY DEF Init, CallersWait
<1>4. SignalsHaveCause /\ WakeRemembered
  BY DEF Init, SignalsHaveCause, WakeRemembered
<1>5. QED
  BY <1>1, <1>2, <1>3, <1>4 DEF IInv

\* An entry that is launched is new to the map and to everyone who waits.
LEMMA LaunchInvariant ==
  ASSUME IInv, NEW k \in Key, NEW e \in Entry, NEW force \in BOOLEAN, Launch(k, e, force)
  PROVE  /\ MapOwnsFibers'
         /\ \A j \in Key : IF j = k THEN active'[j] = e
                                    ELSE active'[j] = active[j] /\ active[j] # e
         /\ \A f \in Entry : Live(f) => f # e /\ Live(f)' /\ keyOf'[f] = keyOf[f]
         /\ \A f \in Entry : f # e =>
              /\ owner'[f] = owner[f]
              /\ pendingWake'[f] = pendingWake[f]
              /\ stopping'[f] = stopping[f]
              /\ signalled'[f] = signalled[f]
         /\ ~Live(e) /\ Live(e)' /\ keyOf'[e] = k
         /\ owner'[e] = "starting" /\ ~pendingWake'[e] /\ ~stopping'[e] /\ signalled'[e] = closed
<1>1. /\ owner' = [owner EXCEPT ![e] = "starting"]
      /\ keyOf' = [keyOf EXCEPT ![e] = k]
      /\ pendingWake' = [pendingWake EXCEPT ![e] = FALSE]
      /\ stopping' = [stopping EXCEPT ![e] = FALSE]
      /\ signalled' = [signalled EXCEPT ![e] = closed]
      /\ active' = [active EXCEPT ![k] = e]
      /\ active[k] = NoEntry
      /\ owner[e] = "none"
  BY DEF Launch, Start, Free
<1>2. MapOwnsFibers /\ TypeOK
  BY DEF IInv
<1>3. \A j \in Key : active[j] # e
  BY <1>1, <1>2, NoEntryAssumption DEF MapOwnsFibers, Live
<1>4. MapOwnsFibers'
  BY <1>1, <1>2, <1>3, NoEntryAssumption DEF MapOwnsFibers, Live, TypeOK
<1>5. \A j \in Key : IF j = k THEN active'[j] = e ELSE active'[j] = active[j] /\ active[j] # e
  BY <1>1, <1>2, <1>3 DEF TypeOK
<1>6. \A f \in Entry : Live(f) => f # e /\ Live(f)' /\ keyOf'[f] = keyOf[f]
  BY <1>1, <1>2 DEF TypeOK, Live
<1>7. QED
  BY <1>1, <1>2, <1>4, <1>5, <1>6 DEF TypeOK, Live

\* Launching for one key leaves the wakes of the others where they were held.
LEMMA LaunchFrame ==
  ASSUME IInv, NEW k \in Key, NEW e \in Entry, NEW force \in BOOLEAN, Launch(k, e, force),
         \A j \in Key : j # k => owed'[j] = owed[j]
  PROVE  WakeRemembered'
<1> SUFFICES ASSUME NEW j \in Key, owed'[j]
             PROVE  /\ active'[j] # NoEntry
                    /\ \/ pendingWake'[active'[j]]
                       \/ owner'[active'[j]] = "starting" /\ ~stopping'[active'[j]]
  BY DEF WakeRemembered
<1>1. CASE j = k
  BY <1>1, LaunchInvariant, NoEntryAssumption
<1>2. CASE j # k
  <2>1. /\ active'[j] = active[j]
        /\ active[j] # e
        /\ active[j] # NoEntry
        /\ pendingWake[active[j]] \/ (owner[active[j]] = "starting" /\ ~stopping[active[j]])
        /\ active[j] \in Entry
    <3>1. owed[j]
      BY <1>2
    <3>2. active'[j] = active[j] /\ active[j] # e
      BY <1>2, LaunchInvariant
    <3>3. active[j] # NoEntry => active[j] \in Entry
      BY DEF IInv, TypeOK
    <3>4. QED
      BY <3>1, <3>2, <3>3 DEF IInv, WakeRemembered
  <2>2. /\ owner'[active[j]] = owner[active[j]]
        /\ pendingWake'[active[j]] = pendingWake[active[j]]
        /\ stopping'[active[j]] = stopping[active[j]]
    BY <2>1, LaunchInvariant
  <2>3. QED
    BY <2>1, <2>2
<1>3. QED
  BY <1>1, <1>2

\* `run` on an idle key.
LEMMA RunLaunchInvariant ==
  ASSUME IInv, NEW c \in Caller, NEW k \in Key, RunLaunch(c, k), pc[c] \in {"idle", "retry"}
  PROVE  IInv'
<1>1. PICK e \in Entry :
        /\ Launch(k, e, TRUE)
        /\ Wait(c, k, e, "joined")
        /\ quiet' = [quiet EXCEPT ![k] = FALSE]
        /\ UNCHANGED <<closed, owed>>
  BY DEF RunLaunch
<1>2. TypeOK'
  BY <1>1 DEF IInv, TypeOK, Launch, Start, Wait, Exits
<1>3. MapOwnsFibers'
  BY <1>1, LaunchInvariant
<1>4. CallersWait'
  <2>1. /\ \A f \in Entry : Live(f) => Live(f)' /\ keyOf'[f] = keyOf[f]
        /\ Live(e)' /\ keyOf'[e] = k
    BY <1>1, LaunchInvariant
  <2>2. /\ pc' = [pc EXCEPT ![c] = "joined"]
        /\ at' = [at EXCEPT ![c] = e]
        /\ wants' = [wants EXCEPT ![c] = k]
    BY <1>1 DEF Wait
  <2>3. QED
    BY <2>1, <2>2, NoEntryAssumption DEF IInv, TypeOK, CallersWait
<1>5. SignalsHaveCause'
  <2>1. \A d \in Caller : pc'[d] \in {"signalling", "stopping"} =>
          /\ pc[d] \in {"signalling", "stopping"}
          /\ at'[d] = at[d]
          /\ at[d] \in Entry
          /\ Live(at[d])
    BY <1>1, NoEntryAssumption DEF IInv, TypeOK, CallersWait, Wait
  <2>2. \A f \in Entry : Live(f) => stopping'[f] = stopping[f]
    BY <1>1, LaunchInvariant
  <2>3. \A f \in Entry : signalled'[f] => stopping'[f] \/ closed'
    BY <1>1, LaunchInvariant DEF IInv, SignalsHaveCause
  <2>4. QED
    BY <1>1, <2>1, <2>2, <2>3 DEF IInv, SignalsHaveCause
<1>6. WakeRemembered'
  BY <1>1, LaunchFrame DEF IInv
<1>7. QED
  BY <1>2, <1>3, <1>4, <1>5, <1>6 DEF IInv

\* `run` on an active key.
LEMMA RunJoinInvariant ==
  ASSUME IInv, NEW c \in Caller, NEW k \in Key, RunJoin(c, k)
  PROVE  IInv'
<1> DEFINE where == IF stopping[active[k]] THEN "retrying" ELSE "joined"
<1>1. /\ active[k] \in Entry
      /\ Wait(c, k, active[k], where)
      /\ UNCHANGED <<entries, closed, history>>
      /\ where \in {"retrying", "joined"}
  BY DEF RunJoin, IInv, TypeOK
<1> HIDE DEF where
<1>2. TypeOK'
  BY <1>1 DEF IInv, TypeOK, Wait, Exits, entries, history
<1>3. MapOwnsFibers'
  BY <1>1 DEF IInv, MapOwnsFibers, Live, entries
<1>4. CallersWait'
  BY <1>1, NoEntryAssumption DEF IInv, TypeOK, MapOwnsFibers, CallersWait, Wait, Live, entries
<1>5. SignalsHaveCause'
  <2>1. \A d \in Caller : pc'[d] \in {"signalling", "stopping"} => d # c /\ pc'[d] = pc[d] /\ at'[d] = at[d]
    BY <1>1 DEF IInv, TypeOK, Wait
  <2>2. QED
    BY <1>1, <2>1 DEF IInv, SignalsHaveCause, entries, history
<1>6. WakeRemembered'
  BY <1>1 DEF IInv, WakeRemembered, entries, history
<1>7. QED
  BY <1>2, <1>3, <1>4, <1>5, <1>6 DEF IInv

\* `wake`.
LEMMA WakeInvariant ==
  ASSUME IInv, NEW k \in Key, Wake(k)
  PROVE  IInv'
<1>1. CASE WakeActive(k)
  <2>1. TypeOK'
    BY <1>1 DEF IInv, TypeOK, Wake, WakeActive, callers
  <2>2. MapOwnsFibers' /\ CallersWait'
    BY <1>1 DEF IInv, MapOwnsFibers, CallersWait, Live, Wake, WakeActive, callers
  <2>3. SignalsHaveCause'
    BY <1>1 DEF IInv, TypeOK, SignalsHaveCause, Wake, WakeActive, callers
  <2>4. WakeRemembered'
    BY <1>1 DEF IInv, TypeOK, WakeRemembered, Wake, WakeActive
  <2>5. QED
    BY <2>1, <2>2, <2>3, <2>4 DEF IInv
<1>2. ASSUME NEW e \in Entry, Launch(k, e, FALSE)
      PROVE  IInv'
  <2>1. TypeOK'
    BY <1>2 DEF IInv, TypeOK, Wake, Launch, Start, callers
  <2>2. MapOwnsFibers'
    BY <1>2, LaunchInvariant
  <2>3. /\ UNCHANGED <<pc, at, wants, got, closed>>
        /\ owed' = [owed EXCEPT ![k] = ~closed]
    BY DEF Wake, callers
  <2>4. CallersWait'
    <3>1. \A f \in Entry : Live(f) => Live(f)' /\ keyOf'[f] = keyOf[f]
      BY <1>2, LaunchInvariant
    <3>2. QED
      BY <2>3, <3>1 DEF IInv, TypeOK, CallersWait
  <2>5. SignalsHaveCause'
    <3>1. \A d \in Caller : pc[d] \in {"signalling", "stopping"} => at[d] \in Entry /\ Live(at[d])
      BY NoEntryAssumption DEF IInv, TypeOK, CallersWait
    <3>2. \A f \in Entry : Live(f) => stopping'[f] = stopping[f]
      BY <1>2, LaunchInvariant
    <3>3. \A f \in Entry : signalled'[f] => stopping'[f] \/ closed'
      BY <1>2, <2>3, LaunchInvariant DEF IInv, SignalsHaveCause
    <3>4. \A j \in Key : owed'[j] => ~closed'
      BY <2>3 DEF IInv, TypeOK, SignalsHaveCause
    <3>5. QED
      BY <2>3, <3>1, <3>2, <3>3, <3>4 DEF IInv, SignalsHaveCause
  <2>6. WakeRemembered'
    BY <1>2, <2>3, LaunchFrame DEF IInv, TypeOK
  <2>7. QED
    BY <2>1, <2>2, <2>4, <2>5, <2>6 DEF IInv
<1>3. QED
  BY <1>1, <1>2 DEF Wake

\* The two halves of `interrupt`.
LEMMA InterruptInvariant ==
  ASSUME IInv, NEW c \in Caller
  PROVE  /\ InterruptSignal(c) => IInv'
         /\ \A k \in Key : InterruptMark(c, k) => IInv'
<1>1. ASSUME InterruptSignal(c) PROVE IInv'
  <2>1. TypeOK'
    BY <1>1 DEF IInv, TypeOK, InterruptSignal, history
  <2>2. MapOwnsFibers' /\ CallersWait'
    BY <1>1 DEF IInv, TypeOK, MapOwnsFibers, CallersWait, Live, InterruptSignal, history
  <2>3. SignalsHaveCause'
    BY <1>1 DEF IInv, TypeOK, SignalsHaveCause, InterruptSignal, history
  <2>4. WakeRemembered'
    BY <1>1 DEF IInv, WakeRemembered, InterruptSignal, history
  <2>5. QED
    BY <2>1, <2>2, <2>3, <2>4 DEF IInv
<1>2. ASSUME NEW k \in Key, InterruptMark(c, k) PROVE IInv'
  <2>1. TypeOK'
    BY <1>2 DEF IInv, TypeOK, InterruptMark, Wait
  <2>2. MapOwnsFibers' /\ CallersWait'
    BY <1>2, NoEntryAssumption DEF IInv, TypeOK, MapOwnsFibers, CallersWait, Live, InterruptMark, Wait
  <2>3. SignalsHaveCause'
    <3>1. /\ \A e \in Entry : stopping[e] => stopping'[e]
          /\ stopping'[active[k]]
      BY <1>2 DEF IInv, TypeOK, InterruptMark
    <3>2. \A d \in Caller : IF d = c THEN at'[d] = active[k]
                                        ELSE pc'[d] = pc[d] /\ at'[d] = at[d]
      BY <1>2 DEF IInv, TypeOK, InterruptMark, Wait
    <3>3. \A d \in Caller : pc[d] \in {"signalling", "stopping"} => at[d] \in Entry
      BY NoEntryAssumption DEF IInv, TypeOK, CallersWait
    <3>4. \A j \in Key : owed'[j] => owed[j]
      BY <1>2 DEF IInv, TypeOK, InterruptMark
    <3>5. QED
      BY <1>2, <3>1, <3>2, <3>3, <3>4 DEF IInv, SignalsHaveCause, InterruptMark
  <2>4. WakeRemembered'
    BY <1>2 DEF IInv, TypeOK, MapOwnsFibers, WakeRemembered, InterruptMark
  <2>5. QED
    BY <2>1, <2>2, <2>3, <2>4 DEF IInv
<1>3. QED
  BY <1>1, <1>2

\* The drain starts: what was owed to the key is served.
LEMMA DrainStartInvariant ==
  ASSUME IInv, NEW e \in Entry, DrainStart(e)
  PROVE  IInv'
<1>1. /\ owner' = [owner EXCEPT ![e] = "draining"]
      /\ owed' = [owed EXCEPT ![keyOf[e]] = FALSE]
      /\ UNCHANGED <<active, keyOf, forced, pendingWake, stopping, signalled>>
      /\ UNCHANGED <<pc, at, wants, got, closed, quiet>>
      /\ keyOf[e] \in Key
      /\ active[keyOf[e]] = e
      /\ owner[e] = "starting"
  BY DEF DrainStart, callers, IInv, MapOwnsFibers, Live
<1>2. TypeOK'
  BY <1>1 DEF IInv, TypeOK
<1>3. MapOwnsFibers' /\ CallersWait'
  BY <1>1 DEF IInv, TypeOK, MapOwnsFibers, CallersWait, Live
<1>4. SignalsHaveCause'
  BY <1>1 DEF IInv, TypeOK, SignalsHaveCause
<1>5. WakeRemembered'
  <2> SUFFICES ASSUME NEW j \in Key, owed'[j]
               PROVE  /\ active[j] # NoEntry
                      /\ \/ pendingWake[active[j]]
                         \/ owner'[active[j]] = "starting" /\ ~stopping[active[j]]
    BY <1>1 DEF WakeRemembered
  <2>1. owed[j] /\ j # keyOf[e]
    BY <1>1 DEF IInv, TypeOK
  <2>2. /\ active[j] # NoEntry
        /\ pendingWake[active[j]] \/ (owner[active[j]] = "starting" /\ ~stopping[active[j]])
    BY <2>1 DEF IInv, WakeRemembered
  <2>3. owner'[active[j]] = owner[active[j]]
    BY <1>1, <2>1, <2>2 DEF IInv, TypeOK, MapOwnsFibers
  <2>4. QED
    BY <2>2, <2>3
<1>6. QED
  BY <1>2, <1>3, <1>4, <1>5 DEF IInv

\* The entry drains once more; nobody is released.
LEMMA RestartInvariant ==
  ASSUME IInv, NEW e \in Entry, Live(e), Restart(e), ~stopping[e],
         UNCHANGED <<closed, history>>
  PROVE  IInv'
<1>1. /\ owner' = [owner EXCEPT ![e] = "starting"]
      /\ keyOf' = keyOf
      /\ forced' = [forced EXCEPT ![e] = FALSE]
      /\ pendingWake' = [pendingWake EXCEPT ![e] = FALSE]
      /\ stopping' = stopping
      /\ signalled' = [signalled EXCEPT ![e] = closed]
      /\ UNCHANGED <<active, pc, at, wants, got, closed, owed, quiet>>
      /\ keyOf[e] \in Key
      /\ active[keyOf[e]] = e
  BY DEF Restart, Start, callers, history, IInv, TypeOK, MapOwnsFibers
<1>2. TypeOK'
  BY <1>1 DEF IInv, TypeOK
<1>3. MapOwnsFibers' /\ CallersWait'
  BY <1>1 DEF IInv, TypeOK, MapOwnsFibers, CallersWait, Live
<1>4. SignalsHaveCause'
  BY <1>1 DEF IInv, TypeOK, SignalsHaveCause
<1>5. WakeRemembered'
  <2> SUFFICES ASSUME NEW j \in Key, owed[j]
               PROVE  /\ active[j] # NoEntry
                      /\ \/ pendingWake'[active[j]]
                         \/ owner'[active[j]] = "starting" /\ ~stopping[active[j]]
    BY <1>1 DEF WakeRemembered
  <2>1. /\ active[j] \in Entry
        /\ pendingWake[active[j]] \/ (owner[active[j]] = "starting" /\ ~stopping[active[j]])
    BY DEF IInv, TypeOK, WakeRemembered
  <2>2. CASE active[j] = e
    BY <1>1, <2>1, <2>2, NoEntryAssumption DEF IInv, TypeOK
  <2>3. CASE active[j] # e
    <3>1. pendingWake'[active[j]] = pendingWake[active[j]] /\ owner'[active[j]] = owner[active[j]]
      BY <1>1, <2>1, <2>3 DEF IInv, TypeOK
    <3>2. QED
      BY <2>1, <3>1, NoEntryAssumption
  <2>4. QED
    BY <2>2, <2>3
<1>6. QED
  BY <1>2, <1>3, <1>4, <1>5 DEF IInv

\* Releasing the callers of an entry keeps their part of the invariant when the
\* other entries keep their fibers.
LEMMA ReleaseInvariant ==
  ASSUME IInv, NEW e \in Entry, NEW exit \in Exits, Release(e, exit), Live(e),
         \A f \in Entry : f # e /\ Live(f) =>
           Live(f)' /\ keyOf'[f] = keyOf[f] /\ stopping'[f] = stopping[f]
  PROVE  /\ CallersWait'
         /\ \A c \in Caller : pc'[c] \in {"signalling", "stopping"} => stopping'[at'[c]]
         /\ pc' \in [Caller -> {"idle", "joined", "retrying", "signalling", "stopping", "released", "retry"}]
         /\ at' \in [Caller -> Entry \cup {NoEntry}]
         /\ got' \in [Caller -> Exits \cup {"none"}]
<1>1. ASSUME NEW c \in Caller
      PROVE  /\ wants'[c] = wants[c]
             /\ IF at[c] = e THEN at'[c] = NoEntry /\ pc'[c] \in {"retry", "released"}
                             ELSE at'[c] = at[c] /\ pc'[c] = pc[c]
             /\ pc'[c] = "retry" => pc[c] \in {"retrying", "retry"}
  BY DEF Release, IInv, TypeOK
<1>2. ASSUME NEW c \in Caller
      PROVE  /\ at[c] # NoEntry <=> pc[c] \in {"joined", "retrying", "signalling", "stopping"}
             /\ at[c] # NoEntry => at[c] \in Entry /\ Live(at[c]) /\ keyOf[at[c]] = wants[c]
             /\ at[c] # NoEntry => wants[c] \in Key
             /\ pc[c] = "retry" => wants[c] \in Key
             /\ pc[c] \in {"signalling", "stopping"} => stopping[at[c]]
  BY DEF IInv, TypeOK, CallersWait, MapOwnsFibers, SignalsHaveCause
<1>3. CallersWait'
  BY <1>1, <1>2, NoEntryAssumption DEF CallersWait
<1>4. ASSUME NEW c \in Caller, pc'[c] \in {"signalling", "stopping"}
      PROVE  stopping'[at'[c]]
  <2>1. at[c] # e /\ at'[c] = at[c] /\ pc'[c] = pc[c]
    BY <1>1, <1>4
  <2>2. at[c] \in Entry /\ Live(at[c]) /\ stopping[at[c]]
    BY <1>2, <1>4, <2>1
  <2>3. stopping'[at[c]] = stopping[at[c]]
    BY <2>1, <2>2
  <2>4. QED
    BY <2>1, <2>2, <2>3
<1>5. /\ pc' \in [Caller -> {"idle", "joined", "retrying", "signalling", "stopping", "released", "retry"}]
      /\ at' \in [Caller -> Entry \cup {NoEntry}]
      /\ got' \in [Caller -> Exits \cup {"none"}]
  BY DEF Release, IInv, TypeOK
<1>6. QED
  BY <1>3, <1>4, <1>5

\* The entry leaves the map and nothing follows it.
LEMMA RetireInvariant ==
  ASSUME IInv, NEW e \in Entry, NEW exit \in Exits, Live(e), Retire(e), Release(e, exit),
         ~owed[keyOf[e]], UNCHANGED <<closed, history>>
  PROVE  IInv'
<1>1. /\ active' = [active EXCEPT ![keyOf[e]] = NoEntry]
      /\ owner' = [owner EXCEPT ![e] = "none"]
      /\ keyOf' = [keyOf EXCEPT ![e] = NoKey]
      /\ forced' = [forced EXCEPT ![e] = FALSE]
      /\ pendingWake' = [pendingWake EXCEPT ![e] = FALSE]
      /\ stopping' = [stopping EXCEPT ![e] = FALSE]
      /\ signalled' = [signalled EXCEPT ![e] = FALSE]
      /\ UNCHANGED <<wants, closed, owed, quiet>>
      /\ keyOf[e] \in Key
      /\ active[keyOf[e]] = e
  BY DEF Retire, Release, history, IInv, MapOwnsFibers
<1>2. \A f \in Entry : f # e /\ Live(f) =>
        Live(f)' /\ keyOf'[f] = keyOf[f] /\ stopping'[f] = stopping[f]
  BY <1>1 DEF IInv, TypeOK, Live
<1>3. TypeOK'
  BY <1>1, <1>2, ReleaseInvariant DEF IInv, TypeOK
<1>4. MapOwnsFibers'
  BY <1>1 DEF IInv, TypeOK, MapOwnsFibers, Live
<1>5. CallersWait'
  BY <1>2, ReleaseInvariant
<1>6. SignalsHaveCause'
  <2>1. \A f \in Entry : signalled'[f] => stopping'[f] \/ closed'
    BY <1>1 DEF IInv, TypeOK, SignalsHaveCause
  <2>2. \A c \in Caller : pc'[c] \in {"signalling", "stopping"} => stopping'[at'[c]]
    BY <1>2, ReleaseInvariant
  <2>3. \A k \in Key : owed'[k] => ~closed'
    BY <1>1 DEF IInv, SignalsHaveCause
  <2>4. QED
    BY <2>1, <2>2, <2>3 DEF SignalsHaveCause
<1>7. WakeRemembered'
  <2> SUFFICES ASSUME NEW j \in Key, owed[j]
               PROVE  /\ active'[j] # NoEntry
                      /\ \/ pendingWake'[active'[j]]
                         \/ owner'[active'[j]] = "starting" /\ ~stopping'[active'[j]]
    BY <1>1 DEF WakeRemembered
  <2>1. /\ j # keyOf[e]
        /\ active[j] # NoEntry
        /\ active[j] \in Entry
        /\ pendingWake[active[j]] \/ (owner[active[j]] = "starting" /\ ~stopping[active[j]])
    BY DEF IInv, TypeOK, WakeRemembered
  <2>2. /\ active[j] # e
        /\ active'[j] = active[j]
    BY <1>1, <2>1 DEF IInv, TypeOK, MapOwnsFibers
  <2>3. /\ pendingWake'[active[j]] = pendingWake[active[j]]
        /\ owner'[active[j]] = owner[active[j]]
        /\ stopping'[active[j]] = stopping[active[j]]
    BY <1>1, <2>1, <2>2 DEF IInv, TypeOK
  <2>4. QED
    BY <2>1, <2>2, <2>3
<1>8. QED
  BY <1>3, <1>4, <1>5, <1>6, <1>7 DEF IInv

\* The entry is replaced by a successor, which holds whatever it still owed.
LEMMA SucceedInvariant ==
  ASSUME IInv, NEW e \in Entry, NEW n \in Entry, NEW exit \in Exits, Live(e),
         Succeed(e, n), Release(e, exit), UNCHANGED <<closed, history>>
  PROVE  IInv'
<1>1. /\ active' = [active EXCEPT ![keyOf[e]] = n]
      /\ owner' = [owner EXCEPT ![e] = "none", ![n] = "starting"]
      /\ keyOf' = [keyOf EXCEPT ![e] = NoKey, ![n] = keyOf[e]]
      /\ forced' = [forced EXCEPT ![e] = FALSE, ![n] = FALSE]
      /\ pendingWake' = [pendingWake EXCEPT ![e] = FALSE, ![n] = FALSE]
      /\ stopping' = [stopping EXCEPT ![e] = FALSE, ![n] = FALSE]
      /\ signalled' = [signalled EXCEPT ![e] = FALSE, ![n] = closed]
      /\ UNCHANGED <<wants, closed, owed, quiet>>
      /\ keyOf[e] \in Key
      /\ active[keyOf[e]] = e
      /\ n # e
      /\ ~Live(n)
  BY DEF Succeed, Release, Free, Live, history, IInv, MapOwnsFibers
<1>2. \A f \in Entry : f # e /\ Live(f) =>
        Live(f)' /\ keyOf'[f] = keyOf[f] /\ stopping'[f] = stopping[f]
  BY <1>1 DEF IInv, TypeOK, Live
<1>3. TypeOK'
  BY <1>1, <1>2, ReleaseInvariant DEF IInv, TypeOK
<1>4. MapOwnsFibers'
  BY <1>1, NoEntryAssumption DEF IInv, TypeOK, MapOwnsFibers, Live
<1>5. CallersWait'
  BY <1>2, ReleaseInvariant
<1>6. SignalsHaveCause'
  <2>1. \A f \in Entry : signalled'[f] => stopping'[f] \/ closed'
    BY <1>1 DEF IInv, TypeOK, SignalsHaveCause
  <2>2. \A c \in Caller : pc'[c] \in {"signalling", "stopping"} => stopping'[at'[c]]
    BY <1>2, ReleaseInvariant
  <2>3. \A k \in Key : owed'[k] => ~closed'
    BY <1>1 DEF IInv, SignalsHaveCause
  <2>4. QED
    BY <2>1, <2>2, <2>3 DEF SignalsHaveCause
<1>7. WakeRemembered'
  <2> SUFFICES ASSUME NEW j \in Key, owed[j]
               PROVE  /\ active'[j] # NoEntry
                      /\ \/ pendingWake'[active'[j]]
                         \/ owner'[active'[j]] = "starting" /\ ~stopping'[active'[j]]
    BY <1>1 DEF WakeRemembered
  <2>1. CASE j = keyOf[e]
    <3>1. active'[j] = n /\ owner'[n] = "starting" /\ ~stopping'[n]
      BY <1>1, <2>1 DEF IInv, TypeOK
    <3>2. QED
      BY <3>1, NoEntryAssumption
  <2>2. CASE j # keyOf[e]
    <3>1. /\ active[j] # NoEntry
          /\ active[j] \in Entry
          /\ Live(active[j])
          /\ pendingWake[active[j]] \/ (owner[active[j]] = "starting" /\ ~stopping[active[j]])
      BY DEF IInv, TypeOK, MapOwnsFibers, WakeRemembered
    <3>2. /\ active[j] # e
          /\ active[j] # n
          /\ active'[j] = active[j]
      BY <1>1, <2>2, <3>1 DEF IInv, TypeOK, MapOwnsFibers
    <3>3. /\ pendingWake'[active[j]] = pendingWake[active[j]]
          /\ owner'[active[j]] = owner[active[j]]
          /\ stopping'[active[j]] = stopping[active[j]]
      BY <1>1, <3>1, <3>2 DEF IInv, TypeOK
    <3>4. QED
      BY <3>1, <3>2, <3>3
  <2>3. QED
    BY <2>1, <2>2
<1>8. QED
  BY <1>3, <1>4, <1>5, <1>6, <1>7 DEF IInv

\* The end of an owner fiber, whichever branch `settle` takes.
LEMMA SettleInvariant ==
  ASSUME IInv, NEW e \in Entry, NEW exit \in Exits, Live(e), Settle(e, exit),
         owner[e] = "draining" \/ signalled[e]
  PROVE  IInv'
<1>1. CASE CatchUp(e, exit) /\ Restart(e)
  <2>1. ~stopping[e]
    BY <1>1 DEF CatchUp
  <2>2. Restart(e) /\ UNCHANGED <<closed, history>>
    BY <1>1 DEF Settle
  <2>3. QED
    BY <2>1, <2>2, RestartInvariant
<1>2. CASE ~CatchUp(e, exit) /\ Release(e, exit) /\ pendingWake[e] /\ \E n \in Entry : Succeed(e, n)
  <2>1. UNCHANGED <<closed, history>>
    BY DEF Settle
  <2>2. QED
    BY <1>2, <2>1, SucceedInvariant
<1>3. CASE ~CatchUp(e, exit) /\ Release(e, exit) /\ ~pendingWake[e] /\ Retire(e)
  <2>1. UNCHANGED <<closed, history>>
    BY DEF Settle
  <2>2. ~owed[keyOf[e]]
    <3> SUFFICES ASSUME owed[keyOf[e]] PROVE FALSE
      OBVIOUS
    <3>1. keyOf[e] \in Key /\ active[keyOf[e]] = e
      BY DEF IInv, MapOwnsFibers
    <3>2. owner[e] = "starting" /\ ~stopping[e]
      BY <1>3, <3>1 DEF IInv, WakeRemembered
    <3>3. signalled[e] /\ ~closed
      BY <3>1, <3>2 DEF IInv, SignalsHaveCause
    <3>4. QED
      BY <3>2, <3>3 DEF IInv, SignalsHaveCause
  <2>3. QED
    BY <1>3, <2>1, <2>2, RetireInvariant
<1>4. QED
  BY <1>1, <1>2, <1>3 DEF Settle

\* What a caller does on its own disturbs nothing but itself.
LEMMA CallerInvariant ==
  ASSUME IInv, NEW c \in Caller, Return(c) \/ Abandon(c)
  PROVE  IInv'
<1>1. /\ pc' = [pc EXCEPT ![c] = "idle"]
      /\ wants' = [wants EXCEPT ![c] = NoKey]
      /\ got' = [got EXCEPT ![c] = "none"]
      /\ at' = [at EXCEPT ![c] = NoEntry]
      /\ UNCHANGED <<entries, closed, history>>
  <2>1. CASE Return(c)
    <3>1. at[c] = NoEntry
      BY <2>1 DEF IInv, TypeOK, CallersWait, Return
    <3>2. [at EXCEPT ![c] = NoEntry] = at
      BY <3>1 DEF IInv, TypeOK
    <3>3. QED
      BY <2>1, <3>2 DEF Return
  <2>2. CASE Abandon(c)
    BY <2>2 DEF Abandon
  <2>3. QED
    BY <2>1, <2>2
<1>2. TypeOK'
  BY <1>1 DEF IInv, TypeOK, entries, history
<1>3. MapOwnsFibers' /\ WakeRemembered'
  BY <1>1 DEF IInv, MapOwnsFibers, WakeRemembered, Live, entries, history
<1>4. CallersWait'
  BY <1>1 DEF IInv, TypeOK, CallersWait, Live, entries
<1>5. SignalsHaveCause'
  BY <1>1 DEF IInv, TypeOK, SignalsHaveCause, entries, history
<1>6. QED
  BY <1>2, <1>3, <1>4, <1>5 DEF IInv

\* Closing interrupts every fiber and forgets what was owed.
LEMMA CloseInvariant == ASSUME IInv, Close PROVE IInv'
<1>1. TypeOK'
  BY DEF IInv, TypeOK, Close, Live, callers
<1>2. MapOwnsFibers' /\ CallersWait'
  BY DEF IInv, MapOwnsFibers, CallersWait, Live, Close, callers
<1>3. SignalsHaveCause'
  BY DEF IInv, SignalsHaveCause, Close, callers
<1>4. WakeRemembered'
  BY DEF WakeRemembered, Close
<1>5. QED
  BY <1>1, <1>2, <1>3, <1>4 DEF IInv

\* Every step of the coordinator preserves the invariant.
LEMMA NextInvariant == IInv /\ [Next]_vars => IInv'
<1> SUFFICES ASSUME IInv, [Next]_vars PROVE IInv'
  OBVIOUS
<1>1. ASSUME NEW k \in Key, Wake(k) PROVE IInv'
  BY <1>1, WakeInvariant
<1>2. ASSUME NEW c \in Caller, NEW k \in Key, Run(c, k) PROVE IInv'
  BY <1>2, RunLaunchInvariant, RunJoinInvariant DEF Run
<1>3. ASSUME NEW c \in Caller, NEW k \in Key, InterruptMark(c, k) PROVE IInv'
  BY <1>3, InterruptInvariant
<1>4. ASSUME NEW c \in Caller, RunAgain(c) PROVE IInv'
  <2>1. pc[c] = "retry" /\ wants[c] \in Key
    BY <1>4 DEF RunAgain, IInv, CallersWait
  <2>2. QED
    BY <1>4, <2>1, RunLaunchInvariant, RunJoinInvariant DEF RunAgain
<1>5. ASSUME NEW c \in Caller, InterruptSignal(c) PROVE IInv'
  BY <1>5, InterruptInvariant
<1>6. ASSUME NEW c \in Caller, Return(c) \/ Abandon(c) PROVE IInv'
  BY <1>6, CallerInvariant
<1>7. ASSUME NEW e \in Entry, DrainStart(e) PROVE IInv'
  BY <1>7, DrainStartInvariant
<1>8. ASSUME NEW e \in Entry, NEW exit \in Exits, DrainEnd(e, exit) PROVE IInv'
  BY <1>8, SettleInvariant DEF DrainEnd, Live
<1>9. ASSUME NEW e \in Entry, NEW exit \in Exits, DrainStopped(e, exit) PROVE IInv'
  BY <1>9, SettleInvariant DEF DrainStopped
<1>10. CASE Close
  BY <1>10, CloseInvariant
<1>11. CASE UNCHANGED vars
  BY <1>11 DEF IInv, TypeOK, MapOwnsFibers, CallersWait, SignalsHaveCause, WakeRemembered,
               Live, vars, entries, callers, history
<1>12. QED
  BY <1>1, <1>2, <1>3, <1>4, <1>5, <1>6, <1>7, <1>8, <1>9, <1>10, <1>11 DEF Next

\* The invariant holds in every reachable state, for all sets of sessions,
\* entries and callers.
THEOREM CoordinatorInvariant == Spec => []IInv
  BY InitInvariant, NextInvariant, PTL DEF Spec
-----------------------------------------------------------------------------
\* The coordinator's variables keep their types.
THEOREM TypeCorrect == Spec => []TypeOK
<1>1. IInv => TypeOK
  BY DEF IInv
<1>2. QED
  BY <1>1, CoordinatorInvariant, PTL

\* Executions of one session never overlap (`start`, `settle`).
THEOREM NoOverlap == Spec => []OneDrainPerKey
<1>1. IInv => OneDrainPerKey
  BY DEF IInv, MapOwnsFibers, OneDrainPerKey
<1>2. QED
  BY <1>1, CoordinatorInvariant, PTL

\* No caller of `run` or `interrupt` waits for an execution that is gone.
THEOREM NoneStranded == Spec => []NobodyStranded
<1>1. IInv => NobodyStranded
  BY NoEntryAssumption DEF IInv, TypeOK, CallersWait, NobodyStranded
<1>2. QED
  BY <1>1, CoordinatorInvariant, PTL

\* A wake is held by the coordinator until a drain starts for it.
THEOREM NoLostWake == Spec => []WakeRemembered
<1>1. IInv => WakeRemembered
  BY DEF IInv
<1>2. QED
  BY <1>1, CoordinatorInvariant, PTL
-----------------------------------------------------------------------------
\* A key that was stopped has no wake left, until somebody asks again.
QuietInv ==
  \A k \in Key : quiet[k] /\ active[k] # NoEntry => ~pendingWake[active[k]]

\* Launching ends the quiet of its key and leaves the other keys alone.
LEMMA LaunchQuiet ==
  ASSUME IInv, QuietInv, NEW k \in Key, NEW e \in Entry, NEW force \in BOOLEAN,
         Launch(k, e, force), quiet' = [quiet EXCEPT ![k] = FALSE]
  PROVE  /\ QuietInv'
         /\ \A f \in Entry : owner'[f] = "starting" /\ owner[f] # "starting" => ~quiet'[keyOf'[f]]
<1>1. TypeOK
  BY DEF IInv
<1>2. ~quiet'[k] /\ keyOf'[e] = k
  BY <1>1, LaunchInvariant DEF TypeOK
<1>3. ASSUME NEW j \in Key, quiet'[j], active'[j] # NoEntry
      PROVE  ~pendingWake'[active'[j]]
  <2>1. j # k /\ quiet[j]
    BY <1>1, <1>2, <1>3 DEF TypeOK
  <2>2. active'[j] = active[j] /\ active[j] # e
    BY <2>1, LaunchInvariant
  <2>3. active[j] \in Entry /\ ~pendingWake[active[j]]
    BY <1>1, <1>3, <2>1, <2>2 DEF TypeOK, QuietInv
  <2>4. QED
    BY <2>2, <2>3, LaunchInvariant
<1>4. \A f \in Entry : owner'[f] = "starting" /\ owner[f] # "starting" => f = e
  BY LaunchInvariant
<1>5. QED
  BY <1>2, <1>3, <1>4 DEF QuietInv

\* The end of an owner fiber starts another only for a wake, which a quiet key
\* does not have.
LEMMA SettleQuiet ==
  ASSUME IInv, QuietInv, NEW e \in Entry, NEW exit \in Exits, Live(e), Settle(e, exit)
  PROVE  /\ QuietInv'
         /\ \A f \in Entry : owner'[f] = "starting" /\ owner[f] # "starting" => ~quiet'[keyOf'[f]]
<1>1. /\ TypeOK
      /\ MapOwnsFibers
      /\ keyOf[e] \in Key
      /\ active[keyOf[e]] = e
      /\ quiet' = quiet
      /\ pendingWake[e] => ~quiet[keyOf[e]]
  BY NoEntryAssumption DEF IInv, MapOwnsFibers, QuietInv, Settle, history
<1>2. CASE CatchUp(e, exit) /\ Restart(e)
  <2>1. /\ owner' = [owner EXCEPT ![e] = "starting"]
        /\ keyOf' = keyOf
        /\ pendingWake' = [pendingWake EXCEPT ![e] = FALSE]
        /\ active' = active
        /\ pendingWake[e]
    BY <1>1, <1>2 DEF Restart, Start, CatchUp, TypeOK
  <2>2. QuietInv'
    BY <1>1, <2>1 DEF QuietInv, TypeOK
  <2>3. QED
    BY <1>1, <2>1, <2>2 DEF TypeOK
<1>3. CASE pendingWake[e] /\ \E n \in Entry : Succeed(e, n)
  <2> PICK n \in Entry : Succeed(e, n)
    BY <1>3
  <2>1. /\ owner' = [owner EXCEPT ![e] = "none", ![n] = "starting"]
        /\ keyOf' = [keyOf EXCEPT ![e] = NoKey, ![n] = keyOf[e]]
        /\ pendingWake' = [pendingWake EXCEPT ![e] = FALSE, ![n] = FALSE]
        /\ active' = [active EXCEPT ![keyOf[e]] = n]
    BY DEF Succeed
  <2>2. QuietInv'
    BY <1>1, <1>3, <2>1 DEF QuietInv, TypeOK
  <2>3. QED
    BY <1>1, <1>3, <2>1, <2>2 DEF TypeOK
<1>4. CASE Retire(e)
  <2>1. /\ owner' = [owner EXCEPT ![e] = "none"]
        /\ pendingWake' = [pendingWake EXCEPT ![e] = FALSE]
        /\ active' = [active EXCEPT ![keyOf[e]] = NoEntry]
    BY <1>4 DEF Retire
  <2>2. QuietInv'
    BY <1>1, <2>1 DEF QuietInv, TypeOK
  <2>3. QED
    BY <1>1, <2>1, <2>2 DEF TypeOK
<1>5. QED
  BY <1>2, <1>3, <1>4 DEF Settle

\* Every step keeps quiet keys without a wake, and starts no execution of one.
LEMMA NextQuiet ==
  ASSUME IInv, QuietInv, [Next]_vars
  PROVE  /\ QuietInv'
         /\ \A f \in Entry : owner'[f] = "starting" /\ owner[f] # "starting" => ~quiet'[keyOf'[f]]
<1> DEFINE Goal ==
      /\ QuietInv'
      /\ \A f \in Entry : owner'[f] = "starting" /\ owner[f] # "starting" => ~quiet'[keyOf'[f]]
<1>1. ASSUME NEW c \in Caller, NEW k \in Key, RunLaunch(c, k) \/ RunJoin(c, k) PROVE Goal
  <2>1. CASE RunLaunch(c, k)
    BY <2>1, LaunchQuiet DEF RunLaunch
  <2>2. CASE RunJoin(c, k)
    BY <2>2 DEF RunJoin, QuietInv, entries, history
  <2>3. QED
    BY <1>1, <2>1, <2>2
<1>2. ASSUME NEW k \in Key, Wake(k) PROVE Goal
  <2>1. CASE WakeActive(k)
    <3>1. /\ pendingWake' = [pendingWake EXCEPT ![active[k]] = TRUE]
          /\ quiet' = [quiet EXCEPT ![k] = FALSE]
          /\ UNCHANGED <<active, owner>>
          /\ active[k] # NoEntry
      BY <1>2, <2>1 DEF Wake, WakeActive
    <3>2. \A j \in Key : j # k /\ active[j] # NoEntry => active[j] # active[k]
      BY <3>1 DEF IInv, MapOwnsFibers
    <3>3. QuietInv'
      BY <3>1, <3>2 DEF QuietInv, IInv, TypeOK
    <3>4. QED
      BY <3>1, <3>3
  <2>2. CASE \E e \in Entry : Launch(k, e, FALSE)
    BY <1>2, <2>2, LaunchQuiet DEF Wake
  <2>3. QED
    BY <1>2, <2>1, <2>2 DEF Wake
<1>3. ASSUME NEW c \in Caller, NEW k \in Key, InterruptMark(c, k) PROVE Goal
  <2>1. /\ pendingWake' = [pendingWake EXCEPT ![active[k]] = FALSE]
        /\ quiet' = [quiet EXCEPT ![k] = TRUE]
        /\ UNCHANGED <<active, owner>>
    BY <1>3 DEF InterruptMark
  <2>2. QuietInv'
    BY <2>1 DEF QuietInv, IInv, TypeOK
  <2>3. QED
    BY <2>1, <2>2
<1>4. ASSUME NEW c \in Caller, RunAgain(c) PROVE Goal
  BY <1>1, <1>4 DEF RunAgain, IInv, CallersWait
<1>5. ASSUME NEW c \in Caller, InterruptSignal(c) \/ Return(c) \/ Abandon(c) PROVE Goal
  BY <1>5 DEF InterruptSignal, Return, Abandon, QuietInv, entries, history
<1>6. ASSUME NEW e \in Entry, DrainStart(e) PROVE Goal
  BY <1>6 DEF DrainStart, QuietInv, IInv, TypeOK
<1>7. ASSUME NEW e \in Entry, NEW exit \in Exits, DrainEnd(e, exit) \/ DrainStopped(e, exit)
      PROVE  Goal
  BY <1>7, SettleQuiet DEF DrainEnd, DrainStopped, Live
<1>8. CASE Close
  BY <1>8 DEF Close, QuietInv
<1>9. CASE UNCHANGED vars
  BY <1>9 DEF vars, QuietInv, entries, history
<1>10. QED
  BY <1>1, <1>2, <1>3, <1>4, <1>5, <1>6, <1>7, <1>8, <1>9 DEF Next, Run

\* After an interrupt nothing is scheduled until somebody asks again
\* (`interrupt`, `settle`): the executions it stops leave no wake behind.
THEOREM InterruptLasts == Spec => InterruptIsFinal
<1>1. Init => QuietInv
  BY DEF Init, QuietInv
<1>2. IInv /\ QuietInv /\ [Next]_vars => QuietInv'
  BY NextQuiet
<1>3. IInv /\ QuietInv /\ [Next]_vars =>
        [\A e \in Entry :
           owner'[e] = "starting" /\ owner[e] # "starting" => ~quiet'[keyOf'[e]]]_vars
  BY NextQuiet
<1>4. QED
  BY <1>1, <1>2, <1>3, CoordinatorInvariant, PTL DEF Spec, InterruptIsFinal

\* Only the end of a drain hands a success to those who joined it.
LEMMA SuccessFromDrain ==
  ASSUME IInv, [Next]_vars, NEW c \in Caller,
         pc[c] = "joined", pc'[c] = "released", got'[c] = "success"
  PROVE  \E e \in Entry : at[c] = e /\ owner[e] = "draining" /\ Settle(e, "success")
<1>1. TypeOK
  BY DEF IInv
<1>2. ASSUME NEW d \in Caller, NEW k \in Key,
             Run(d, k) \/ InterruptMark(d, k) \/ RunAgain(d) \/ InterruptSignal(d)
               \/ Return(d) \/ Abandon(d)
      PROVE  FALSE
  BY <1>1, <1>2 DEF Run, RunLaunch, RunJoin, RunAgain, InterruptMark, InterruptSignal,
                    Return, Abandon, Wait, TypeOK
<1>3. ASSUME NEW k \in Key, Wake(k) PROVE FALSE
  BY <1>3 DEF Wake, callers
<1>4. ASSUME NEW e \in Entry, DrainStart(e) PROVE FALSE
  BY <1>4 DEF DrainStart, callers
<1>5. ASSUME NEW e \in Entry, NEW exit \in Exits, Settle(e, exit)
      PROVE  at[c] = e /\ exit = "success"
  <2>1. CASE Restart(e)
    BY <2>1 DEF Restart, callers
  <2>2. CASE Release(e, exit)
    BY <2>2 DEF Release
  <2>3. QED
    BY <1>5, <2>1, <2>2 DEF Settle
<1>6. ASSUME NEW e \in Entry, NEW exit \in Exits, DrainEnd(e, exit) \/ DrainStopped(e, exit)
      PROVE  at[c] = e /\ owner[e] = "draining" /\ Settle(e, "success")
  <2>1. Settle(e, exit)
    BY <1>6 DEF DrainEnd, DrainStopped
  <2>2. exit = "success" /\ at[c] = e
    BY <1>5, <2>1
  <2>3. QED
    BY <1>6, <2>1, <2>2 DEF DrainEnd, DrainStopped
<1>7. ~Close /\ ~UNCHANGED vars
  BY DEF Close, vars, callers
<1>8. ASSUME NEW d \in Caller, RunAgain(d) \/ InterruptSignal(d) \/ Return(d) \/ Abandon(d)
      PROVE  FALSE
  BY <1>1, <1>8 DEF RunLaunch, RunJoin, RunAgain, InterruptSignal, Return, Abandon, Wait, TypeOK
<1>9. QED
  BY <1>2, <1>3, <1>4, <1>6, <1>7, <1>8 DEF Next

\* A success means that no wake is left without a drain, unless the execution
\* was being stopped (`settle`).
THEOREM SuccessCatchesUp == Spec => SuccessMeansCaughtUp
<1>1. ASSUME IInv, [Next]_vars, NEW c \in Caller,
             pc[c] = "joined", pc'[c] = "released", got'[c] = "success"
      PROVE  ~owed[wants[c]] \/ stopping[at[c]]
  <2>1. PICK e \in Entry : at[c] = e /\ owner[e] = "draining" /\ Settle(e, "success")
    BY <1>1, SuccessFromDrain
  <2>2. ~CatchUp(e, "success")
    BY <1>1, <2>1 DEF Settle, Restart, callers
  <2>3. SUFFICES ASSUME ~stopping[e] PROVE ~owed[wants[c]]
    BY <2>1
  <2>4. ~pendingWake[e]
    BY <2>2, <2>3 DEF CatchUp
  <2>5. keyOf[e] = wants[c] /\ keyOf[e] \in Key /\ active[keyOf[e]] = e
    BY <1>1, <2>1, NoEntryAssumption DEF IInv, CallersWait, MapOwnsFibers, Live
  <2>6. QED
    BY <1>1, <2>1, <2>4, <2>5 DEF IInv, WakeRemembered
<1>2. IInv /\ [Next]_vars =>
        [\A c \in Caller :
           pc[c] = "joined" /\ pc'[c] = "released" /\ got'[c] = "success" =>
             ~owed[wants[c]] \/ stopping[at[c]]]_vars
  BY <1>1
<1>3. QED
  BY <1>2, CoordinatorInvariant, PTL DEF Spec, SuccessMeansCaughtUp

-----------------------------------------------------------------------------
\* The abstract state of a key: what SF puts for phase and again.
Phase(k) ==
  IF active[k] = NoEntry THEN "idle"
  ELSE IF owner[active[k]] = "starting" THEN "scheduled" ELSE "running"

Again(k) == IF active[k] = NoEntry THEN FALSE ELSE pendingWake[active[k]]

\* An abstract step is what it does to one key.
AbstractStep(k) ==
  LET to(p, a) == Phase(k)' = p /\ Again(k)' = a IN
  \/ Phase(k) = "idle" /\ to("scheduled", Again(k))
  \/ Phase(k) # "idle" /\ to(Phase(k), TRUE)
  \/ Phase(k) = "scheduled" /\ to("running", Again(k))
  \/ Phase(k) # "idle" /\ to(IF Again(k) THEN "scheduled" ELSE "idle", FALSE)
  \/ Phase(k) # "idle" /\ to(Phase(k), FALSE)

SameAbove(k) == Phase(k)' = Phase(k) /\ Again(k)' = Again(k)

LEMMA AbstractNext ==
  ASSUME NEW k \in Key, AbstractStep(k), \A j \in Key : j # k => SameAbove(j)
  PROVE  SF!Next
<1> DEFINE phase == [j \in Key |-> Phase(j)]
           again == [j \in Key |-> Again(j)]
<1>1. phase' = [phase EXCEPT ![k] = Phase(k)'] /\ again' = [again EXCEPT ![k] = Again(k)']
  BY DEF SameAbove
<1>2. CASE Phase(k) = "idle" /\ Phase(k)' = "scheduled" /\ Again(k)' = Again(k)
  <2>1. phase[k] = "idle" /\ phase' = [phase EXCEPT ![k] = "scheduled"] /\ again' = again
    BY <1>1, <1>2 DEF SameAbove
  <2>2. SF!Launch(k)
    BY <2>1 DEF SF!Launch, Phase, Again
  <2> QED
    BY <2>2 DEF SF!Next
<1>3. CASE Phase(k) # "idle" /\ Phase(k)' = Phase(k) /\ Again(k)' = TRUE
  <2>1. phase[k] # "idle" /\ phase' = phase /\ again' = [again EXCEPT ![k] = TRUE]
    BY <1>1, <1>3 DEF SameAbove
  <2>2. SF!Coalesce(k)
    BY <2>1 DEF SF!Coalesce, Phase, Again
  <2> QED
    BY <2>2 DEF SF!Next
<1>4. CASE Phase(k) = "scheduled" /\ Phase(k)' = "running" /\ Again(k)' = Again(k)
  <2>1. phase[k] = "scheduled" /\ phase' = [phase EXCEPT ![k] = "running"] /\ again' = again
    BY <1>1, <1>4 DEF SameAbove
  <2>2. SF!Begin(k)
    BY <2>1 DEF SF!Begin, Phase, Again
  <2> QED
    BY <2>2 DEF SF!Next
<1>5. CASE /\ Phase(k) # "idle" /\ Again(k)' = FALSE
           /\ Phase(k)' = IF Again(k) THEN "scheduled" ELSE "idle"
  <2>1. /\ phase[k] # "idle" /\ again' = [again EXCEPT ![k] = FALSE]
        /\ phase' = [phase EXCEPT ![k] = IF again[k] THEN "scheduled" ELSE "idle"]
    BY <1>1, <1>5
  <2>2. SF!End(k)
    BY <2>1 DEF SF!End, Phase, Again
  <2> QED
    BY <2>2 DEF SF!Next
<1>6. CASE Phase(k) # "idle" /\ Phase(k)' = Phase(k) /\ Again(k)' = FALSE
  <2>1. phase[k] # "idle" /\ phase' = phase /\ again' = [again EXCEPT ![k] = FALSE]
    BY <1>1, <1>6 DEF SameAbove
  <2>2. SF!Cancel(k)
    BY <2>1 DEF SF!Cancel, Phase, Again
  <2> QED
    BY <2>2 DEF SF!Next
<1> QED
  BY <1>2, <1>3, <1>4, <1>5, <1>6 DEF AbstractStep

LEMMA AbstractStutter ==
  ASSUME \A k \in Key : SameAbove(k)
  PROVE  UNCHANGED SF!vars
BY DEF SameAbove, Phase, Again, SF!vars

\* A step that leaves a key its entry, and the entry its owner and its wake, says
\* nothing of the key.
LEMMA KeyKept ==
  ASSUME NEW k \in Key, active'[k] = active[k],
         active[k] # NoEntry => /\ owner'[active[k]] = owner[active[k]]
                                /\ pendingWake'[active[k]] = pendingWake[active[k]]
  PROVE  SameAbove(k)
BY DEF SameAbove, Phase, Again

\* `start` of an idle key, whoever asked for it.
LEMMA LaunchAbove ==
  ASSUME IInv, NEW k \in Key, NEW e \in Entry, NEW force \in BOOLEAN, Launch(k, e, force)
  PROVE  SF!Next
<1>1. Phase(k) = "idle" /\ Again(k) = FALSE
  BY DEF Launch, Phase, Again
<1>2. active'[k] = e /\ e # NoEntry /\ owner'[e] = "starting" /\ ~pendingWake'[e]
  BY LaunchInvariant, NoEntryAssumption
<1>3. pendingWake'[e] = FALSE
  BY DEF Launch, Start, IInv, TypeOK
<1>4. AbstractStep(k)
  BY <1>1, <1>2, <1>3 DEF AbstractStep, Phase, Again
<1>5. ASSUME NEW j \in Key, j # k PROVE SameAbove(j)
  <2>1. active'[j] = active[j] /\ active[j] # e
    BY <1>5, LaunchInvariant
  <2>2. active[j] # NoEntry => active[j] \in Entry
    BY DEF IInv, TypeOK
  <2>3. active[j] # NoEntry => /\ owner'[active[j]] = owner[active[j]]
                               /\ pendingWake'[active[j]] = pendingWake[active[j]]
    BY <2>1, <2>2, LaunchInvariant
  <2> QED
    BY <2>1, <2>3, KeyKept
<1> QED
  BY <1>4, <1>5, AbstractNext

LEMMA WakeAbove ==
  ASSUME IInv, NEW k \in Key, WakeActive(k)
  PROVE  SF!Next
<1> DEFINE e == active[k]
<1>1. /\ e \in Entry /\ e # NoEntry /\ active' = active /\ owner' = owner
      /\ pendingWake' = [pendingWake EXCEPT ![e] = TRUE]
      /\ \A j \in Key : active[j] = e => j = k
  BY DEF WakeActive, IInv, TypeOK, MapOwnsFibers
<1>2. Phase(k) # "idle" /\ Phase(k)' = Phase(k) /\ Again(k)' = TRUE
  BY <1>1 DEF Phase, Again, IInv, TypeOK
<1>3. \A j \in Key : j # k => SameAbove(j)
  BY <1>1, KeyKept DEF IInv, TypeOK
<1> QED
  BY <1>2, <1>3, AbstractNext DEF AbstractStep

LEMMA InterruptAbove ==
  ASSUME IInv, NEW c \in Caller, NEW k \in Key, InterruptMark(c, k)
  PROVE  SF!Next
<1> DEFINE e == active[k]
<1>1. /\ e \in Entry /\ e # NoEntry /\ active' = active /\ owner' = owner
      /\ pendingWake' = [pendingWake EXCEPT ![e] = FALSE]
      /\ \A j \in Key : active[j] = e => j = k
  BY DEF InterruptMark, IInv, TypeOK, MapOwnsFibers
<1>2. Phase(k) # "idle" /\ Phase(k)' = Phase(k) /\ Again(k)' = FALSE
  BY <1>1 DEF Phase, Again, IInv, TypeOK
<1>3. \A j \in Key : j # k => SameAbove(j)
  BY <1>1, KeyKept DEF IInv, TypeOK
<1> QED
  BY <1>2, <1>3, AbstractNext DEF AbstractStep

LEMMA DrainStartAbove ==
  ASSUME IInv, NEW e \in Entry, DrainStart(e)
  PROVE  SF!Next
<1>0. PICK k \in Key : k = keyOf[e]
  BY DEF DrainStart, IInv, MapOwnsFibers, Live
<1>1. /\ active[k] = e /\ e # NoEntry /\ active' = active /\ pendingWake' = pendingWake
      /\ owner[e] = "starting" /\ owner' = [owner EXCEPT ![e] = "draining"]
      /\ \A j \in Key : active[j] = e => j = k
  BY <1>0, NoEntryAssumption DEF DrainStart, IInv, TypeOK, MapOwnsFibers, Live
<1>2. Phase(k) = "scheduled" /\ Phase(k)' = "running" /\ Again(k)' = Again(k)
  BY <1>1 DEF Phase, Again, IInv, TypeOK
<1>3. \A j \in Key : j # k => SameAbove(j)
  BY <1>1, KeyKept DEF IInv, TypeOK
<1> QED
  BY <1>1, <1>2, <1>3, AbstractNext DEF AbstractStep

\* `settle`: the follow-up that is owed is the same entry's or its successor's.
LEMMA SettleAbove ==
  ASSUME IInv, NEW e \in Entry, NEW exit \in Exits, Live(e), Settle(e, exit)
  PROVE  SF!Next
<1>0. PICK k \in Key : k = keyOf[e]
  BY DEF IInv, MapOwnsFibers
<1>1. /\ active[k] = e /\ e # NoEntry
      /\ \A j \in Key : active[j] = e => j = k
      /\ \A j \in Key : active[j] # NoEntry => active[j] \in Entry /\ Live(active[j])
  BY <1>0, NoEntryAssumption DEF IInv, TypeOK, MapOwnsFibers
<1>2. Phase(k) # "idle" /\ Again(k) = pendingWake[e]
  BY <1>1 DEF Phase, Again
<1>3. CASE CatchUp(e, exit) /\ Restart(e)
  <2>1. /\ pendingWake[e] /\ active' = active /\ owner' = [owner EXCEPT ![e] = "starting"]
        /\ pendingWake' = [pendingWake EXCEPT ![e] = FALSE]
    BY <1>3 DEF CatchUp, Restart, Start
  <2>2. Phase(k)' = "scheduled" /\ Again(k)' = FALSE
    BY <1>1, <2>1 DEF Phase, Again, IInv, TypeOK
  <2>3. \A j \in Key : j # k => SameAbove(j)
    BY <1>1, <2>1, KeyKept DEF IInv, TypeOK
  <2> QED
    BY <1>1, <1>2, <2>1, <2>2, <2>3, AbstractNext DEF AbstractStep
<1>4. ASSUME pendingWake[e], NEW n \in Entry, Succeed(e, n) PROVE SF!Next
  <2>1. /\ n # e /\ owner[n] = "none" /\ active' = [active EXCEPT ![k] = n]
        /\ owner' = [owner EXCEPT ![e] = "none", ![n] = "starting"]
        /\ pendingWake' = [pendingWake EXCEPT ![e] = FALSE, ![n] = FALSE]
    BY <1>0, <1>4 DEF Succeed, Free, Live
  <2>2. Phase(k)' = "scheduled" /\ Again(k)' = FALSE
    BY <1>1, <2>1, NoEntryAssumption DEF Phase, Again, IInv, TypeOK
  <2>3. ASSUME NEW j \in Key, j # k PROVE SameAbove(j)
    <3>1. active'[j] = active[j] /\ active[j] # e /\ active[j] # n
      BY <1>1, <2>1, <2>3, NoEntryAssumption DEF IInv, TypeOK, Live
    <3> QED
      BY <1>1, <2>1, <3>1, KeyKept DEF IInv, TypeOK
  <2> QED
    BY <1>1, <1>2, <1>4, <2>2, <2>3, AbstractNext DEF AbstractStep
<1>5. CASE ~pendingWake[e] /\ Retire(e)
  <2>1. /\ active' = [active EXCEPT ![k] = NoEntry] /\ owner' = [owner EXCEPT ![e] = "none"]
        /\ pendingWake' = [pendingWake EXCEPT ![e] = FALSE]
    BY <1>0, <1>5 DEF Retire
  <2>2. Phase(k)' = "idle" /\ Again(k)' = FALSE
    BY <1>1, <2>1 DEF Phase, Again, IInv, TypeOK
  <2>3. ASSUME NEW j \in Key, j # k PROVE SameAbove(j)
    <3>1. active'[j] = active[j] /\ active[j] # e
      BY <1>1, <2>1, <2>3 DEF IInv, TypeOK
    <3> QED
      BY <1>1, <2>1, <3>1, KeyKept DEF IInv, TypeOK
  <2> QED
    BY <1>1, <1>2, <1>5, <2>2, <2>3, AbstractNext DEF AbstractStep
<1> QED
  BY <1>3, <1>4, <1>5 DEF Settle

LEMMA NextAbove == IInv /\ [Next]_vars => [SF!Next]_(SF!vars)
<1> SUFFICES ASSUME IInv, [Next]_vars PROVE [SF!Next]_(SF!vars)
  OBVIOUS
<1>1. ASSUME UNCHANGED <<active, owner, pendingWake>> PROVE UNCHANGED SF!vars
  BY <1>1, AbstractStutter DEF SameAbove, Phase, Again
<1>2. ASSUME NEW c \in Caller, NEW k \in Key, RunLaunch(c, k) PROVE SF!Next
  BY <1>2, LaunchAbove DEF RunLaunch
<1>3. ASSUME NEW c \in Caller, NEW k \in Key, RunJoin(c, k) PROVE UNCHANGED SF!vars
  BY <1>1, <1>3 DEF RunJoin, entries
<1>4. ASSUME NEW k \in Key, Wake(k) PROVE SF!Next
  BY <1>4, LaunchAbove, WakeAbove DEF Wake
<1>5. ASSUME NEW c \in Caller, RunAgain(c) PROVE [SF!Next]_(SF!vars)
  <2>1. wants[c] \in Key
    BY <1>5 DEF RunAgain, IInv, CallersWait
  <2> QED
    BY <1>2, <1>3, <1>5, <2>1 DEF RunAgain
<1>6. ASSUME NEW c \in Caller, InterruptSignal(c) \/ Return(c) \/ Abandon(c)
      PROVE  UNCHANGED SF!vars
  BY <1>1, <1>6 DEF InterruptSignal, Return, Abandon, entries
<1>7. ASSUME Close \/ UNCHANGED vars PROVE UNCHANGED SF!vars
  BY <1>1, <1>7 DEF Close, vars, entries
<1>8. ASSUME NEW e \in Entry, NEW exit \in Exits, DrainEnd(e, exit) \/ DrainStopped(e, exit)
      PROVE  SF!Next
  BY <1>8, SettleAbove DEF DrainEnd, DrainStopped, Live
<1> QED
  BY <1>2, <1>3, <1>4, <1>5, <1>6, <1>7, <1>8, InterruptAbove, DrainStartAbove DEF Next, Run

\* The coordinator implements the single-flight executor: whatever its entries,
\* fibers and callers do, each step is one of the executor or none of its
\* business (`run`, `wake`, `interrupt`, `start` and `settle`).
THEOREM Implements == Spec => SF!Spec
<1>1. Init => SF!Init
  BY DEF Init, SF!Init
<1>2. IInv /\ [Next]_vars => [SF!Next]_(SF!vars)
  BY NextAbove
<1> QED
  BY <1>1, <1>2, CoordinatorInvariant, PTL DEF Spec, SF!Spec
=============================================================================
