------------------------ MODULE BackgroundTasksProofs ------------------------
(***************************************************************************)
(* Theorems of BackgroundTasks, for any tree of sessions and any finite    *)
(* set of calls.  A job counts the runs it waits for, and a completed job  *)
(* reports its last words: runs are settled late and out of order, so that *)
(* both rest on which incarnation a run belongs to; one that is running is *)
(* the one in the map, and an incarnation begins with no runs.             *)
(*                                                                         *)
(* A drained session has no job running below it, and a parent is told     *)
(* once: the call that started a job answers for it.  A job is completed   *)
(* when everything below its child is idle: it was when the last run       *)
(* answered, and only a prompt below could have changed that, which would  *)
(* have been of a job that a busy session answers for.                     *)
(*                                                                         *)
(* Nothing that has been begun is stuck: whatever is waited for is a stop, *)
(* a run or a call at least as deep in the tree, or a run that came before,*)
(* and runs that stop their children at one depth wait for each other in no*)
(* circle, as a stop waits for runs that were running when it listed them. *)
(***************************************************************************)
EXTENDS BackgroundTasks, FiniteSetTheorems, WellFoundedInduction, TLAPS

Left(t) == {r \in RunsOf(t) : run[r].phase # "over"}

Said(t) == {r \in RunsOf(t) : run[r].phase = "over" /\ run[r].exit = "text"}

Counts(t) ==
  /\ active[t].status = "running" => active[t].pending = Cardinality(Left(t))
  /\ active[t].status = "completed" => Left(t) = {}

(* The output is the latest text of those that have been settled.          *)
Latest(t) ==
  active[t].status \in {"running", "completed"} =>
    IF Said(t) = {} THEN active[t].output = Nobody
    ELSE /\ active[t].output \in Said(t)
         /\ \A r \in Said(t) : run[r].sequence <= run[active[t].output].sequence

(* A run belongs to an incarnation, which is in the map while it runs.     *)
Belongs(r) ==
  run[r].phase # "none" =>
    /\ run[r].job \in Job
    /\ active[run[r].token].status # "none"
    /\ active[run[r].token].status = "running" => jobs[run[r].job] = run[r].token

ClosedEnded == \A t \in closed : active[t].status \in Ended

(* The registry by itself.                                                 *)
RegInv ==
  /\ JobTypeOK /\ ClosedEnded
  /\ \A c \in Call : Counts(c) /\ Latest(c) /\ Belongs(c)

(* A call that has not started anything has brought no run.                *)
Fresh(c) == run[c].phase = "none" /\ active[c].status = "none"

Early(c) == pc[c] \in {"new", "starting"}

(* A run that stops its child is stopping.                                 *)
Stopping(r) == stop[<<"run", r>>].at = "on" => run[r].phase = "stopping"

TaskTypes ==
  /\ pc \in [Call -> CallStates]
  /\ awaits \in [Call -> Call \cup {Nobody}]
  /\ dropped \subseteq Call
  /\ delivery \in [Call -> {"none", "waiting", "over"}]
  /\ delivers \in [Call -> Call \cup {Nobody}]
  /\ told \in [Call -> Call \cup {Nobody}]
  /\ turn \subseteq Session /\ paused \subseteq Session

Stops ==
  [at : {"none", "on", "over"}, scope : {"tree", "session"},
   tree : SUBSET Session, lists : SUBSET Session, turns : SUBSET Session,
   closing : SUBSET (Session \X Call), calls : SUBSET Call]

JobInv ==
  /\ RegInv /\ TaskTypes /\ stop \in [Stopper -> Stops]
  /\ \A c \in Call : (Early(c) => Fresh(c)) /\ Stopping(c)

-----------------------------------------------------------------------------
\* The registry.

LEMMA LeftFinite ==
  ASSUME NEW t
  PROVE  IsFiniteSet(Left(t)) /\ Cardinality(Left(t)) \in Nat
<1>1. Left(t) \subseteq Call
  BY DEF Left, RunsOf
<1> QED
  BY <1>1, FiniteCalls, FS_Subset, FS_CardinalityType

LEMMA InitReg == JobInit => RegInv
<1> SUFFICES ASSUME JobInit PROVE RegInv
  OBVIOUS
<1> USE DEF JobInit
<1>1. JobTypeOK
  BY DEF JobTypeOK, RunPhases, Ended, Exits
<1>2. \A t : Left(t) = {} /\ Said(t) = {}
  BY DEF Left, Said, RunsOf
<1> QED
  BY <1>1, <1>2, FS_EmptySet DEF RegInv, ClosedEnded, Counts, Latest, Belongs, Ended

StaysFresh(c) == Fresh(c) => Fresh(c)'

StaysStopping(c) == run[c].phase = "stopping" => run'[c].phase = "stopping"

LEMMA RegKept ==
  ASSUME RegInv, UNCHANGED jobVars
  PROVE  RegInv' /\ \A c \in Call : StaysFresh(c) /\ StaysStopping(c)
<1>1. \A t : Left(t)' = Left(t) /\ Said(t)' = Said(t)
  BY DEF Left, Said, RunsOf, jobVars
<1>2. JobTypeOK' /\ ClosedEnded'
  BY DEF RegInv, JobTypeOK, ClosedEnded, jobVars
<1>3. ASSUME NEW c \in Call PROVE Counts(c)' /\ Latest(c)' /\ Belongs(c)'
  BY <1>1 DEF RegInv, Counts, Latest, Belongs, jobVars
<1> QED
  BY <1>2, <1>3 DEF RegInv, StaysFresh, StaysStopping, Fresh, jobVars

(* An incarnation begins with the run that started it, as no run can have  *)
(* come to it before; the one it takes the place of has ended.             *)
LEMMA RegStart ==
  ASSUME RegInv, NEW c \in Call, NEW j \in Job, NEW b \in BOOLEAN, StartNew(c, j, b), Fresh(c)
  PROVE  RegInv' /\ \A d \in Call : StaysStopping(d) /\ (d # c => StaysFresh(d))
<1> USE DEF StartNew, RunOf
<1>1. JobTypeOK /\ ~Running(j) /\ run[c].phase = "none" /\ active[c].status = "none"
  BY DEF RegInv, Fresh
<1>2. JobTypeOK'
  BY <1>1 DEF JobTypeOK, RunPhases, Ended, Exits
<1>3. \A r \in Call : run[r].phase # "none" => run[r].token # c
  BY <1>1 DEF RegInv, Belongs
<1>4. RunsOf(c)' = {c} /\ run'[c].phase = "queued" /\ run'[c].exit = "none"
  BY <1>1, <1>3 DEF JobTypeOK, RunsOf
<1>5. Left(c)' = {c} /\ Said(c)' = {}
  BY <1>4 DEF Left, Said
<1>6. ASSUME NEW t \in Call, t # c
      PROVE  RunsOf(t)' = RunsOf(t) /\ c \notin RunsOf(t) /\ active'[t] = active[t]
  BY <1>1, <1>6 DEF JobTypeOK, RunsOf
<1>7. \A r \in Call : r # c => run'[r] = run[r]
  BY <1>1 DEF JobTypeOK
<1>8. ASSUME NEW t \in Call, t # c
      PROVE  Left(t)' = Left(t) /\ Said(t)' = Said(t) /\ c \notin Said(t)
  BY <1>6, <1>7, <1>8 DEF Left, Said, RunsOf
<1>9. ClosedEnded'
  BY <1>1, <1>6 DEF RegInv, ClosedEnded, Ended, JobTypeOK
<1>10. active'[c].status = "running" /\ active'[c].pending = 1 /\ active'[c].output = Nobody
  BY <1>1 DEF JobTypeOK
<1>11. ASSUME NEW t \in Call PROVE Counts(t)'
  <2>1. CASE t = c
    BY <2>1, <1>5, <1>10, FS_Singleton DEF Counts
  <2>2. CASE t # c
    BY <2>2, <1>6, <1>8 DEF RegInv, Counts
  <2> QED
    BY <2>1, <2>2
<1>12. ASSUME NEW t \in Call PROVE Latest(t)'
  <2>1. CASE t = c
    BY <2>1, <1>5, <1>10 DEF Latest
  <2>2. CASE t # c
    BY <2>2, <1>6, <1>7, <1>8 DEF RegInv, Latest, Said, RunsOf
  <2> QED
    BY <2>1, <2>2
<1>13. ASSUME NEW r \in Call PROVE Belongs(r)'
  <2>1. CASE r = c
    BY <2>1, <1>1, <1>10 DEF Belongs, JobTypeOK
  <2>2. CASE r # c /\ run[r].phase # "none"
    <3>1. run'[r] = run[r] /\ run[r].token # c /\ run[r].token \in Call /\ Belongs(r)
      BY <2>2, <1>1, <1>3, <1>7 DEF RegInv, JobTypeOK
    <3>2. active'[run[r].token] = active[run[r].token]
      BY <3>1, <1>6
    <3>3. ASSUME active[run[r].token].status = "running" PROVE run[r].job # j
      BY <3>1, <3>3, <2>2, <1>1, NobodyIsNoCall DEF Belongs, Running
    <3> QED
      BY <3>1, <3>2, <3>3, <2>2, <1>1 DEF Belongs, JobTypeOK
  <2>3. CASE r # c /\ run[r].phase = "none"
    BY <2>3, <1>7 DEF Belongs
  <2> QED
    BY <2>1, <2>2, <2>3
<1>14. ASSUME NEW d \in Call PROVE StaysStopping(d) /\ (d # c => StaysFresh(d))
  BY <1>1, <1>6, <1>7 DEF StaysStopping, StaysFresh, Fresh
<1> QED
  BY <1>2, <1>9, <1>11, <1>12, <1>13, <1>14 DEF RegInv

(* A run joins the incarnation that is in the map.                         *)
LEMMA RegExtend ==
  ASSUME RegInv, NEW c \in Call, NEW j \in Job, Extend(c, j), Fresh(c)
  PROVE  RegInv' /\ \A d \in Call : StaysStopping(d) /\ (d # c => StaysFresh(d))
<1> DEFINE t == jobs[j]
<1> USE DEF Extend, RunOf
<1>1. /\ JobTypeOK /\ t \in Call /\ active[t].status = "running" /\ t # c
      /\ run[c].phase = "none" /\ active[c].status = "none"
  BY NobodyIsNoCall DEF RegInv, Fresh, Running, JobTypeOK
<1>2. active[t].next \in Nat /\ active[t].pending \in Nat /\ active[t].tail \in Call
  BY <1>1 DEF JobTypeOK
<1>3. JobTypeOK'
  BY <1>1, <1>2 DEF JobTypeOK, RunPhases, Ended, Exits
<1>4. /\ \A r \in Call : r # c => run'[r] = run[r]
      /\ run'[c].phase = "queued" /\ run'[c].exit = "none" /\ run'[c].token = t /\ run'[c].job = j
  BY <1>1 DEF JobTypeOK
<1>5. /\ \A d \in Call : d # t => active'[d] = active[d]
      /\ active'[t].status = "running" /\ active'[t].output = active[t].output
      /\ active'[t].pending = active[t].pending + 1
  BY <1>1 DEF JobTypeOK
<1>6. ASSUME NEW d \in Call PROVE c \notin RunsOf(d) /\ Said(d)' = Said(d)
  BY <1>1, <1>4 DEF RunsOf, Said
<1>7. Left(t)' = Left(t) \cup {c} /\ c \notin Left(t)
  BY <1>1, <1>4, <1>6 DEF Left, RunsOf
<1>8. ASSUME NEW d \in Call, d # t PROVE Left(d)' = Left(d)
  BY <1>1, <1>4, <1>6, <1>8 DEF Left, RunsOf
<1>9. Cardinality(Left(t)') = Cardinality(Left(t)) + 1
  BY <1>7, LeftFinite, FS_AddElement
<1>10. ASSUME NEW d \in Call PROVE Counts(d)'
  <2>1. CASE d = t
    BY <2>1, <1>1, <1>5, <1>9 DEF RegInv, Counts
  <2>2. CASE d # t
    BY <2>2, <1>5, <1>8 DEF RegInv, Counts
  <2> QED
    BY <2>1, <2>2
<1>11. ASSUME NEW d \in Call PROVE Latest(d)'
  <2>1. active'[d].output = active[d].output /\ active'[d].status = active[d].status
    BY <1>1, <1>5
  <2>2. \A r \in Said(d) : run'[r] = run[r]
    BY <1>4, <1>6 DEF Said, RunsOf
  <2> QED
    BY <2>1, <2>2, <1>6 DEF RegInv, Latest
<1>12. \A d \in Call : active'[d].status = active[d].status
  BY <1>1, <1>5
<1>13. ASSUME NEW r \in Call PROVE Belongs(r)'
  <2>1. CASE r = c
    BY <2>1, <1>1, <1>4, <1>12 DEF Belongs
  <2>2. CASE r # c
    BY <2>2, <1>1, <1>4, <1>12 DEF RegInv, Belongs, JobTypeOK
  <2> QED
    BY <2>1, <2>2
<1>14. ClosedEnded'
  BY <1>1, <1>12 DEF RegInv, ClosedEnded, JobTypeOK
<1>15. ASSUME NEW d \in Call PROVE StaysStopping(d) /\ (d # c => StaysFresh(d))
  BY <1>1, <1>4, <1>12 DEF StaysStopping, StaysFresh, Fresh
<1> QED
  BY <1>3, <1>10, <1>11, <1>13, <1>14, <1>15 DEF RegInv

LEMMA RegPromote ==
  ASSUME RegInv, NEW j \in Job, Promote(j)
  PROVE  RegInv' /\ \A c \in Call : StaysFresh(c) /\ StaysStopping(c)
<1> USE DEF Promote
<1>1. JobTypeOK /\ jobs[j] \in Call
  BY NobodyIsNoCall DEF RegInv, Running, JobTypeOK
<1>2. JobTypeOK'
  BY <1>1 DEF JobTypeOK, RunPhases, Ended, Exits
<1>3. \A t \in Call : /\ active'[t].status = active[t].status
                      /\ active'[t].pending = active[t].pending
                      /\ active'[t].output = active[t].output
  BY <1>1 DEF JobTypeOK
<1>4. \A t : Left(t)' = Left(t) /\ Said(t)' = Said(t)
  BY DEF Left, Said, RunsOf
<1>5. ClosedEnded'
  BY <1>1, <1>3 DEF RegInv, ClosedEnded, JobTypeOK
<1>6. ASSUME NEW c \in Call PROVE Counts(c)' /\ Latest(c)' /\ Belongs(c)'
  BY <1>1, <1>3, <1>4 DEF RegInv, Counts, Latest, Belongs, JobTypeOK
<1> QED
  BY <1>2, <1>3, <1>5, <1>6 DEF RegInv, StaysFresh, StaysStopping, Fresh

LEMMA RegCancel ==
  ASSUME RegInv, NEW J \in SUBSET Job, Cancel(J)
  PROVE  RegInv' /\ \A c \in Call : StaysFresh(c) /\ StaysStopping(c)
<1> DEFINE ts == {jobs[j] : j \in {i \in J : Running(i)}}
<1> USE DEF Cancel
<1>1. JobTypeOK /\ ts \subseteq Call /\ \A t \in ts : active[t].status = "running"
  BY NobodyIsNoCall DEF RegInv, Running, JobTypeOK
<1>2. JobTypeOK'
  BY <1>1 DEF JobTypeOK, RunPhases, Ended, Exits
<1>a. \A t \in Call : active'[t] = IF t \in ts THEN [active[t] EXCEPT !.status = "cancelled", !.pending = 0]
                                   ELSE active[t]
  BY Zenon
<1>3. ASSUME NEW t \in Call
      PROVE  /\ t \in ts => active'[t].status = "cancelled"
             /\ t \notin ts => active'[t] = active[t]
  <2> HIDE DEF ts, Cancel
  <2>1. active[t] \in [status : {"none", "running"} \cup Ended, pending : Nat, next : Nat,
                       tail : Call, output : Call \cup {Nobody}, background : BOOLEAN]
    BY <1>1 DEF JobTypeOK
  <2> QED
    BY <1>a, <2>1
<1>4. \A t : Left(t)' = Left(t) /\ Said(t)' = Said(t)
  BY DEF Left, Said, RunsOf
<1>5. ClosedEnded'
  BY <1>1, <1>3 DEF RegInv, ClosedEnded, JobTypeOK, Ended
<1>6. ASSUME NEW c \in Call PROVE Counts(c)' /\ Latest(c)' /\ Belongs(c)'
  <2>1. Counts(c)' /\ Latest(c)'
    BY <1>3, <1>4 DEF RegInv, Counts, Latest
  <2>2. Belongs(c)'
    BY <1>1, <1>3 DEF RegInv, Belongs, JobTypeOK
  <2> QED
    BY <2>1, <2>2
<1> QED
  BY <1>1, <1>2, <1>3, <1>5, <1>6 DEF RegInv, StaysFresh, StaysStopping, Fresh

(* A run goes from one phase to another and is not settled.                *)
LEMMA RegPhase ==
  ASSUME RegInv, NEW r \in Call, NEW p \in {"running", "stopping", "ended"},
         NEW x \in Exits \cup {"none"},
         run[r].phase \notin {"none", "over"},
         run' = [run EXCEPT ![r].phase = p, ![r].exit = x],
         UNCHANGED <<jobs, active, closed>>
  PROVE  RegInv' /\ \A c \in Call : StaysFresh(c) /\ (c # r => StaysStopping(c))
<1>1. JobTypeOK /\ jobs' = jobs /\ active' = active /\ closed' = closed
  BY DEF RegInv
<1>2. JobTypeOK'
  BY <1>1 DEF JobTypeOK, RunPhases, Exits
<1>3. /\ \A c \in Call : c # r => run'[c] = run[c]
      /\ \A c \in Call : /\ run'[c].job = run[c].job /\ run'[c].token = run[c].token
                         /\ run'[c].sequence = run[c].sequence
      /\ run'[r].phase = p
  BY <1>1 DEF JobTypeOK
<1>4. \A t : Left(t)' = Left(t) /\ Said(t)' = Said(t)
  BY <1>3 DEF Left, Said, RunsOf
<1>5. ClosedEnded'
  BY DEF RegInv, ClosedEnded
<1>6. ASSUME NEW c \in Call PROVE Counts(c)' /\ Latest(c)' /\ Belongs(c)'
  <2>1. Counts(c)'
    BY <1>4 DEF RegInv, Counts
  <2>2. Said(c) \subseteq Call /\ Latest(c)
    BY DEF Said, RunsOf, RegInv
  <2>3. Latest(c)'
    BY <1>1, <1>3, <1>4, <2>2 DEF Latest
  <2>4. Belongs(c)'
    BY <1>3 DEF RegInv, Belongs
  <2> QED
    BY <2>1, <2>3, <2>4
<1> QED
  BY <1>2, <1>3, <1>5, <1>6 DEF RegInv, StaysFresh, StaysStopping, Fresh

(* A run that has not begun is dropped, with an incarnation that has ended. *)
LEMMA RegDrop ==
  ASSUME RegInv, NEW r \in Call, DropRun(r)
  PROVE  RegInv' /\ \A c \in Call : StaysFresh(c) /\ StaysStopping(c)
<1> USE DEF DropRun, Interrupted
<1>1. /\ JobTypeOK /\ run[r].token \in closed
      /\ jobs' = jobs /\ active' = active /\ closed' = closed
      /\ run' = [run EXCEPT ![r].phase = "over", ![r].exit = "interrupted"]
      /\ run[r].phase = "queued"
  BY DEF RegInv
<1> HIDE DEF DropRun, Interrupted
<1>2. JobTypeOK'
  <2>1. "over" \in RunPhases /\ "interrupted" \in Exits \cup {"none"}
    BY DEF RunPhases, Exits
  <2> QED
    BY <1>1, <2>1 DEF JobTypeOK
<1>3. /\ \A c \in Call : c # r => run'[c] = run[c]
      /\ \A c \in Call : /\ run'[c].job = run[c].job /\ run'[c].token = run[c].token
                         /\ run'[c].sequence = run[c].sequence
      /\ run'[r].phase = "over" /\ run'[r].exit = "interrupted"
  BY <1>1 DEF JobTypeOK
<1>4. \A t : Said(t)' = Said(t) /\ Left(t)' = Left(t) \ {r}
  BY <1>1, <1>3 DEF Left, Said, RunsOf
<1>5. \A t \in Call : t # run[r].token => Left(t)' = Left(t)
  BY <1>4 DEF Left, RunsOf
<1>6. active[run[r].token].status \in Ended
  BY <1>1 DEF RegInv, ClosedEnded
<1>7. ASSUME NEW c \in Call PROVE Counts(c)' /\ Latest(c)' /\ Belongs(c)'
  <2>1. Counts(c)'
    BY <1>1, <1>4, <1>5, <1>6 DEF RegInv, Counts, Ended
  <2>2. Said(c) \subseteq Call /\ Latest(c)
    BY DEF Said, RunsOf, RegInv
  <2>3. Latest(c)'
    BY <1>1, <1>3, <1>4, <2>2 DEF Latest
  <2>4. Belongs(c)'
    BY <1>1, <1>3 DEF RegInv, Belongs
  <2> QED
    BY <2>1, <2>3, <2>4
<1> QED
  BY <1>1, <1>2, <1>3, <1>7 DEF RegInv, ClosedEnded, StaysFresh, StaysStopping, Fresh

(* A settlement that is not heeded belongs to an incarnation that has      *)
(* ended.                                                                  *)
LEMMA RegSettle ==
  ASSUME RegInv, NEW r \in Call, Settle(r)
  PROVE  RegInv' /\ \A c \in Call : StaysFresh(c) /\ StaysStopping(c)
<1>0. PICK t \in Call : t = run[r].token
  BY DEF RegInv, JobTypeOK
<1> DEFINE a == active[t]
           x == run[r].exit
           heeded == IsCurrent(r) /\ active[jobs[run[r].job]].status = "running"
<1>1. /\ JobTypeOK /\ t = run[r].token /\ run[r].phase = "ended" /\ jobs' = jobs
      /\ run' = [run EXCEPT ![r].phase = "over"]
  BY <1>0 DEF RegInv, JobTypeOK, Settle
<1>2. /\ \A c \in Call : c # r => run'[c] = run[c]
      /\ \A c \in Call : /\ run'[c].job = run[c].job /\ run'[c].token = run[c].token
                         /\ run'[c].sequence = run[c].sequence /\ run'[c].exit = run[c].exit
      /\ run'[r].phase = "over"
  BY <1>1 DEF JobTypeOK
<1>3. run' \in [Call -> [phase : RunPhases, job : Job \cup {Nobody}, token : Call, sequence : Nat,
                         previous : Call \cup {Nobody}, exit : Exits \cup {"none"}]]
  <2>1. "over" \in RunPhases
    BY DEF RunPhases
  <2> QED
    BY <1>1, <2>1 DEF JobTypeOK
<1>4. /\ r \in Left(t) /\ Left(t)' = Left(t) \ {r}
      /\ \A d \in Call : d # t => Left(d)' = Left(d) /\ Said(d)' = Said(d)
      /\ Said(t)' = IF x = "text" THEN Said(t) \cup {r} ELSE Said(t)
  BY <1>1, <1>2 DEF Left, Said, RunsOf
<1>5. a.status # "completed"
  BY <1>1, <1>4 DEF RegInv, Counts
<1>6. \A d \in Call : Said(d) \subseteq Call
  BY DEF Said, RunsOf
<1>7. CASE ~heeded
  <2>1. active' = active /\ closed' = closed
    BY <1>7 DEF Settle
  <2>2. a.status # "running"
    BY <1>1, <1>7 DEF RegInv, Belongs, IsCurrent
  <2>3. JobTypeOK' /\ ClosedEnded'
    BY <1>1, <1>3, <2>1 DEF RegInv, JobTypeOK, ClosedEnded
  <2>4. ASSUME NEW c \in Call PROVE Counts(c)' /\ Latest(c)' /\ Belongs(c)'
    <3>1. Counts(c)' /\ Latest(c)'
      <4>1. CASE c = t
        <5>1. active'[c].status \notin {"running", "completed"}
          BY <1>5, <2>1, <2>2, <4>1
        <5> QED
          BY <5>1 DEF Counts, Latest
      <4>2. CASE c # t
        <5>1. Counts(c) /\ Latest(c)
          BY DEF RegInv
        <5>2. Counts(c)'
          BY <1>4, <2>1, <4>2, <5>1 DEF Counts
        <5>3. Latest(c)'
          BY <1>2, <1>4, <1>6, <2>1, <4>2, <5>1 DEF Latest
        <5> QED
          BY <5>2, <5>3
      <4> QED
        BY <4>1, <4>2
    <3>2. Belongs(c)'
      BY <1>1, <1>2, <2>1 DEF RegInv, Belongs
    <3> QED
      BY <3>1, <3>2
  <2> QED
    BY <1>1, <1>2, <2>1, <2>3, <2>4 DEF RegInv, StaysFresh, StaysStopping, Fresh
<1>8. CASE heeded
  <2>1. /\ a.status = "running"
        /\ active' = [active EXCEPT ![t] = AfterRun(r, a)]
        /\ closed' = IF AfterRun(r, a).status = "running" THEN closed ELSE closed \cup {t}
    BY <1>0, <1>8 DEF Settle, IsCurrent
  <2>2. /\ a.pending = Cardinality(Left(t)) /\ a.pending \in Nat \ {0}
        /\ Cardinality(Left(t)') = a.pending - 1
    <3>1. a.pending = Cardinality(Left(t))
      BY <1>1, <2>1 DEF RegInv, Counts
    <3>2. Cardinality(Left(t) \ {r}) = Cardinality(Left(t)) - 1 /\ Cardinality(Left(t)) # 0
      BY <1>4, LeftFinite, FS_RemoveElement, FS_EmptySet
    <3> QED
      BY <1>4, <3>1, <3>2, LeftFinite
  <2>3. a \in [status : {"none", "running"} \cup Ended, pending : Nat, next : Nat,
               tail : Call, output : Call \cup {Nobody}, background : BOOLEAN]
    BY <1>1 DEF JobTypeOK
  <2>4. /\ AfterRun(r, a) \in [status : {"none", "running"} \cup Ended, pending : Nat, next : Nat,
                               tail : Call, output : Call \cup {Nobody}, background : BOOLEAN]
        /\ AfterRun(r, a).status \in {"running"} \cup Ended
        /\ x \in {"text", "empty"} => AfterRun(r, a).pending = a.pending - 1
        /\ AfterRun(r, a).status = "running" => x \in {"text", "empty"}
        /\ AfterRun(r, a).status = "completed" => x \in {"text", "empty"} /\ a.pending = 1
        /\ x \in {"text", "empty"} => AfterRun(r, a).output =
             IF x = "text" /\ (a.output = Nobody \/ run[a.output].sequence < run[r].sequence)
             THEN r ELSE a.output
    <3> DEFINE o == IF x = "text" /\ (a.output = Nobody \/ run[a.output].sequence < run[r].sequence)
                    THEN r ELSE a.output
    <3>1. o \in Call \cup {Nobody}
      BY <2>3
    <3>2. CASE x \in {"text", "empty"}
      <4>1. AfterRun(r, a) = [a EXCEPT !.output = o, !.pending = @ - 1,
                                       !.status = IF a.pending > 1 THEN "running" ELSE "completed"]
        BY <3>2 DEF AfterRun
      <4> HIDE DEF o
      <4>2. /\ AfterRun(r, a).status = IF a.pending > 1 THEN "running" ELSE "completed"
            /\ AfterRun(r, a).pending = a.pending - 1
            /\ AfterRun(r, a).output = o
        BY <2>3, <4>1
      <4>3. /\ AfterRun(r, a) \in [status : {"none", "running"} \cup Ended, pending : Nat, next : Nat,
                                    tail : Call, output : Call \cup {Nobody}, background : BOOLEAN]
            /\ AfterRun(r, a).status \in {"running"} \cup Ended
        <5> DEFINE s == IF a.pending > 1 THEN "running" ELSE "completed"
        <5>1. s \in {"running"} \cup Ended
          BY DEF Ended
        <5>2. a.pending - 1 \in Nat
          BY <2>2
        <5>3. AfterRun(r, a) = [a EXCEPT !.output = o, !.pending = a.pending - 1, !.status = s]
          BY <2>3, <4>1
        <5> HIDE DEF s
        <5> QED
          BY <2>3, <3>1, <5>1, <5>2, <5>3
      <4>4. AfterRun(r, a).status = "completed" => a.pending = 1
        BY <2>2, <4>2
      <4> QED
        BY <3>2, <4>2, <4>3, <4>4 DEF o
    <3>3. CASE x \notin {"text", "empty"}
      <4>1. AfterRun(r, a) = [a EXCEPT !.pending = 0, !.status = IF x = "failed" THEN "error" ELSE "cancelled"]
        BY <3>3 DEF AfterRun
      <4>2. AfterRun(r, a).status \in {"error", "cancelled"}
        BY <2>3, <4>1
      <4>3. AfterRun(r, a) \in [status : {"none", "running"} \cup Ended, pending : Nat, next : Nat,
                                tail : Call, output : Call \cup {Nobody}, background : BOOLEAN]
        <5> DEFINE s == IF x = "failed" THEN "error" ELSE "cancelled"
        <5>1. s \in {"none", "running"} \cup Ended /\ 0 \in Nat
          BY DEF Ended
        <5>2. AfterRun(r, a) = [a EXCEPT !.pending = 0, !.status = s]
          BY <4>1
        <5> HIDE DEF s, a
        <5> DEFINE b == [a EXCEPT !.pending = 0]
        <5>3. b \in [status : {"none", "running"} \cup Ended, pending : Nat, next : Nat,
                 tail : Call, output : Call \cup {Nobody}, background : BOOLEAN]
          BY <2>3
        <5>4. AfterRun(r, a) = [b EXCEPT !.status = s]
          BY <5>2, Zenon
        <5> HIDE DEF b
        <5> QED
          BY <5>1, <5>3, <5>4
      <4> QED
        BY <3>3, <4>2, <4>3 DEF Ended
    <3> QED
      BY <3>2, <3>3
  <2>5. /\ active'[t] = AfterRun(r, a)
        /\ \A d \in Call : d # t => active'[d] = active[d]
    BY <1>1, <2>1 DEF JobTypeOK
  <2>6. JobTypeOK'
    BY <1>1, <1>3, <2>1, <2>4 DEF JobTypeOK
  <2>7. ClosedEnded'
    BY <1>1, <2>1, <2>4, <2>5 DEF RegInv, ClosedEnded, JobTypeOK, Ended
  <2>8. Counts(t)'
    <3>1. active'[t].status = "running" => active'[t].pending = Cardinality(Left(t)')
      BY <2>2, <2>4, <2>5
    <3>2. active'[t].status = "completed" => Left(t)' = {}
      <4>1. SUFFICES ASSUME a.pending = 1 PROVE Left(t)' = {}
        BY <2>4, <2>5
      <4>2. Cardinality(Left(t)') = 0 /\ IsFiniteSet(Left(t)')
        BY <1>4, <2>2, <4>1, LeftFinite, FS_RemoveElement
      <4> QED
        BY <4>2, FS_EmptySet
    <3> QED
      BY <3>1, <3>2 DEF Counts
  <2>9. Latest(t)'
    <3> DEFINE o == a.output
               n == active'[t].output
    <3>1. SUFFICES ASSUME active'[t].status \in {"running", "completed"}
                   PROVE  IF Said(t)' = {} THEN n = Nobody
                          ELSE n \in Said(t)' /\ \A q \in Said(t)' : run[q].sequence <= run[n].sequence
      BY <1>1, <1>2, <1>4, <1>6 DEF Latest
    <3>2. /\ x \in {"text", "empty"}
          /\ n = IF x = "text" /\ (o = Nobody \/ run[o].sequence < run[r].sequence) THEN r ELSE o
      BY <2>4, <2>5, <3>1
    <3>3. IF Said(t) = {} THEN o = Nobody
          ELSE o \in Said(t) /\ \A q \in Said(t) : run[q].sequence <= run[o].sequence
      BY <1>1, <2>1 DEF RegInv, Latest
    <3>4. \A q \in Call : run[q].sequence \in Nat
      BY <1>1 DEF JobTypeOK
    <3>5. o # Nobody => o \in Said(t)
      BY <3>3
    <3>6. Said(t) # {} => o # Nobody
      BY <1>1, <1>6, <3>3, NobodyIsNoCall
    <3> HIDE DEF n, o, x
    <3>7. CASE x # "text"
      BY <1>4, <3>2, <3>3, <3>7
    <3>8. CASE x = "text" /\ (o = Nobody \/ run[o].sequence < run[r].sequence)
      <4>1. n = r /\ Said(t)' = Said(t) \cup {r}
        BY <1>4, <3>2, <3>8
      <4>2. \A q \in Said(t) : run[q].sequence <= run[r].sequence
        BY <1>1, <1>6, <3>3, <3>4, <3>5, <3>6, <3>8
      <4> QED
        BY <3>4, <4>1, <4>2
    <3>9. CASE x = "text" /\ ~(o = Nobody \/ run[o].sequence < run[r].sequence)
      <4>1. n = o /\ Said(t)' = Said(t) \cup {r} /\ o \in Said(t) /\ o \in Call
        BY <1>1, <1>4, <1>6, <3>2, <3>5, <3>9
      <4>2. run[r].sequence <= run[o].sequence
        BY <3>4, <3>9, <4>1
      <4> QED
        BY <3>3, <4>1, <4>2
    <3> QED
      BY <3>7, <3>8, <3>9
  <2>10. ASSUME NEW c \in Call, c # t PROVE Counts(c)' /\ Latest(c)'
    <3>1. Counts(c) /\ Latest(c)
      BY DEF RegInv
    <3>2. Counts(c)'
      BY <1>4, <2>5, <2>10, <3>1 DEF Counts
    <3>3. Latest(c)'
      BY <1>2, <1>4, <1>6, <2>5, <2>10, <3>1 DEF Latest
    <3> QED
      BY <3>2, <3>3
  <2>11. ASSUME NEW c \in Call PROVE Belongs(c)'
    <3>1. active'[t].status # "none"
      BY <2>4, <2>5 DEF Ended
    <3>2. run[c].token \in Call /\ Belongs(c)
      BY <1>1 DEF RegInv, JobTypeOK
    <3>3. run'[c].phase # "none" => run[c].phase # "none"
      BY <1>1, <1>2
    <3>4. CASE run[c].token = t
      BY <1>1, <1>2, <2>1, <3>1, <3>2, <3>3, <3>4 DEF Belongs
    <3>5. CASE run[c].token # t
      BY <1>1, <1>2, <2>5, <3>2, <3>3, <3>5 DEF Belongs
    <3> QED
      BY <3>4, <3>5
  <2>12. \A c \in Call : active[c].status = "none" => active'[c].status = "none"
    BY <2>1, <2>5
  <2> QED
    BY <1>1, <1>2, <2>6, <2>7, <2>8, <2>9, <2>10, <2>11, <2>12 DEF RegInv, StaysFresh, StaysStopping, Fresh
<1> QED
  BY <1>7, <1>8

-----------------------------------------------------------------------------
\* The tasks.

LEMMA InitJobInv == Init => JobInv
<1> SUFFICES ASSUME Init PROVE JobInv
  OBVIOUS
<1>1. RegInv /\ \A c \in Call : Fresh(c)
  BY InitReg DEF Init, JobInit, Fresh
<1>2. TaskTypes
  BY DEF Init, TaskTypes, CallStates, Session
<1>3. NoStop \in Stops
  BY DEF NoStop, Stops
<1>4. stop \in [Stopper -> Stops] /\ \A p \in Stopper : stop[p].at = "none"
  BY <1>3 DEF Init, NoStop
<1>5. \A c \in Call : <<"run", c>> \in Stopper
  BY DEF Stopper
<1> QED
  BY <1>1, <1>2, <1>4, <1>5 DEF JobInv, Stopping

StopStays(c) == stop'[<<"run", c>>].at = "on" => stop[<<"run", c>>].at = "on"

(* What a step that neither begins nor ends the stop of a run has to show. *)
LEMMA Conclude ==
  ASSUME JobInv, RegInv', TaskTypes', (stop \in [Stopper -> Stops])',
         \A c \in Call : /\ Early(c)' => Early(c) /\ StaysFresh(c)
                         /\ StaysStopping(c) /\ StopStays(c)
  PROVE  JobInv'
BY DEF JobInv, StaysFresh, StaysStopping, StopStays, Stopping

LEMMA CallerType == \A c \in Call : Caller(c) \in Session /\ Child[c] \in Job
BY TreeAssumption DEF Caller

LEMMA BelowType == \A s \in Session : Below[s] \subseteq Session
BY DEF Below

LEMMA BeginStopType ==
  ASSUME stop \in [Stopper -> Stops], TaskTypes, NEW p \in Stopper, NEW s \in Session,
         NEW scope \in {"tree", "session"}, BeginStop(p, s, scope)
  PROVE  /\ (stop \in [Stopper -> Stops])' /\ paused' \subseteq Session
         /\ \A q \in Stopper : q # p => stop'[q] = stop[q]
<1> DEFINE tree == IF scope = "tree" THEN Below[s] ELSE {s}
<1>1. tree \in SUBSET Session
  BY BelowType
<1>2. /\ stop' = [stop EXCEPT ![p] = [NoStop EXCEPT !.at = "on", !.scope = scope, !.tree = tree, !.lists = tree]]
      /\ paused' = paused \cup tree
  BY DEF BeginStop
<1> HIDE DEF tree
<1>4. [NoStop EXCEPT !.at = "on", !.scope = scope, !.tree = tree, !.lists = tree] \in Stops
  <2> DEFINE a == [NoStop EXCEPT !.at = "on", !.scope = scope]
             b == [a EXCEPT !.tree = tree]
             d == [b EXCEPT !.lists = tree]
  <2>1. a \in Stops
    BY DEF NoStop, Stops
  <2>2. [NoStop EXCEPT !.at = "on", !.scope = scope, !.tree = tree, !.lists = tree] = d
    BY Zenon
  <2> HIDE DEF a
  <2>3. b \in Stops
    BY <1>1, <2>1 DEF Stops
  <2> HIDE DEF b
  <2>4. d \in Stops
    BY <1>1, <2>3 DEF Stops
  <2> QED
    BY <2>2, <2>4
<1> QED
  BY <1>1, <1>2, <1>4 DEF TaskTypes

LEMMA EndStopType ==
  ASSUME stop \in [Stopper -> Stops], NEW p \in Stopper, EndStop(p)
  PROVE  /\ (stop \in [Stopper -> Stops])' /\ stop[p].at = "on" /\ stop'[p].at = "over"
         /\ \A q \in Stopper : q # p => stop'[q] = stop[q]
<1>1. [NoStop EXCEPT !.at = "over"] \in Stops /\ [NoStop EXCEPT !.at = "over"].at = "over"
  BY DEF NoStop, Stops
<1> QED
  BY <1>1 DEF EndStop, AllStopped

LEMMA RunStops ==
  /\ \A c \in Call : <<"run", c>> \in Stopper /\ <<"call", c>> \in Stopper
  /\ \A k \in Client : <<"client", k>> \in Stopper
  /\ \A c \in Call : \A k : <<"run", c>> # <<"client", k>>
  /\ \A c \in Call, d \in Call : <<"run", c>> # <<"call", d>> /\ (c # d => <<"run", c>> # <<"run", d>>)
BY DEF Stopper

-----------------------------------------------------------------------------
\* Calls.

LEMMA NewCalls ==
  ASSUME JobInv, NEW c \in Call, NewCall(c)
  PROVE  JobInv'
<1>1. /\ RegInv /\ TaskTypes /\ stop \in [Stopper -> Stops] /\ Fresh(c) /\ stop' = stop
      /\ pc[c] = "new"
  BY DEF JobInv, NewCall, Update, StartBackground, FindNothing, MayCall, Early
<1>2. Child[c] \in Job
  BY CallerType
<1>3. CASE Update(c)
  <2>1. RegInv' /\ \A d \in Call : StaysStopping(d) /\ (d # c => StaysFresh(d))
    BY <1>1, <1>2, <1>3, RegExtend DEF Update
  <2>2. TaskTypes' /\ \A d \in Call : Early(d)' => Early(d) /\ d # c
    BY <1>1, <1>3 DEF TaskTypes, Update, Goto, Early, CallStates, sessionVars
  <2> QED
    BY <1>1, <2>1, <2>2, Conclude DEF StopStays
<1>4. CASE StartBackground(c)
  <2>1. RegInv' /\ \A d \in Call : StaysStopping(d) /\ (d # c => StaysFresh(d))
    BY <1>1, <1>2, <1>4, RegStart DEF StartBackground
  <2>2. TaskTypes' /\ \A d \in Call : Early(d)' => Early(d) /\ d # c
    BY <1>1, <1>4 DEF TaskTypes, StartBackground, Goto, Notify, Early, CallStates, sessionVars
  <2> QED
    BY <1>1, <2>1, <2>2, Conclude DEF StopStays
<1>5. CASE FindNothing(c)
  <2>1. RegInv' /\ \A d \in Call : StaysFresh(d) /\ StaysStopping(d)
    BY <1>1, <1>5, RegKept DEF FindNothing
  <2>2. TaskTypes' /\ \A d \in Call : Early(d)' => Early(d)
    BY <1>1, <1>5 DEF TaskTypes, FindNothing, Goto, Early, CallStates, sessionVars
  <2> QED
    BY <1>1, <2>1, <2>2, Conclude DEF StopStays
<1> QED
  BY <1>3, <1>4, <1>5 DEF NewCall

LEMMA CallSteps ==
  ASSUME JobInv, NEW c \in Call, CallStep(c)
  PROVE  JobInv'
<1>1. RegInv /\ TaskTypes /\ stop \in [Stopper -> Stops]
  BY DEF JobInv
<1>2. Child[c] \in Job /\ Child[c] \in Session
  BY CallerType DEF Session
<1>3. CASE StartForeground(c)
  <2>1. pc[c] = "starting" /\ Fresh(c) /\ stop' = stop
    BY <1>3 DEF StartForeground, JobInv, Early
  <2>2. TaskTypes' /\ \A d \in Call : Early(d)' => Early(d) /\ d # c
    <3>1. jobs[Child[c]] \in Call \cup {Nobody}
      BY <1>1, <1>2 DEF RegInv, JobTypeOK
    <3> QED
      BY <1>1, <1>3, <3>1 DEF TaskTypes, StartForeground, Goto, Early, CallStates, sessionVars
  <2>3. RegInv' /\ \A d \in Call : StaysStopping(d) /\ (d # c => StaysFresh(d))
    <3>1. CASE StartNew(c, Child[c], FALSE)
      BY <1>1, <1>2, <2>1, <3>1, RegStart
    <3>2. CASE StartKnown(Child[c])
      BY <1>1, <3>2, RegKept DEF StartKnown
    <3> QED
      BY <1>3, <3>1, <3>2 DEF StartForeground
  <2> QED
    BY <1>1, <2>1, <2>2, <2>3, Conclude DEF StopStays
<1>4. CASE GoBackground(c) \/ Return(c) \/ Aborted(c)
  <2>1. stop' = stop /\ UNCHANGED jobVars
    BY <1>4 DEF GoBackground, Return, Aborted
  <2>2. RegInv' /\ \A d \in Call : StaysFresh(d) /\ StaysStopping(d)
    BY <1>1, <2>1, RegKept
  <2>3. \A d \in Call : Early(d)' => Early(d)
    BY <1>1, <1>4 DEF TaskTypes, GoBackground, Return, Aborted, Goto, Early
  <2>4. jobs[Child[c]] \in Call \cup {Nobody} /\ awaits[c] \in Call \cup {Nobody}
    BY <1>1, <1>2 DEF RegInv, JobTypeOK, TaskTypes
  <2>5. TaskTypes'
    <3>1. CASE GoBackground(c)
      BY <1>1, <2>4, <3>1 DEF TaskTypes, GoBackground, Goto, Notify, CallStates, sessionVars
    <3>2. CASE Return(c)
      BY <1>1, <2>4, <3>2 DEF TaskTypes, Return, Goto, CallStates, sessionVars
    <3>3. CASE Aborted(c)
      BY <1>1, <3>3 DEF TaskTypes, Aborted, Goto, CallStates, sessionVars
    <3> QED
      BY <1>4, <3>1, <3>2, <3>3
  <2> QED
    BY <1>1, <2>1, <2>2, <2>3, <2>5, Conclude DEF StopStays
<1>5. CASE Abort(c)
  <2>1. RegInv' /\ \A d \in Call : StaysFresh(d) /\ StaysStopping(d)
    BY <1>1, <1>5, RegKept DEF Abort
  <2>2. \A d \in Call : Early(d)' => Early(d)
    BY <1>1, <1>5 DEF TaskTypes, Abort, Goto, Early
  <2>3. /\ (stop \in [Stopper -> Stops])' /\ paused' \subseteq Session
        /\ \A d \in Call : StopStays(d)
    <3>1. CASE BeginStop(<<"call", c>>, Child[c], "tree")
      BY <1>1, <1>2, <3>1, RunStops, BeginStopType DEF StopStays
    <3>2. CASE stop' = stop /\ paused' = paused
      BY <1>1, <3>2 DEF StopStays, TaskTypes
    <3> QED
      BY <1>5, <3>1, <3>2 DEF Abort
  <2>4. TaskTypes'
    BY <1>1, <1>5, <2>3 DEF TaskTypes, Abort, Goto, CallStates
  <2> QED
    BY <1>1, <2>1, <2>2, <2>3, <2>4, Conclude
<1>6. CASE AbortJob(c)
  <2>1. RegInv' /\ \A d \in Call : StaysFresh(d) /\ StaysStopping(d)
    BY <1>1, <1>2, <1>6, RegCancel DEF AbortJob
  <2>2. \A d \in Call : Early(d)' => Early(d)
    BY <1>1, <1>6 DEF TaskTypes, AbortJob, Goto, Early
  <2>3. (stop \in [Stopper -> Stops])' /\ \A d \in Call : StopStays(d)
    BY <1>1, <1>6, RunStops, EndStopType DEF AbortJob, StopStays
  <2>4. jobs[Child[c]] \in Call \cup {Nobody}
    BY <1>1, <1>2 DEF RegInv, JobTypeOK
  <2>5. TaskTypes'
    BY <1>1, <1>6, <2>4 DEF TaskTypes, AbortJob, Goto, CallStates, sessionVars
  <2> QED
    BY <1>1, <2>1, <2>2, <2>3, <2>5, Conclude
<1> QED
  BY <1>3, <1>4, <1>5, <1>6 DEF CallStep

-----------------------------------------------------------------------------
\* Runs.

LEMMA RunSteps ==
  ASSUME JobInv, NEW r \in Call, RunStep(r)
  PROVE  JobInv'
<1>1. /\ RegInv /\ TaskTypes /\ stop \in [Stopper -> Stops] /\ JobTypeOK
      /\ \A c \in Call : (Early(c) => Fresh(c)) /\ Stopping(c)
      /\ run[r].exit \in Exits \cup {"none"}
  BY DEF JobInv, RegInv, JobTypeOK
<1>2. run[r].phase # "none" => run[r].job \in Job
  BY <1>1 DEF RegInv, Belongs
<1>3. CASE Prompt(r)
  <2>1. run' = [run EXCEPT ![r].phase = "running", ![r].exit = run[r].exit]
    BY <1>1, <1>3 DEF Prompt, BeginRun, JobTypeOK
  <2>2. run[r].phase = "queued" /\ UNCHANGED <<jobs, active, closed>>
    BY <1>3 DEF Prompt, BeginRun
  <2>3. RegInv' /\ \A c \in Call : StaysFresh(c) /\ (c # r => StaysStopping(c))
    BY <1>1, <2>1, <2>2, RegPhase
  <2>4. TaskTypes' /\ stop' = stop /\ pc' = pc
    BY <1>1, <1>2, <1>3, <2>2 DEF TaskTypes, Prompt, taskVars, Session
  <2>5. \A c \in Call : StaysStopping(c)
    BY <2>2, <2>3 DEF StaysStopping
  <2> QED
    BY <1>1, <2>3, <2>4, <2>5, Conclude DEF StopStays, Early
<1>4. ASSUME NEW exit \in {"text", "empty", "failed"}, Answer(r, exit) PROVE JobInv'
  <2>1. run' = [run EXCEPT ![r].phase = "ended", ![r].exit = exit] /\ exit \in Exits
    BY <1>4 DEF Answer, EndRun, Exits
  <2>2. run[r].phase = "running" /\ UNCHANGED <<jobs, active, closed>>
    BY <1>4 DEF Answer, EndRun
  <2>3. RegInv' /\ \A c \in Call : StaysFresh(c) /\ (c # r => StaysStopping(c))
    BY <1>1, <2>1, <2>2, RegPhase
  <2>4. TaskTypes' /\ stop' = stop /\ pc' = pc
    BY <1>1, <1>4 DEF TaskTypes, Answer, taskVars, sessionVars
  <2>5. \A c \in Call : StaysStopping(c)
    BY <2>2, <2>3 DEF StaysStopping
  <2> QED
    BY <1>1, <2>3, <2>4, <2>5, Conclude DEF StopStays, Early
<1>5. CASE Interrupt(r)
  <2>1. run' = [run EXCEPT ![r].phase = "stopping", ![r].exit = run[r].exit]
    BY <1>1, <1>5 DEF Interrupt, InterruptRun, JobTypeOK
  <2>2. run[r].phase = "running" /\ UNCHANGED <<jobs, active, closed>>
    BY <1>5 DEF Interrupt, InterruptRun, Interrupted
  <2>3. RegInv' /\ \A c \in Call : StaysFresh(c) /\ (c # r => StaysStopping(c))
    BY <1>1, <2>1, <2>2, RegPhase
  <2>4. run[r].job \in Session
    BY <1>2, <2>2 DEF Session
  <2>5. /\ (stop \in [Stopper -> Stops])' /\ paused' \subseteq Session
        /\ \A q \in Stopper : q # <<"run", r>> => stop'[q] = stop[q]
    BY <1>1, <1>5, <2>4, RunStops, BeginStopType DEF Interrupt
  <2>6. TaskTypes' /\ pc' = pc
    BY <1>1, <1>5, <2>5 DEF TaskTypes, Interrupt, taskVars
  <2>7. run'[r].phase = "stopping"
    BY <1>1, <2>1 DEF JobTypeOK
  <2>8. \A c \in Call : StaysStopping(c)
    BY <2>2, <2>3 DEF StaysStopping
  <2>9. \A c \in Call : Stopping(c)'
    BY <1>1, <2>5, <2>7, <2>8, RunStops DEF Stopping, StaysStopping
  <2> QED
    BY <1>1, <2>3, <2>5, <2>6, <2>9 DEF JobInv, Early, StaysFresh
<1>6. CASE EndInterrupt(r)
  <2>1. /\ (stop \in [Stopper -> Stops])' /\ stop[<<"run", r>>].at = "on" /\ stop'[<<"run", r>>].at = "over"
        /\ \A q \in Stopper : q # <<"run", r>> => stop'[q] = stop[q]
    BY <1>1, <1>6, RunStops, EndStopType DEF EndInterrupt
  <2>2. run[r].phase = "stopping"
    BY <1>1, <2>1 DEF Stopping
  <2>3. /\ run' = [run EXCEPT ![r].phase = "ended", ![r].exit = "interrupted"] /\ "interrupted" \in Exits
        /\ UNCHANGED <<jobs, active, closed>>
    BY <1>6 DEF EndInterrupt, EndRun, Exits
  <2>4. RegInv' /\ \A c \in Call : StaysFresh(c) /\ (c # r => StaysStopping(c))
    BY <1>1, <2>2, <2>3, RegPhase
  <2>5. TaskTypes' /\ pc' = pc
    BY <1>1, <1>6 DEF TaskTypes, EndInterrupt, taskVars, sessionVars
  <2>6. \A c \in Call : Stopping(c)'
    BY <1>1, <2>1, <2>4, RunStops DEF Stopping, StaysStopping
  <2> QED
    BY <1>1, <2>1, <2>4, <2>5, <2>6 DEF JobInv, Early, StaysFresh
<1>7. CASE Drop(r) \/ SettleRun(r)
  <2>1. RegInv' /\ \A c \in Call : StaysFresh(c) /\ StaysStopping(c)
    BY <1>1, <1>7, RegDrop, RegSettle DEF Drop, SettleRun
  <2>2. TaskTypes' /\ stop' = stop /\ pc' = pc
    BY <1>1, <1>7 DEF TaskTypes, Drop, SettleRun, taskVars, sessionVars
  <2> QED
    BY <1>1, <2>1, <2>2, Conclude DEF StopStays, Early
<1> QED
  BY <1>3, <1>4, <1>5, <1>6, <1>7 DEF RunStep

-----------------------------------------------------------------------------
\* Turns, deliveries, promotions and stops.

LEMMA InterruptTurnTypes ==
  ASSUME TaskTypes, NEW s \in Session, InterruptTurn(s)
  PROVE  TaskTypes' /\ \A c \in Call : Early(c)' => Early(c)
<1>1. \A c \in Call : pc'[c] =
        IF c \notin CallsOf(s) THEN pc[c]
        ELSE CASE pc[c] = "starting" -> "aborted" [] pc[c] = "waiting" -> "aborting" [] OTHER -> pc[c]
  BY DEF InterruptTurn
<1>2. ASSUME NEW c \in Call
      PROVE  pc'[c] \in {pc[c], "aborted", "aborting"} /\ pc[c] \in CallStates
  <2>1. CASE c \notin CallsOf(s)
    BY <1>1, <2>1 DEF TaskTypes
  <2>2. CASE c \in CallsOf(s) /\ pc[c] = "starting"
    BY <1>1, <2>2 DEF TaskTypes
  <2>3. CASE c \in CallsOf(s) /\ pc[c] = "waiting"
    BY <1>1, <2>3 DEF TaskTypes
  <2>4. CASE c \in CallsOf(s) /\ pc[c] \notin {"starting", "waiting"}
    BY <1>1, <2>4 DEF TaskTypes
  <2> QED
    BY <2>1, <2>2, <2>3, <2>4
<1>3. pc' \in [Call -> CallStates]
  <2>1. DOMAIN pc' = Call /\ pc' = [c \in Call |-> pc'[c]]
    BY DEF InterruptTurn
  <2>2. \A c \in Call : pc'[c] \in CallStates
    BY <1>2 DEF CallStates
  <2> QED
    BY <2>1, <2>2
<1>4. \A c \in Call : Early(c)' => Early(c)
  BY <1>2 DEF Early
<1> QED
  BY <1>3, <1>4 DEF TaskTypes, InterruptTurn

LEMMA StopSteps ==
  ASSUME JobInv, NEW p \in Stopper, NEW s \in Session, StopJobs(p, s) \/ StopTurn(p, s)
  PROVE  JobInv'
<1>1. RegInv /\ TaskTypes /\ stop \in [Stopper -> Stops] /\ JobTypeOK
  BY DEF JobInv, RegInv
<1>2. CallsOf(s) \in SUBSET Call
  BY DEF CallsOf
<1>3. stop[p] \in Stops
  BY <1>1
<1> DEFINE listed == IF stop[p].scope = "session" THEN {}
                     ELSE {j \in Job : Running(j) /\ (j = s \/ Parent[j] = s)}
<1>4. CASE (StopJobs(p, s) /\ listed = {}) \/ StopTurn(p, s)
  <2>1. PICK ls \in SUBSET Session, ts \in SUBSET Session, cs \in SUBSET (Session \X Call),
             xs \in SUBSET Call :
          stop' = [stop EXCEPT ![p] = [stop[p] EXCEPT !.lists = ls, !.turns = ts, !.closing = cs, !.calls = xs]]
    <3>1. CASE StopJobs(p, s) /\ listed = {}
      <4>1. stop' = [stop EXCEPT ![p] = [stop[p] EXCEPT !.lists = stop[p].lists \ {s}, !.turns = stop[p].turns,
                       !.closing = stop[p].closing, !.calls = stop[p].calls \cup CallsOf(s)]]
        BY <1>1, <1>3, <3>1 DEF StopJobs, Stops
      <4> QED
        BY <1>2, <1>3, <4>1 DEF Stops
    <3>2. CASE StopTurn(p, s)
      <4>1. stop' = [stop EXCEPT ![p] = [stop[p] EXCEPT !.lists = stop[p].lists, !.turns = stop[p].turns \ {s},
                       !.closing = {x \in stop[p].closing : x[1] # s},
                       !.calls = stop[p].calls \cup CallsOf(s)]]
        BY <1>1, <1>3, <3>2 DEF StopTurn, Stops
      <4> QED
        BY <1>2, <1>3, <4>1 DEF Stops
    <3> QED
      BY <1>4, <3>1, <3>2
  <2>2. (stop \in [Stopper -> Stops])' /\ \A c \in Call : StopStays(c)
    <3> DEFINE e == [stop[p] EXCEPT !.lists = ls, !.turns = ts, !.closing = cs, !.calls = xs]
    <3>1. e \in Stops /\ e.at = stop[p].at
      BY <1>3 DEF Stops
    <3> HIDE DEF e
    <3> QED
      BY <1>1, <2>1, <3>1 DEF StopStays, e
  <2>3. InterruptTurn(s) /\ UNCHANGED jobVars
    BY <1>4 DEF StopJobs, StopTurn
  <2> QED
    BY <1>1, <2>2, <2>3, RegKept, InterruptTurnTypes, Conclude
<1>5. CASE StopJobs(p, s) /\ listed # {}
  <2>1. listed \in SUBSET Job /\ {jobs[j] : j \in listed} \subseteq Call
    BY <1>1, NobodyIsNoCall DEF Running, JobTypeOK
  <2>2. /\ stop' = [stop EXCEPT ![p].lists = @ \ {s}, ![p].turns = @ \cup {s},
                                ![p].closing = @ \cup ({s} \X {jobs[j] : j \in listed})]
        /\ Cancel(listed)
        /\ UNCHANGED <<taskVars, sessionVars>>
    BY <1>5 DEF StopJobs
  <2> DEFINE ts == {jobs[j] : j \in listed}
  <2>3. ts \subseteq Call
    BY <2>1
  <2>4. stop' = [stop EXCEPT ![p].lists = @ \ {s}, ![p].turns = @ \cup {s},
                             ![p].closing = @ \cup ({s} \X ts)]
    BY <2>2
  <2> HIDE DEF listed, ts
  <2>5. RegInv' /\ \A c \in Call : StaysFresh(c) /\ StaysStopping(c)
    BY <1>1, <2>1, <2>2, RegCancel
  <2>6. (stop \in [Stopper -> Stops])' /\ \A c \in Call : StopStays(c)
    <3> DEFINE e == [stop[p] EXCEPT !.lists = stop[p].lists \ {s}, !.turns = stop[p].turns \cup {s},
                                    !.closing = stop[p].closing \cup ({s} \X ts)]
    <3>1. stop' = [stop EXCEPT ![p] = e]
      BY <1>1, <1>3, <2>4 DEF Stops
    <3>2. {s} \X ts \in SUBSET (Session \X Call)
      BY <2>3
    <3>3. e \in Stops /\ e.at = stop[p].at
      BY <1>3, <3>2 DEF Stops
    <3> HIDE DEF e
    <3> QED
      BY <1>1, <3>1, <3>3 DEF StopStays
  <2>7. TaskTypes' /\ pc' = pc
    BY <1>1, <2>2 DEF TaskTypes, taskVars, sessionVars
  <2> QED
    BY <1>1, <2>5, <2>6, <2>7, Conclude DEF Early
<1> QED
  BY <1>4, <1>5

LEMMA OtherSteps ==
  ASSUME JobInv,
         \/ \E c \in Call : Deliver(c)
         \/ \E s \in Session : TurnEnd(s)
         \/ \E j \in Job : PromoteJob(j)
         \/ \E k \in Client : ClientStopped(k) \/ \E scope \in {"session", "tree"} : ClientStop(k, scope)
         \/ UNCHANGED vars
  PROVE  JobInv'
<1>1. RegInv /\ TaskTypes /\ stop \in [Stopper -> Stops] /\ JobTypeOK
  BY DEF JobInv, RegInv
<1>2. ASSUME NEW c \in Call, Deliver(c) PROVE JobInv'
  <2>1. RegInv' /\ \A d \in Call : StaysFresh(d) /\ StaysStopping(d)
    BY <1>1, <1>2, RegKept DEF Deliver
  <2>2. TaskTypes' /\ stop' = stop /\ pc' = pc
    BY <1>1, <1>2, CallerType DEF TaskTypes, Deliver
  <2> QED
    BY <1>1, <2>1, <2>2, Conclude DEF StopStays, Early
<1>3. ASSUME NEW s \in Session, TurnEnd(s) PROVE JobInv'
  <2>1. RegInv' /\ \A d \in Call : StaysFresh(d) /\ StaysStopping(d)
    BY <1>1, <1>3, RegKept DEF TurnEnd
  <2>2. TaskTypes' /\ stop' = stop /\ pc' = pc
    BY <1>1, <1>3 DEF TaskTypes, TurnEnd, taskVars
  <2> QED
    BY <1>1, <2>1, <2>2, Conclude DEF StopStays, Early
<1>4. ASSUME NEW j \in Job, PromoteJob(j) PROVE JobInv'
  <2>1. RegInv' /\ \A d \in Call : StaysFresh(d) /\ StaysStopping(d)
    BY <1>1, <1>4, RegPromote DEF PromoteJob
  <2>2. jobs[j] \in Call
    BY <1>1, <1>4, NobodyIsNoCall DEF PromoteJob, Promote, Running, JobTypeOK
  <2>3. TaskTypes' /\ stop' = stop /\ pc' = pc
    BY <1>1, <1>4, <2>2 DEF TaskTypes, PromoteJob, Notify, sessionVars
  <2> QED
    BY <1>1, <2>1, <2>3, Conclude DEF StopStays, Early
<1>5. ASSUME NEW k \in Client, ClientStopped(k) PROVE JobInv'
  <2>1. RegInv' /\ \A d \in Call : StaysFresh(d) /\ StaysStopping(d)
    BY <1>1, <1>5, RegKept DEF ClientStopped
  <2>2. (stop \in [Stopper -> Stops])' /\ \A d \in Call : StopStays(d)
    BY <1>1, <1>5, RunStops, EndStopType DEF ClientStopped, StopStays
  <2>3. TaskTypes' /\ pc' = pc
    BY <1>1, <1>5 DEF TaskTypes, ClientStopped, taskVars, sessionVars
  <2> QED
    BY <1>1, <2>1, <2>2, <2>3, Conclude DEF Early
<1>6. ASSUME NEW k \in Client, NEW scope \in {"session", "tree"}, ClientStop(k, scope) PROVE JobInv'
  <2>1. RegInv' /\ \A d \in Call : StaysFresh(d) /\ StaysStopping(d)
    BY <1>1, <1>6, RegKept DEF ClientStop
  <2>2. Root \in Session
    BY DEF Session
  <2>3. (stop \in [Stopper -> Stops])' /\ paused' \subseteq Session /\ \A d \in Call : StopStays(d)
    BY <1>1, <1>6, <2>2, RunStops, BeginStopType DEF ClientStop, StopStays
  <2>4. TaskTypes' /\ pc' = pc
    BY <1>1, <1>6, <2>3 DEF TaskTypes, ClientStop, taskVars
  <2> QED
    BY <1>1, <2>1, <2>3, <2>4, Conclude DEF Early
<1>7. ASSUME UNCHANGED vars PROVE JobInv'
  <2>1. RegInv' /\ \A d \in Call : StaysFresh(d) /\ StaysStopping(d)
    BY <1>1, <1>7, RegKept DEF vars
  <2>2. TaskTypes' /\ stop' = stop /\ pc' = pc
    BY <1>1, <1>7 DEF TaskTypes, vars, taskVars, sessionVars
  <2> QED
    BY <1>1, <2>1, <2>2, Conclude DEF StopStays, Early
<1> QED
  BY <1>2, <1>3, <1>4, <1>5, <1>6, <1>7

LEMMA StepJobInv == JobInv /\ [Next]_vars => JobInv'
<1> SUFFICES ASSUME JobInv, [Next]_vars PROVE JobInv'
  OBVIOUS
<1>1. CASE Progress
  BY <1>1, CallSteps, RunSteps, StopSteps, OtherSteps DEF Progress, StopStep
<1>2. CASE ~Progress
  BY <1>2, NewCalls, OtherSteps DEF Next
<1> QED
  BY <1>1, <1>2

LEMMA JobInvariant == Spec => []JobInv
BY InitJobInv, StepJobInv, PTL DEF Spec

-----------------------------------------------------------------------------

(* A job counts the runs it waits for, however they end, are added, dropped *)
(* and settled late; it is completed when all of them have been settled     *)
(* (`settle`, `extend` and `cancel` of background-job.ts).                  *)
THEOREM JobsCount == Spec => []JobCountsRuns
<1>1. JobInv => JobCountsRuns
  BY DEF JobInv, RegInv, Counts, Left, JobCountsRuns
<1> QED
  BY <1>1, JobInvariant, PTL

(* A completed job reports the last of its runs that had something to say,  *)
(* in whatever order they were settled (`sequence` in background-job.ts).   *)
THEOREM LastWords == Spec => []LatestAnswer
<1>1. JobInv => LatestAnswer
  <2> SUFFICES ASSUME JobInv, NEW t \in Call, active[t].status = "completed"
               PROVE  LET said == {r \in RunsOf(t) : run[r].exit = "text"} IN
                      IF said = {} THEN active[t].output = Nobody
                      ELSE /\ active[t].output \in said
                           /\ \A r \in said : run[r].sequence <= run[active[t].output].sequence
    BY DEF LatestAnswer
  <2>1. Left(t) = {} /\ Latest(t)
    BY DEF JobInv, RegInv, Counts
  <2>2. {r \in RunsOf(t) : run[r].exit = "text"} = Said(t)
    BY <2>1 DEF Left, Said
  <2> QED
    BY <2>1, <2>2 DEF Latest
<1> QED
  BY <1>1, JobInvariant, PTL

(* Every variable keeps its type.                                          *)
THEOREM TypeCorrect == Spec => []TypeOK
<1>1. JobInv => TypeOK
  BY DEF JobInv, RegInv, TaskTypes, Stops, TypeOK
<1> QED
  BY <1>1, JobInvariant, PTL

-----------------------------------------------------------------------------
\* Who answers for a job that runs.

(* A job's incarnation was started by a call about it, and the last one is *)
(* in the map.                                                             *)
Mapped ==
  /\ \A j \in Job : jobs[j] # Nobody => Child[jobs[j]] = j
  /\ \A c \in Call : active[c].status = "running" => jobs[Child[c]] = c

(* The call that has started a job waits or stops it, until the job is in  *)
(* the background, where its delivery waits.                               *)
Answers(c) ==
  active[c].status = "running" =>
    IF active[c].background THEN delivery[c] = "waiting"
    ELSE pc[c] \in {"waiting", "aborting", "stopping"}

(* A call that found the job running has started none.                     *)
Dropped(c) == c \in dropped => active[c].status = "none" /\ ~Early(c)

(* Any other call waits for its own job and delivers that, if at all.      *)
Own(c) ==
  /\ told[c] \in {Nobody, c}
  /\ pc[c] = "waiting" => awaits[c] = c
  /\ delivery[c] = "waiting" => delivers[c] = c
  /\ delivery[c] = "none" <=> ~active[c].background
  /\ pc[c] \in {"result", "failed"} => active[c].status \in Ended /\ ~active[c].background

OwnerInv ==
  /\ Mapped
  /\ \A c \in Call : Answers(c) /\ Dropped(c) /\ (c \notin dropped => Own(c))
  /\ \A c \in Call : active[c].status = "none" => ~active[c].background

(* What becomes of an incarnation that is not started or moved.            *)
Ages(c) ==
  /\ active'[c].background = active[c].background
  /\ \/ active'[c].status = active[c].status
     \/ active[c].status = "running" /\ active'[c].status \in Ended

LEMMA Ageing ==
  ASSUME JobInv,
         \/ UNCHANGED jobVars
         \/ \E c \in Call, j \in Job : Extend(c, j)
         \/ \E J \in SUBSET Job : Cancel(J)
         \/ \E r \in Call : Settle(r)
         \/ UNCHANGED <<jobs, active>>
  PROVE  jobs' = jobs /\ \A c \in Call : Ages(c)
<1>1. JobTypeOK /\ RegInv
  BY DEF JobInv, RegInv
<1>2. CASE UNCHANGED jobVars \/ UNCHANGED <<jobs, active>>
  BY <1>2 DEF jobVars, Ages
<1>3. ASSUME NEW c \in Call, NEW j \in Job, Extend(c, j)
      PROVE  jobs' = jobs /\ \A d \in Call : Ages(d)
  <2> DEFINE t == jobs[j]
  <2>1. t \in Call /\ jobs' = jobs
    BY <1>1, <1>3, NobodyIsNoCall DEF Extend, Running, JobTypeOK
  <2>2. active' = [active EXCEPT ![t].pending = @ + 1, ![t].next = @ + 1, ![t].tail = c]
    BY <1>3 DEF Extend
  <2> HIDE DEF t
  <2>3. \A d \in Call : active'[d].status = active[d].status /\ active'[d].background = active[d].background
    BY <1>1, <2>1, <2>2 DEF JobTypeOK
  <2> QED
    BY <2>1, <2>3 DEF Ages
<1>4. ASSUME NEW J \in SUBSET Job, Cancel(J)
      PROVE  jobs' = jobs /\ \A c \in Call : Ages(c)
  <2> DEFINE ts == {jobs[j] : j \in {i \in J : Running(i)}}
  <2>1. \A t \in ts : active[t].status = "running"
    BY DEF Running
  <2>2. jobs' = jobs /\ \A t \in Call : active'[t] = IF t \in ts THEN [active[t] EXCEPT !.status = "cancelled", !.pending = 0]
                                                     ELSE active[t]
    BY <1>4, Zenon DEF Cancel
  <2> HIDE DEF ts
  <2>3. ASSUME NEW c \in Call PROVE Ages(c)
    <3>1. active[c] \in [status : {"none", "running"} \cup Ended, pending : Nat, next : Nat,
                         tail : Call, output : Call \cup {Nobody}, background : BOOLEAN]
      BY <1>1 DEF JobTypeOK
    <3> QED
      BY <2>1, <2>2, <3>1 DEF Ages, Ended
  <2> QED
    BY <2>2, <2>3
<1>5. ASSUME NEW r \in Call, Settle(r)
      PROVE  jobs' = jobs /\ \A c \in Call : Ages(c)
  <2> DEFINE t == jobs[run[r].job]
             a == active[t]
  <2>1. jobs' = jobs
    BY <1>5 DEF Settle
  <2>2. CASE active' = active
    BY <2>1, <2>2 DEF Ages
  <2>3. CASE active' = [active EXCEPT ![t] = AfterRun(r, a)] /\ a.status = "running" /\ IsCurrent(r)
    <3>1. t \in Call
      BY <1>1, <2>3 DEF IsCurrent, JobTypeOK
    <3>2. a \in [status : {"none", "running"} \cup Ended, pending : Nat, next : Nat,
                 tail : Call, output : Call \cup {Nobody}, background : BOOLEAN]
      BY <1>1, <3>1 DEF JobTypeOK
    <3>3. AfterRun(r, a).background = a.background /\ AfterRun(r, a).status \in {"running"} \cup Ended
      <4> HIDE DEF a
      <4>1. CASE run[r].exit \in {"text", "empty"}
        BY <3>2, <4>1 DEF AfterRun, Ended
      <4>2. CASE run[r].exit \notin {"text", "empty"}
        BY <3>2, <4>2 DEF AfterRun, Ended
      <4> QED
        BY <4>1, <4>2
    <3>4. /\ active'[t] = AfterRun(r, a)
          /\ \A c \in Call : c # t => active'[c] = active[c]
      BY <1>1, <2>3, <3>1 DEF JobTypeOK
    <3> QED
      BY <2>1, <2>3, <3>3, <3>4 DEF Ages
  <2> QED
    BY <1>5, <2>2, <2>3 DEF Settle
<1> QED
  BY <1>2, <1>3, <1>4, <1>5

(* A step that starts, moves, returns and delivers nothing.                *)
LEMMA OwnersKept ==
  ASSUME OwnerInv, jobs' = jobs, \A c \in Call : Ages(c),
         UNCHANGED <<dropped, delivery, delivers, told>>,
         \A c \in Call :
           /\ Early(c)' => Early(c)
           /\ \/ pc'[c] = pc[c] /\ (awaits'[c] = awaits[c] \/ pc[c] # "waiting")
              \/ /\ pc'[c] \notin {"waiting", "result", "failed"}
                 /\ active'[c].status = "running" /\ ~active'[c].background
                      => pc'[c] \in {"aborting", "stopping"}
  PROVE  OwnerInv'
<1>1. Mapped'
  BY DEF OwnerInv, Mapped, Ages, Ended
<1>2. ASSUME NEW c \in Call
      PROVE  /\ Answers(c)' /\ Dropped(c)' /\ (c \notin dropped' => Own(c)')
             /\ active'[c].status = "none" => ~active'[c].background
  <2>1. Ages(c) /\ Answers(c) /\ Dropped(c) /\ (c \notin dropped => Own(c)) /\ (active[c].status = "none" => ~active[c].background)
    BY DEF OwnerInv
  <2>2. Answers(c)' /\ Dropped(c)'
    BY <2>1 DEF Ages, Answers, Dropped, Ended
  <2>3. c \notin dropped => Own(c)'
    BY <2>1 DEF Ages, Own, Ended
  <2> QED
    BY <2>1, <2>2, <2>3 DEF Ages, Ended
<1> QED
  BY <1>1, <1>2 DEF OwnerInv

(* An interrupt of a turn takes a waiting call to its abort.               *)
LEMMA InterruptedCalls ==
  ASSUME NEW s \in Session, InterruptTurn(s)
  PROVE  \A c \in Call : \/ pc'[c] = pc[c]
                         \/ pc[c] = "starting" /\ pc'[c] = "aborted"
                         \/ pc[c] = "waiting" /\ pc'[c] = "aborting"
<1> SUFFICES ASSUME NEW c \in Call
             PROVE  \/ pc'[c] = pc[c]
                    \/ pc[c] = "starting" /\ pc'[c] = "aborted"
                    \/ pc[c] = "waiting" /\ pc'[c] = "aborting"
  OBVIOUS
<1>1. pc'[c] = IF c \notin CallsOf(s) THEN pc[c]
               ELSE CASE pc[c] = "starting" -> "aborted" [] pc[c] = "waiting" -> "aborting" [] OTHER -> pc[c]
  BY DEF InterruptTurn
<1>2. CASE c \notin CallsOf(s)
  BY <1>1, <1>2
<1>3. CASE c \in CallsOf(s) /\ pc[c] = "starting"
  BY <1>1, <1>3
<1>4. CASE c \in CallsOf(s) /\ pc[c] = "waiting"
  BY <1>1, <1>4
<1>5. CASE c \in CallsOf(s) /\ pc[c] \notin {"starting", "waiting"}
  BY <1>1, <1>5
<1> QED
  BY <1>2, <1>3, <1>4, <1>5

(* A new incarnation of a call's own job.                                  *)
LEMMA OwnerStarts ==
  ASSUME JobInv, OwnerInv, NEW c \in Call, NEW b \in BOOLEAN, Early(c), StartNew(c, Child[c], b),
         UNCHANGED <<dropped, told>>,
         \A d \in Call : d # c => /\ pc'[d] = pc[d] /\ awaits'[d] = awaits[d]
                                  /\ delivery'[d] = delivery[d] /\ delivers'[d] = delivers[d],
         pc'[c] \notin {"new", "starting", "result", "failed"},
         b => pc'[c] # "waiting" /\ delivery'[c] = "waiting" /\ delivers'[c] = c,
         ~b => pc'[c] = "waiting" /\ awaits'[c] = c /\ delivery'[c] = delivery[c] /\ delivers'[c] = delivers[c]
  PROVE  OwnerInv'
<1> USE CallerType DEF StartNew
<1>1. JobTypeOK /\ ~Running(Child[c]) /\ active[c].status = "none" /\ c \notin dropped /\ ~active[c].background
  BY DEF JobInv, RegInv, Fresh, OwnerInv, Dropped
<1>2. /\ jobs'[Child[c]] = c /\ \A j \in Job : j # Child[c] => jobs'[j] = jobs[j]
      /\ active'[c].status = "running" /\ active'[c].background = b
      /\ \A d \in Call : d # c => active'[d] = active[d]
  BY <1>1 DEF JobTypeOK
<1>3. Mapped'
  <2>1. ASSUME NEW j \in Job, jobs'[j] # Nobody PROVE Child[jobs'[j]] = j
    BY <1>2, <2>1 DEF OwnerInv, Mapped
  <2>2. ASSUME NEW d \in Call, active'[d].status = "running" PROVE jobs'[Child[d]] = d
    <3>1. CASE d = c
      BY <1>2, <3>1
    <3>2. CASE d # c
      <4>1. active[d].status = "running" /\ jobs[Child[d]] = d
        BY <1>2, <2>2, <3>2 DEF OwnerInv, Mapped
      <4>2. Child[d] # Child[c]
        BY <1>1, <4>1, NobodyIsNoCall DEF Running
      <4> QED
        BY <1>2, <4>1, <4>2
    <3> QED
      BY <3>1, <3>2
  <2> QED
    BY <2>1, <2>2 DEF Mapped
<1>4. ASSUME NEW d \in Call, d # c
      PROVE  /\ Answers(d)' /\ Dropped(d)' /\ (d \notin dropped' => Own(d)')
             /\ active'[d].status = "none" => ~active'[d].background
  BY <1>2, <1>4 DEF OwnerInv, Answers, Dropped, Own, Early
<1>5. Answers(c)' /\ Dropped(c)' /\ Own(c)'
  <2>1. Own(c)
    BY <1>1 DEF OwnerInv
  <2>2. Answers(c)' /\ Dropped(c)'
    BY <1>1, <1>2 DEF Answers, Dropped
  <2>3. Own(c)'
    BY <1>1, <1>2, <2>1 DEF Own
  <2> QED
    BY <2>2, <2>3
<1> QED
  BY <1>2, <1>3, <1>4, <1>5 DEF OwnerInv

LEMMA OwnerCalls ==
  ASSUME JobInv, OwnerInv, NEW c \in Call, NewCall(c) \/ CallStep(c)
  PROVE  OwnerInv'
<1>1. /\ RegInv /\ JobTypeOK /\ TaskTypes /\ Child[c] \in Job
      /\ Answers(c) /\ Dropped(c) /\ (c \notin dropped => Own(c))
  BY CallerType DEF JobInv, RegInv, OwnerInv
<1>2. CASE Update(c) \/ FindNothing(c)
  <2>1. jobs' = jobs /\ \A d \in Call : Ages(d)
    BY <1>1, <1>2, Ageing DEF Update, FindNothing
  <2>2. /\ Early(c) /\ pc'[c] \in {"updated", "starting"}
        /\ \A d \in Call : d # c => pc'[d] = pc[d]
        /\ UNCHANGED <<awaits, dropped, delivery, delivers, told>>
    BY <1>1, <1>2 DEF Update, FindNothing, MayCall, Goto, Early, TaskTypes
  <2>3. active'[c].status # "running"
    BY <2>1, <2>2 DEF JobInv, Fresh, Ages
  <2> QED
    BY <2>1, <2>2, <2>3, OwnersKept DEF Early
<1>3. CASE StartBackground(c)
  <2>1. /\ Early(c) /\ StartNew(c, Child[c], TRUE) /\ UNCHANGED <<awaits, dropped, told>>
        /\ pc' = [pc EXCEPT ![c] = "started"] /\ Notify(c, c)
    BY <1>3 DEF StartBackground, MayCall, Goto, Early
  <2>2. delivery[c] = "none"
    BY <1>1, <2>1 DEF Dropped, Own, OwnerInv, JobInv, Fresh
  <2>3. delivery' = [delivery EXCEPT ![c] = "waiting"] /\ delivers' = [delivers EXCEPT ![c] = c]
    BY <2>1, <2>2 DEF Notify
  <2> QED
    BY <1>1, <2>1, <2>3, OwnerStarts DEF TaskTypes
<1>4. CASE StartForeground(c)
  <2>1. /\ pc[c] = "starting" /\ Early(c) /\ pc' = [pc EXCEPT ![c] = "waiting"]
        /\ UNCHANGED <<delivery, delivers, told>>
    BY <1>4 DEF StartForeground, Goto, Early
  <2>2. CASE StartNew(c, Child[c], FALSE) /\ awaits' = [awaits EXCEPT ![c] = c] /\ UNCHANGED dropped
    BY <1>1, <2>1, <2>2, OwnerStarts DEF TaskTypes
  <2>3. CASE StartKnown(Child[c]) /\ awaits' = [awaits EXCEPT ![c] = jobs[Child[c]]] /\ dropped' = dropped \cup {c}
    <3>1. jobs' = jobs /\ active' = active /\ active[c].status = "none"
      BY <2>1, <2>3 DEF StartKnown, jobVars, JobInv, Fresh
    <3>2. \A d \in Call : d # c => pc'[d] = pc[d] /\ awaits'[d] = awaits[d]
      BY <1>1, <2>1, <2>3 DEF TaskTypes
    <3>3. pc'[c] = "waiting"
      BY <1>1, <2>1 DEF TaskTypes
    <3>4. Mapped'
      BY <3>1 DEF OwnerInv, Mapped
    <3>5. ASSUME NEW d \in Call
          PROVE  /\ Answers(d)' /\ Dropped(d)' /\ (d \notin dropped' => Own(d)')
                 /\ active'[d].status = "none" => ~active'[d].background
      BY <2>1, <2>3, <3>1, <3>2, <3>3 DEF OwnerInv, Answers, Dropped, Own, Early
    <3> QED
      BY <3>4, <3>5 DEF OwnerInv
  <2> QED
    BY <1>4, <2>2, <2>3 DEF StartForeground
<1>5. CASE GoBackground(c) \/ Return(c)
  <2>1. /\ jobs' = jobs /\ active' = active /\ dropped' = dropped /\ pc[c] = "waiting"
        /\ awaits' = [awaits EXCEPT ![c] = Nobody] /\ pc'[c] \in {"started", "result", "failed"}
        /\ \A d \in Call : d # c => pc'[d] = pc[d]
    BY <1>1, <1>5 DEF GoBackground, Return, jobVars, Goto, TaskTypes
  <2>2. \A d \in Call : d # c => /\ awaits'[d] = awaits[d] /\ told'[d] = told[d]
                                 /\ delivery'[d] = delivery[d] /\ delivers'[d] = delivers[d]
    BY <1>1, <1>5, <2>1 DEF GoBackground, Return, Notify, TaskTypes
  <2>3. Mapped'
    BY <2>1 DEF OwnerInv, Mapped
  <2>4. ASSUME NEW d \in Call, d # c
        PROVE  Answers(d)' /\ Dropped(d)' /\ (d \notin dropped' => Own(d)')
    BY <2>1, <2>2, <2>4 DEF OwnerInv, Answers, Dropped, Own, Early
  <2>5. Dropped(c)' /\ (c \in dropped => Answers(c)')
    BY <1>1, <2>1 DEF Dropped, Answers, Early
  <2>6. ASSUME c \notin dropped PROVE Answers(c)' /\ Own(c)'
    <3>1. awaits[c] = c /\ Own(c)
      BY <1>1, <2>1, <2>6 DEF Own
    <3>2. CASE GoBackground(c)
      <4>1. active[c].background /\ UNCHANGED <<delivery, delivers, told>> /\ pc'[c] = "started"
        BY <1>1, <3>1, <3>2 DEF GoBackground, Notify, Own, Goto, TaskTypes
      <4> QED
        BY <1>1, <2>1, <3>1, <4>1 DEF Answers, Own
    <3>3. CASE Return(c)
      <4>1. /\ ~active[c].background /\ active[c].status \in Ended /\ UNCHANGED <<delivery, delivers>>
            /\ told'[c] \in {told[c], c}
        BY <1>1, <3>1, <3>3 DEF Return, TaskTypes
      <4> QED
        BY <1>1, <2>1, <3>1, <4>1 DEF Answers, Own, Ended
    <3> QED
      BY <1>5, <3>2, <3>3
  <2> QED
    BY <2>1, <2>3, <2>4, <2>5, <2>6 DEF OwnerInv
<1>6. CASE Abort(c) \/ Aborted(c)
  <2>1. jobs' = jobs /\ active' = active /\ \A d \in Call : Ages(d)
    BY <1>6, Ageing DEF Abort, Aborted, jobVars
  <2>2. /\ UNCHANGED <<awaits, dropped, delivery, delivers, told>>
        /\ \A d \in Call : d # c => pc'[d] = pc[d]
    BY <1>1, <1>6 DEF Abort, Aborted, Goto, TaskTypes
  <2>3. CASE Abort(c)
    <3>1. pc[c] = "aborting" /\ pc'[c] \in {"stopping", "aborted"}
      BY <1>1, <2>3 DEF Abort, Goto, TaskTypes
    <3>2. ASSUME active[c].status = "running", ~active[c].background PROVE pc'[c] = "stopping"
      <4>1. jobs[Child[c]] = c
        BY <1>1, <3>2 DEF OwnerInv, Mapped
      <4>2. Running(Child[c]) /\ ~IsBackground(Child[c])
        BY <3>2, <4>1, NobodyIsNoCall DEF Running, IsBackground
      <4> QED
        BY <1>1, <2>3, <4>2 DEF Abort, Goto, TaskTypes
    <3> QED
      BY <2>1, <2>2, <3>1, <3>2, OwnersKept DEF Early
  <2>4. CASE Aborted(c)
    <3>1. pc[c] = "cancelling" /\ pc'[c] = "aborted"
      BY <1>1, <2>4 DEF Aborted, Goto, TaskTypes
    <3> QED
      BY <1>1, <2>1, <2>2, <3>1, OwnersKept DEF Early, Answers
  <2> QED
    BY <1>6, <2>3, <2>4
<1>7. CASE AbortJob(c)
  <2>1. Cancel({Child[c]}) /\ UNCHANGED <<dropped, delivery, delivers, told>>
    BY <1>7 DEF AbortJob
  <2>2. jobs' = jobs /\ \A d \in Call : Ages(d)
    BY <1>1, <2>1, Ageing
  <2>3. /\ pc'[c] = "cancelling" /\ \A d \in Call : d # c => pc'[d] = pc[d] /\ awaits'[d] = awaits[d]
    BY <1>1, <1>7 DEF AbortJob, Goto, TaskTypes
  <2>4. active'[c].status # "running"
    <3>1. SUFFICES ASSUME active[c].status = "running" PROVE active'[c].status = "cancelled"
      BY <2>2 DEF Ages, Ended
    <3>2. jobs[Child[c]] = c
      BY <1>1, <3>1 DEF OwnerInv, Mapped
    <3>3. c \in {jobs[j] : j \in {i \in {Child[c]} : Running(i)}}
      BY <3>1, <3>2, NobodyIsNoCall DEF Running
    <3>4. active'[c] = [active[c] EXCEPT !.status = "cancelled", !.pending = 0]
      BY <2>1, <3>3, Zenon DEF Cancel
    <3> QED
      BY <1>1, <3>4 DEF JobTypeOK
  <2> QED
    BY <2>1, <2>2, <2>3, <2>4, OwnersKept DEF Early
<1> QED
  BY <1>2, <1>3, <1>4, <1>5, <1>6, <1>7 DEF NewCall, CallStep

LEMMA OwnerRuns ==
  ASSUME JobInv, OwnerInv, NEW r \in Call, RunStep(r)
  PROVE  OwnerInv'
<1>1. \/ UNCHANGED <<jobs, active>>
      \/ Settle(r)
  BY DEF RunStep, Prompt, BeginRun, Answer, EndRun, Interrupt, InterruptRun, EndInterrupt, Drop, DropRun, SettleRun
<1>2. UNCHANGED taskVars
  BY DEF RunStep, Prompt, Answer, Interrupt, EndInterrupt, Drop, SettleRun
<1> QED
  BY <1>1, <1>2, Ageing, OwnersKept DEF taskVars, Early

LEMMA OwnerStops ==
  ASSUME JobInv, OwnerInv, NEW p \in Stopper, NEW s \in Session, StopJobs(p, s) \/ StopTurn(p, s)
  PROVE  OwnerInv'
<1>1. \/ InterruptTurn(s) /\ UNCHANGED jobVars
      \/ UNCHANGED taskVars /\ \E J \in SUBSET Job : Cancel(J)
  <2> DEFINE listed == IF stop[p].scope = "session" THEN {}
                       ELSE {j \in Job : Running(j) /\ (j = s \/ Parent[j] = s)}
  <2>1. listed \in SUBSET Job
    OBVIOUS
  <2> QED
    BY <2>1 DEF StopJobs, StopTurn
<1>2. jobs' = jobs /\ \A c \in Call : Ages(c)
  BY <1>1, Ageing
<1>3. CASE UNCHANGED taskVars
  BY <1>2, <1>3, OwnersKept DEF taskVars, Early
<1>4. CASE InterruptTurn(s) /\ UNCHANGED jobVars
  <2>1. UNCHANGED <<awaits, dropped, delivery, delivers, told, active>>
    BY <1>4 DEF InterruptTurn, jobVars
  <2>2. ASSUME NEW c \in Call
        PROVE  /\ Early(c)' => Early(c)
               /\ \/ pc'[c] = pc[c]
                  \/ /\ pc'[c] \notin {"waiting", "result", "failed"}
                     /\ active'[c].status = "running" /\ ~active'[c].background
                          => pc'[c] \in {"aborting", "stopping"}
    BY <1>4, <2>1, InterruptedCalls DEF OwnerInv, Answers, Early
  <2> QED
    BY <1>2, <2>1, <2>2, OwnersKept
<1> QED
  BY <1>1, <1>3, <1>4

LEMMA OwnerOthers ==
  ASSUME JobInv, OwnerInv,
         \/ \E c \in Call : Deliver(c)
         \/ \E s \in Session : TurnEnd(s)
         \/ \E j \in Job : PromoteJob(j)
         \/ \E k \in Client : ClientStopped(k) \/ \E scope \in {"session", "tree"} : ClientStop(k, scope)
         \/ UNCHANGED vars
  PROVE  OwnerInv'
<1>1. JobTypeOK /\ TaskTypes
  BY DEF JobInv, RegInv
<1>2. ASSUME UNCHANGED <<jobVars, taskVars>> PROVE OwnerInv'
  BY <1>2, Ageing, OwnersKept DEF taskVars, Early
<1>3. ASSUME NEW c \in Call, Deliver(c) PROVE OwnerInv'
  <2>1. /\ UNCHANGED <<jobs, active, pc, awaits, dropped, delivers>> /\ delivery[c] = "waiting"
        /\ active[delivers[c]].status \in Ended
        /\ delivery'[c] = "over" /\ told'[c] \in {told[c], delivers[c]}
        /\ \A d \in Call : d # c => delivery'[d] = delivery[d] /\ told'[d] = told[d]
    BY <1>1, <1>3 DEF Deliver, TaskTypes, jobVars
  <2>2. Mapped'
    BY <2>1 DEF OwnerInv, Mapped
  <2>3. ASSUME NEW d \in Call, d # c
        PROVE  Answers(d)' /\ Dropped(d)' /\ (d \notin dropped' => Own(d)')
    BY <2>1, <2>3 DEF OwnerInv, Answers, Dropped, Own, Early
  <2>4. Dropped(c)' /\ (c \in dropped => Answers(c)')
    BY <2>1 DEF OwnerInv, Dropped, Answers, Early
  <2>5. ASSUME c \notin dropped PROVE Answers(c)' /\ Own(c)'
    <3>1. Own(c) /\ Answers(c) /\ delivers[c] = c
      BY <2>1, <2>5 DEF OwnerInv, Own
    <3> QED
      BY <2>1, <3>1 DEF Own, Answers, Ended
  <2> QED
    BY <2>1, <2>2, <2>3, <2>4, <2>5 DEF OwnerInv
<1>4. ASSUME NEW j \in Job, PromoteJob(j) PROVE OwnerInv'
  <2>1. PICK t \in Call : t = jobs[j] /\ active[t].status = "running" /\ ~active[t].background
    BY <1>1, <1>4, NobodyIsNoCall DEF PromoteJob, Promote, Running, JobTypeOK
  <2>2. t \notin dropped /\ Own(t) /\ delivery[t] = "none"
    BY <2>1 DEF OwnerInv, Dropped, Own
  <2>3. /\ jobs' = jobs /\ UNCHANGED <<pc, awaits, dropped, told>>
        /\ active' = [active EXCEPT ![t].background = TRUE]
        /\ delivery' = [delivery EXCEPT ![t] = "waiting"] /\ delivers' = [delivers EXCEPT ![t] = t]
    BY <1>4, <2>1, <2>2 DEF PromoteJob, Promote, Notify
  <2>4. /\ active'[t].background /\ active'[t].status = "running"
        /\ delivery'[t] = "waiting" /\ delivers'[t] = t
        /\ \A d \in Call : d # t => /\ active'[d] = active[d] /\ delivery'[d] = delivery[d]
                                    /\ delivers'[d] = delivers[d]
    BY <1>1, <2>1, <2>3 DEF JobTypeOK, TaskTypes
  <2>5. Mapped'
    BY <2>1, <2>3, <2>4 DEF OwnerInv, Mapped
  <2>6. ASSUME NEW d \in Call, d # t
        PROVE  /\ Answers(d)' /\ Dropped(d)' /\ (d \notin dropped' => Own(d)')
               /\ active'[d].status = "none" => ~active'[d].background
    BY <2>3, <2>4, <2>6 DEF OwnerInv, Answers, Dropped, Own, Early
  <2>7. Answers(t)' /\ Dropped(t)' /\ Own(t)'
    <3>1. pc[t] \in {"waiting", "aborting", "stopping"}
      BY <2>1 DEF OwnerInv, Answers
    <3> QED
      BY <2>2, <2>3, <2>4, <3>1 DEF Answers, Dropped, Own
  <2> QED
    BY <2>4, <2>5, <2>6, <2>7 DEF OwnerInv
<1> QED
  BY <1>2, <1>3, <1>4 DEF TurnEnd, ClientStopped, ClientStop, vars

LEMMA OwnerInvariant == Spec => [](JobInv /\ OwnerInv)
<1>1. Init => JobInv /\ OwnerInv
  <2> SUFFICES ASSUME Init PROVE OwnerInv
    BY InitJobInv
  <2> QED
    BY DEF Init, JobInit, OwnerInv, Mapped, Answers, Dropped, Own, Ended
<1>2. JobInv /\ OwnerInv /\ [Next]_vars => (JobInv /\ OwnerInv)'
  <2> SUFFICES ASSUME JobInv, OwnerInv, [Next]_vars PROVE OwnerInv'
    BY StepJobInv
  <2> QED
    BY OwnerCalls, OwnerRuns, OwnerStops, OwnerOthers DEF Next, Progress, StopStep
<1> QED
  BY <1>1, <1>2, PTL DEF Spec

(* A session that has drained has no job running below it: the call that    *)
(* started the job holds it, in the foreground, in its abort or by its      *)
(* delivery (drain.ts, `execute`, `promote` and `notify` of task.ts).       *)
THEOREM DrainCovers == Spec => []DrainCoversJobs
<1>1. JobInv /\ OwnerInv => DrainCoversJobs
  <2> SUFFICES ASSUME JobInv, OwnerInv, NEW s \in Session, Drained(s),
                      NEW j \in Job, Running(j), s \in Above[Parent[j]]
               PROVE  FALSE
    BY DEF DrainCoversJobs
  <2>1. Parent[j] \in Session /\ jobs[j] \in Call
    BY TreeAssumption, NobodyIsNoCall DEF JobInv, RegInv, JobTypeOK, Running
  <2>2. Parent[j] \in Below[s]
    BY <2>1 DEF Below
  <2>3. Caller(jobs[j]) = Parent[j] /\ Answers(jobs[j]) /\ active[jobs[j]].status = "running"
    BY <2>1 DEF OwnerInv, Mapped, Caller, Running
  <2>4. Held(Parent[j])
    BY <2>1, <2>3 DEF Answers, Held, InProgress
  <2> QED
    BY <2>2, <2>4 DEF Drained
<1> QED
  BY <1>1, OwnerInvariant, PTL

(* A parent hears of a call's own job from the call, once: as its result or *)
(* by a delivery (`execute` and `notify` of task.ts).                       *)
THEOREM ParentToldOnce == Spec => []ToldOnce
<1>1. OwnerInv => ToldOnce
  BY DEF OwnerInv, Own, ToldOnce
<1> QED
  BY <1>1, OwnerInvariant, PTL

-----------------------------------------------------------------------------
\* The tree.

(* The sessions above s without recursion: what every set with s that is    *)
(* closed under parents has.                                                *)
Upward(S) == \A x \in S : x # Root => Parent[x] \in S

Line(s) == {d \in Session : \A S \in SUBSET Session : s \in S /\ Upward(S) => d \in S}

LEMMA LineUnfolds ==
  ASSUME NEW s \in Session
  PROVE  Line(s) = IF s = Root THEN {Root} ELSE {s} \cup Line(Parent[s])
<1>1. CASE s = Root
  <2>1. {Root} \in SUBSET Session /\ Upward({Root})
    BY DEF Session, Upward
  <2>2. Line(s) \subseteq {Root}
    BY <1>1, <2>1 DEF Line
  <2>3. Root \in Line(s)
    BY <1>1 DEF Line, Session
  <2> QED
    BY <1>1, <2>2, <2>3
<1>2. CASE s # Root
  <2>1. Parent[s] \in Session
    BY <1>2, TreeAssumption DEF Session
  <2> DEFINE T == {s} \cup Line(Parent[s])
  <2>2. T \in SUBSET Session /\ Parent[s] \in Line(Parent[s])
    BY <2>1 DEF Line
  <2>3. \A x \in Line(Parent[s]) : x # Root => Parent[x] \in Line(Parent[s])
    <3> SUFFICES ASSUME NEW x \in Line(Parent[s]), x # Root PROVE Parent[x] \in Line(Parent[s])
      OBVIOUS
    <3>1. Parent[x] \in Session
      BY TreeAssumption DEF Line, Session
    <3> QED
      BY <3>1 DEF Line, Upward
  <2>4. Upward(T)
    BY <2>2, <2>3 DEF Upward
  <2>5. Line(s) \subseteq T
    BY <2>2, <2>4 DEF Line
  <2>6. T \subseteq Line(s)
    <3>1. s \in Line(s)
      BY DEF Line
    <3>2. ASSUME NEW d \in Line(Parent[s]) PROVE d \in Line(s)
      BY <1>2, <2>1 DEF Line, Upward
    <3> QED
      BY <3>1, <3>2
  <2> QED
    BY <1>2, <2>5, <2>6
<1> QED
  BY <1>1, <1>2

(* So that there is a function that `Above` can be.                         *)
LEMMA AboveUnfolds ==
  \A s \in Session : Above[s] = IF s = Root THEN {Root} ELSE {s} \cup Above[Parent[s]]
<1> DEFINE Is(f) == f = [s \in Session |-> IF s = Root THEN {Root} ELSE {s} \cup f[Parent[s]]]
           line == [s \in Session |-> Line(s)]
<1>1. Is(line)
  <2>1. ASSUME NEW s \in Session
        PROVE  Line(s) = IF s = Root THEN {Root} ELSE {s} \cup line[Parent[s]]
    <3>1. s # Root => Parent[s] \in Session
      BY TreeAssumption DEF Session
    <3> QED
      BY <3>1, LineUnfolds
  <2> QED
    BY <2>1
<1>2. Above = CHOOSE f : Is(f)
  BY DEF Above
<1> HIDE DEF Is
<1>3. Is(Above)
  BY <1>1, <1>2
<1> QED
  BY <1>3 DEF Is

LEMMA BelowParent ==
  ASSUME NEW j \in Job, NEW d \in Below[j], d # j
  PROVE  d \in Job /\ Parent[d] \in Below[j]
<1>1. j \in Session /\ j # Root
  BY TreeAssumption DEF Session
<1>2. d \in Session /\ j \in Above[d]
  BY <1>1 DEF Below
<1>3. d # Root /\ j \in Above[Parent[d]]
  BY <1>1, <1>2, AboveUnfolds
<1>4. d \in Job /\ Parent[d] \in Session
  BY <1>2, <1>3, TreeAssumption DEF Session
<1> QED
  BY <1>1, <1>3, <1>4 DEF Below

-----------------------------------------------------------------------------
\* When a job is completed.

(* What keeps a session busy, a stop apart.                                 *)
Busy(s) ==
  \/ s \in turn
  \/ \E c \in Call : Caller(c) = s /\ (pc[c] \in InProgress \/ delivery[c] = "waiting")

Idle(j) == \A d \in Below[j] : ~Busy(d)

EndedRun(r, t) == run[r].token = t /\ run[r].phase \in {"ended", "over"}

RunningRun(r, t) == run[r].token = t /\ run[r].phase = "running"

(* The scope of an incarnation that has ended is closed, and only a closed  *)
(* scope stops a run.                                                       *)
ClosedInv ==
  /\ \A t \in Call : active[t].status \in Ended => t \in closed
  /\ \A r \in Call : run[r].phase = "stopping" => run[r].token \in closed

(* Once a run has come to its end and while no other is running, everything *)
(* below the session is idle.                                               *)
Rests(t) ==
  active[t].status = "running" =>
    /\ run[t].phase # "none" /\ run[t].token = t
    /\ (\E r \in Call : EndedRun(r, t)) /\ (\A r \in Call : ~RunningRun(r, t)) => Idle(Child[t])

(* A call that stops its child is stopping.                                 *)
CallStops == \A c \in Call : stop[<<"call", c>>].at = "on" => pc[c] = "stopping"

DrainInv == ClosedInv /\ CallStops /\ \A t \in Call : Rests(t)

(* An incarnation starts with a run that waits.                             *)
Begun(t) ==
  /\ run'[t].phase # "none" /\ run'[t].token = t
  /\ \A r \in Call : run'[r].token = t => run'[r].phase \in {"none", "queued"}

RunsGoOn ==
  /\ \A t \in Call : active'[t].status = "running" => active[t].status = "running" \/ Begun(t)
  /\ \A r \in Call :
       /\ run[r].phase # "none" => run'[r].phase # "none" /\ run'[r].token = run[r].token
       /\ run[r].phase = "running" /\ active[run[r].token].status = "running" => run'[r].phase = "running"
       /\ run'[r].phase \in {"ended", "over"} /\ active'[run'[r].token].status = "running"
            => run[r].phase \in {"ended", "over"}

(* Steps that make no session busy and let the runs go on.                  *)
LEMMA RestsKept ==
  ASSUME JobInv, DrainInv, ClosedInv', CallStops', RunsGoOn, \A s \in Session : Busy(s)' => Busy(s)
  PROVE  DrainInv'
<1> SUFFICES ASSUME NEW t \in Call, active'[t].status = "running" PROVE Rests(t)'
  BY DEF DrainInv, Rests
<1>1. CASE Begun(t)
  BY <1>1 DEF Begun, Rests, EndedRun
<1>2. CASE active[t].status = "running"
  <2>1. /\ run[t].phase # "none" /\ run[t].token = t
        /\ (\E r \in Call : EndedRun(r, t)) /\ (\A r \in Call : ~RunningRun(r, t)) => Idle(Child[t])
    BY <1>2 DEF DrainInv, Rests
  <2>2. run'[t].phase # "none" /\ run'[t].token = t
    BY <2>1 DEF RunsGoOn
  <2>3. ASSUME \E r \in Call : EndedRun(r, t)', \A r \in Call : ~RunningRun(r, t)'
        PROVE  Idle(Child[t])'
    <3>1. \E r \in Call : EndedRun(r, t)
      BY <2>3 DEF EndedRun, RunsGoOn
    <3>2. \A r \in Call : ~RunningRun(r, t)
      BY <1>2, <2>3 DEF RunningRun, RunsGoOn
    <3>3. Below[Child[t]] \subseteq Session
      BY CallerType, BelowType DEF Session
    <3> QED
      BY <2>1, <3>1, <3>2, <3>3 DEF Idle
  <2> QED
    BY <2>2, <2>3 DEF Rests
<1> QED
  BY <1>1, <1>2 DEF RunsGoOn

(* The operations of the registry, but for those of `Prompt` and `Answer`.  *)
LEMMA RegistryGoesOn ==
  ASSUME JobInv, ClosedInv,
         \/ UNCHANGED jobVars
         \/ \E c \in Call, j \in Job, b \in BOOLEAN : Fresh(c) /\ StartNew(c, j, b)
         \/ \E c \in Call, j \in Job : Fresh(c) /\ Extend(c, j)
         \/ \E j \in Job : Promote(j)
         \/ \E J \in SUBSET Job : Cancel(J)
         \/ \E r \in Call : DropRun(r) \/ InterruptRun(r) \/ Settle(r)
         \/ \E r \in Call : run[r].phase = "stopping" /\ EndRun(r, "interrupted")
  PROVE  ClosedInv' /\ RunsGoOn
<1>1. /\ JobTypeOK /\ ClosedEnded
      /\ \A t \in closed : active[t].status # "running"
      /\ \A r \in Call : Belongs(r)
  BY DEF JobInv, RegInv, ClosedEnded, Ended
<1>2. CASE UNCHANGED jobVars
  BY <1>2 DEF jobVars, ClosedInv, RunsGoOn
<1>3. ASSUME NEW c \in Call, NEW j \in Job, NEW b \in BOOLEAN, Fresh(c), StartNew(c, j, b)
      PROVE  ClosedInv' /\ RunsGoOn
  <2>1. /\ \A t \in Call : t # c => active'[t] = active[t] /\ run'[t] = run[t]
        /\ active'[c].status = "running" /\ run'[c].phase = "queued" /\ run'[c].token = c
        /\ closed' = closed
    BY <1>1, <1>3 DEF StartNew, RunOf, JobTypeOK
  <2>2. \A r \in Call : run[r].phase # "none" => run[r].token # c
    BY <1>1, <1>3 DEF Fresh, Belongs
  <2>3. ClosedInv'
    BY <2>1 DEF ClosedInv, Ended
  <2>4. Begun(c)
    BY <1>1, <2>1, <2>2 DEF Begun, JobTypeOK, RunPhases
  <2> QED
    BY <1>3, <2>1, <2>2, <2>3, <2>4 DEF RunsGoOn, Fresh
<1>4. ASSUME NEW c \in Call, NEW j \in Job, Fresh(c), Extend(c, j)
      PROVE  ClosedInv' /\ RunsGoOn
  <2> DEFINE t == jobs[j]
  <2>1. t \in Call /\ closed' = closed
    BY <1>1, <1>4, NobodyIsNoCall DEF Extend, Running, JobTypeOK
  <2>2. /\ active' = [active EXCEPT ![t].pending = @ + 1, ![t].next = @ + 1, ![t].tail = c]
        /\ run' = [run EXCEPT ![c] = RunOf(j, t, active[t].next, active[t].tail)]
    BY <1>4 DEF Extend
  <2> HIDE DEF t
  <2>3. \A d \in Call : active'[d].status = active[d].status
    BY <1>1, <2>1, <2>2 DEF JobTypeOK
  <2>4. /\ \A d \in Call : d # c => run'[d] = run[d]
        /\ run'[c].phase = "queued" /\ run[c].phase = "none"
    BY <1>1, <1>4, <2>2 DEF RunOf, JobTypeOK, Fresh
  <2> QED
    BY <2>1, <2>3, <2>4 DEF RunsGoOn, ClosedInv
<1>5. ASSUME NEW j \in Job, Promote(j) PROVE ClosedInv' /\ RunsGoOn
  <2>1. /\ run' = run /\ closed' = closed
        /\ \A t \in Call : active'[t].status = active[t].status
    BY <1>1, <1>5 DEF Promote, JobTypeOK
  <2> QED
    BY <2>1 DEF RunsGoOn, ClosedInv
<1>6. ASSUME NEW J \in SUBSET Job, Cancel(J) PROVE ClosedInv' /\ RunsGoOn
  <2> DEFINE ts == {jobs[j] : j \in {i \in J : Running(i)}}
  <2>1. run' = run /\ closed' = closed \cup ts
    BY <1>6 DEF Cancel
  <2>2. \A t \in Call : active'[t] = IF t \in ts THEN [active[t] EXCEPT !.status = "cancelled", !.pending = 0]
                                     ELSE active[t]
    BY <1>6, Zenon DEF Cancel
  <2> HIDE DEF ts
  <2>3. \A t \in Call : \/ active'[t].status = active[t].status
                        \/ active'[t].status = "cancelled" /\ t \in ts
    BY <1>1, <2>2 DEF JobTypeOK
  <2> QED
    BY <2>1, <2>3 DEF RunsGoOn, ClosedInv
<1>7. ASSUME NEW r \in Call,
             \/ DropRun(r) \/ InterruptRun(r)
             \/ run[r].phase = "stopping" /\ EndRun(r, "interrupted")
      PROVE  ClosedInv' /\ RunsGoOn
  <2>1. /\ \A q \in Call : q # r => run'[q] = run[q]
        /\ run'[r].token = run[r].token /\ run'[r].phase # "none"
        /\ active' = active /\ closed' = closed /\ run[r].token \in closed
    BY <1>1, <1>7 DEF DropRun, InterruptRun, EndRun, Interrupted, JobTypeOK, ClosedInv
  <2> QED
    BY <1>1, <2>1 DEF RunsGoOn, ClosedInv
<1>8. ASSUME NEW r \in Call, Settle(r) PROVE ClosedInv' /\ RunsGoOn
  <2>1. /\ \A q \in Call : q # r => run'[q] = run[q]
        /\ run'[r].token = run[r].token /\ run'[r].phase = "over" /\ run[r].phase = "ended"
        /\ closed \subseteq closed'
    BY <1>1, <1>8 DEF Settle, JobTypeOK
  <2>2. \A t \in Call : \/ active'[t].status = active[t].status
                        \/ active[t].status = "running" /\ (active'[t].status = "running" \/ t \in closed')
    <3>1. CASE UNCHANGED active
      BY <3>1
    <3>2. CASE /\ IsCurrent(r) /\ active[jobs[run[r].job]].status = "running"
               /\ active' = [active EXCEPT ![jobs[run[r].job]] = AfterRun(r, active[jobs[run[r].job]])]
               /\ closed' = IF AfterRun(r, active[jobs[run[r].job]]).status = "running" THEN closed
                            ELSE closed \cup {jobs[run[r].job]}
      <4> DEFINE t == jobs[run[r].job]
                 a == AfterRun(r, active[t])
      <4>1. t \in Call /\ active[t].status = "running"
        BY <1>1, <3>2 DEF IsCurrent, JobTypeOK
      <4>2. /\ active' = [active EXCEPT ![t] = a]
            /\ closed' = IF a.status = "running" THEN closed ELSE closed \cup {t}
        BY <3>2
      <4> HIDE DEF t, a
      <4> QED
        BY <1>1, <4>1, <4>2 DEF JobTypeOK
    <3> QED
      BY <1>8, <3>1, <3>2 DEF Settle
  <2> QED
    BY <2>1, <2>2 DEF RunsGoOn, ClosedInv
<1> QED
  BY <1>2, <1>3, <1>4, <1>5, <1>6, <1>7, <1>8

LEMMA CallStopsKept ==
  ASSUME JobInv, CallStops, [Next]_vars
  PROVE  CallStops'
<1>1. TaskTypes /\ stop \in [Stopper -> Stops] /\ (stop \in [Stopper -> Stops])'
  BY StepJobInv DEF JobInv
<1>2. \A c, d \in Call : <<"call", c>> \in Stopper /\ (c # d => <<"call", c>> # <<"call", d>>)
  BY DEF Stopper
<1>3. \A c \in Call : \A k : <<"call", c>> # <<"client", k>> /\ <<"call", c>> # <<"run", k>>
  OBVIOUS
<1>4. ASSUME stop' = stop, \A c \in Call : pc[c] = "stopping" => pc'[c] = "stopping"
      PROVE  CallStops'
  BY <1>4 DEF CallStops
<1>5. ASSUME NEW c \in Call, NewCall(c) PROVE CallStops'
  BY <1>1, <1>4, <1>5 DEF NewCall, Update, StartBackground, FindNothing, MayCall, Goto, TaskTypes
<1>6. ASSUME NEW c \in Call, StartForeground(c) \/ GoBackground(c) \/ Return(c) \/ Aborted(c)
      PROVE  CallStops'
  BY <1>1, <1>4, <1>6 DEF StartForeground, GoBackground, Return, Aborted, Goto, TaskTypes
<1>7. ASSUME NEW c \in Call, Abort(c) PROVE CallStops'
  <2>1. CASE Goto(c, "stopping") /\ BeginStop(<<"call", c>>, Child[c], "tree")
    <3>1. pc'[c] = "stopping" /\ \A d \in Call : d # c => pc'[d] = pc[d]
      BY <1>1, <2>1 DEF Goto, TaskTypes
    <3>2. \A d \in Call : d # c => stop'[<<"call", d>>] = stop[<<"call", d>>]
      BY <1>1, <1>2, <2>1 DEF BeginStop
    <3> QED
      BY <3>1, <3>2 DEF CallStops
  <2>2. CASE Goto(c, "aborted") /\ UNCHANGED <<stop, paused>>
    BY <1>1, <1>4, <1>7, <2>2 DEF Abort, Goto, TaskTypes
  <2> QED
    BY <1>7, <2>1, <2>2 DEF Abort
<1>8. ASSUME NEW c \in Call, AbortJob(c) PROVE CallStops'
  <2>1. stop'[<<"call", c>>].at = "over" /\ \A d \in Call : d # c => stop'[<<"call", d>>] = stop[<<"call", d>>]
    BY <1>1, <1>2, <1>8, EndStopType DEF AbortJob
  <2>2. \A d \in Call : d # c => pc'[d] = pc[d]
    BY <1>1, <1>8 DEF AbortJob, Goto, TaskTypes
  <2> QED
    BY <2>1, <2>2 DEF CallStops
<1>9. ASSUME pc' = pc, \A c \in Call : stop'[<<"call", c>>].at = "on" => stop[<<"call", c>>].at = "on"
      PROVE  CallStops'
  BY <1>9 DEF CallStops
<1>10. ASSUME NEW r \in Call, RunStep(r) PROVE CallStops'
  <2>1. \/ stop' = stop
        \/ BeginStop(<<"run", r>>, run[r].job, "tree")
        \/ EndStop(<<"run", r>>)
    BY <1>10 DEF RunStep, Prompt, Answer, Interrupt, EndInterrupt, Drop, SettleRun
  <2>2. \A c \in Call : stop'[<<"call", c>>] = stop[<<"call", c>>]
    BY <1>1, <1>2, <1>3, <2>1 DEF BeginStop, EndStop, AllStopped
  <2>3. pc' = pc
    BY <1>10 DEF RunStep, Prompt, Answer, Interrupt, EndInterrupt, Drop, SettleRun, taskVars
  <2> QED
    BY <1>9, <2>2, <2>3
<1>11. ASSUME NEW p \in Stopper, NEW s \in Session, StopJobs(p, s) \/ StopTurn(p, s)
       PROVE  CallStops'
  <2>1. stop[p] \in Stops
    BY <1>1
  <2>2. \A q \in Stopper : stop'[q].at = stop[q].at
    <3>1. \A q \in Stopper : q # p => stop'[q] = stop[q]
      BY <1>1, <1>11 DEF StopJobs, StopTurn
    <3>2. stop'[p].at = stop[p].at
      BY <1>1, <1>11, <2>1 DEF StopJobs, StopTurn, Stops
    <3> QED
      BY <3>1, <3>2
  <2>3. InterruptTurn(s) \/ pc' = pc
    BY <1>11 DEF StopJobs, StopTurn, taskVars
  <2>4. \A c \in Call : pc[c] = "stopping" => pc'[c] = "stopping"
    BY <2>3, InterruptedCalls
  <2> QED
    BY <1>2, <2>2, <2>4 DEF CallStops
<1>12. ASSUME NEW k \in Client, ClientStopped(k) \/ \E scope \in {"session", "tree"} : ClientStop(k, scope)
       PROVE  CallStops'
  <2>1. \A c \in Call : stop'[<<"call", c>>] = stop[<<"call", c>>]
    BY <1>1, <1>2, <1>3, <1>12 DEF ClientStopped, ClientStop, BeginStop, EndStop, AllStopped
  <2>2. pc' = pc
    BY <1>12 DEF ClientStopped, ClientStop, taskVars
  <2> QED
    BY <1>9, <2>1, <2>2
<1>13. ASSUME \/ \E c \in Call : Deliver(c)
              \/ \E s \in Session : TurnEnd(s)
              \/ \E j \in Job : PromoteJob(j)
              \/ UNCHANGED vars
       PROVE  CallStops'
  BY <1>4, <1>13 DEF Deliver, TurnEnd, PromoteJob, vars, taskVars
<1> QED
  BY <1>5, <1>6, <1>7, <1>8, <1>10, <1>11, <1>12, <1>13
     DEF Next, Progress, CallStep, StopStep

(* A call that is under way, or whose result is still to be delivered.      *)
Pending(c) == pc[c] \in InProgress \/ delivery[c] = "waiting"

LEMMA BusyFrom ==
  ASSUME \A s \in turn' : Busy(s), \A c \in Call : Pending(c)' => Busy(Caller(c))
  PROVE  \A s \in Session : Busy(s)' => Busy(s)
BY DEF Busy, Pending, Caller

(* Only a prompt of its own makes an idle session busy.                     *)
LEMMA BusyKept ==
  ASSUME JobInv, OwnerInv, CallStops, [Next]_vars, \A r \in Call : ~Prompt(r)
  PROVE  \A s \in Session : Busy(s)' => Busy(s)
<1>1. JobTypeOK /\ TaskTypes /\ stop \in [Stopper -> Stops]
  BY DEF JobInv, RegInv
<1>2. /\ \A s \in turn : Busy(s)
      /\ \A c \in Call : Pending(c) => Busy(Caller(c))
  BY DEF Busy, Pending
<1>3. ASSUME NEW c \in Call, turn' = turn, Pending(c) \/ Caller(c) \in turn,
             \A d \in Call : d # c => pc'[d] = pc[d] /\ delivery'[d] = delivery[d]
      PROVE  \A s \in Session : Busy(s)' => Busy(s)
  <2>1. \A d \in Call : Pending(d)' => Busy(Caller(d))
    BY <1>2, <1>3 DEF Pending
  <2> QED
    BY <1>2, <1>3, <2>1, BusyFrom
<1>4. ASSUME turn' \subseteq turn, \A c \in Call : Pending(c)' => Pending(c)
      PROVE  \A s \in Session : Busy(s)' => Busy(s)
  BY <1>2, <1>4, BusyFrom
<1>5. ASSUME NEW c \in Call, NewCall(c)
      PROVE  \A s \in Session : Busy(s)' => Busy(s)
  <2>1. Caller(c) \in turn /\ turn' = turn
    BY <1>5 DEF NewCall, Update, StartBackground, FindNothing, MayCall, sessionVars
  <2>2. \A d \in Call : d # c => pc'[d] = pc[d] /\ delivery'[d] = delivery[d]
    BY <1>1, <1>5 DEF NewCall, Update, StartBackground, FindNothing, Goto, Notify, TaskTypes
  <2> QED
    BY <1>3, <2>1, <2>2
<1>6. ASSUME NEW c \in Call, CallStep(c)
      PROVE  \A s \in Session : Busy(s)' => Busy(s)
  <2>1. pc[c] \in InProgress
    <3>1. CASE AbortJob(c)
      <4>1. stop[<<"call", c>>].at = "on"
        BY <3>1 DEF AbortJob, EndStop, AllStopped
      <4> QED
        BY <4>1 DEF CallStops, InProgress
    <3> QED
      BY <1>6, <3>1 DEF CallStep, StartForeground, GoBackground, Return, Abort, Aborted, InProgress
  <2>2. turn' = turn
    BY <1>6 DEF CallStep, StartForeground, GoBackground, Return, Abort, AbortJob, Aborted, sessionVars
  <2>3. \A d \in Call : d # c => pc'[d] = pc[d] /\ delivery'[d] = delivery[d]
    BY <1>1, <1>6 DEF CallStep, StartForeground, GoBackground, Return, Abort, AbortJob, Aborted,
                      Goto, Notify, TaskTypes
  <2> QED
    BY <1>3, <2>1, <2>2, <2>3 DEF Pending
<1>7. ASSUME NEW r \in Call, RunStep(r)
      PROVE  \A s \in Session : Busy(s)' => Busy(s)
  <2>1. turn' = turn /\ pc' = pc /\ delivery' = delivery
    BY <1>7 DEF RunStep, Answer, Interrupt, EndInterrupt, Drop, SettleRun, taskVars, sessionVars
  <2> QED
    BY <1>4, <2>1 DEF Pending
<1>8. ASSUME NEW c \in Call, Deliver(c)
      PROVE  \A s \in Session : Busy(s)' => Busy(s)
  <2>1. /\ turn' \subseteq turn \cup {Caller(c)} /\ delivery[c] = "waiting"
        /\ pc' = pc /\ \A d \in Call : delivery'[d] = "waiting" => delivery[d] = "waiting"
    BY <1>1, <1>8 DEF Deliver, TaskTypes
  <2>2. \A s \in turn' : Busy(s)
    BY <1>2, <2>1 DEF Pending
  <2>3. \A d \in Call : Pending(d)' => Busy(Caller(d))
    BY <1>2, <2>1 DEF Pending
  <2> QED
    BY <2>2, <2>3, BusyFrom
<1>9. ASSUME NEW j \in Job, PromoteJob(j)
      PROVE  \A s \in Session : Busy(s)' => Busy(s)
  <2>1. PICK t \in Call : t = jobs[j] /\ active[t].status = "running" /\ ~active[t].background
    BY <1>1, <1>9, NobodyIsNoCall DEF PromoteJob, Promote, Running, JobTypeOK
  <2>2. Pending(t)
    BY <2>1 DEF OwnerInv, Answers, Pending, InProgress
  <2>3. turn' = turn /\ pc' = pc /\ \A d \in Call : d # t => delivery'[d] = delivery[d]
    BY <1>1, <1>9, <2>1 DEF PromoteJob, Notify, sessionVars, TaskTypes
  <2> QED
    BY <1>3, <2>2, <2>3
<1>10. ASSUME NEW p \in Stopper, NEW s \in Session, StopJobs(p, s) \/ StopTurn(p, s)
       PROVE  \A x \in Session : Busy(x)' => Busy(x)
  <2>1. CASE InterruptTurn(s)
    <3>1. turn' \subseteq turn /\ delivery' = delivery
      BY <2>1 DEF InterruptTurn
    <3>2. \A c \in Call : Pending(c)' => Pending(c)
      BY <2>1, <3>1, InterruptedCalls DEF Pending, InProgress
    <3> QED
      BY <1>4, <3>1, <3>2
  <2>2. CASE UNCHANGED <<taskVars, sessionVars>>
    BY <1>4, <2>2 DEF taskVars, sessionVars, Pending
  <2> QED
    BY <1>10, <2>1, <2>2 DEF StopJobs, StopTurn
<1>11. ASSUME \/ \E s \in Session : TurnEnd(s)
              \/ \E k \in Client : ClientStopped(k) \/ \E scope \in {"session", "tree"} : ClientStop(k, scope)
              \/ UNCHANGED vars
       PROVE  \A s \in Session : Busy(s)' => Busy(s)
  <2>1. turn' \subseteq turn /\ pc' = pc /\ delivery' = delivery
    BY <1>11 DEF TurnEnd, ClientStopped, ClientStop, vars, taskVars, sessionVars
  <2> QED
    BY <1>4, <2>1 DEF Pending
<1> QED
  BY <1>5, <1>6, <1>7, <1>8, <1>9, <1>10, <1>11 DEF Next, Progress, StopStep

(* A run that is prompted belongs to a job that its call answers for, so    *)
(* that what is above the child is busy.                                    *)
LEMMA PromptDrain ==
  ASSUME JobInv, OwnerInv, DrainInv, NEW r \in Call, Prompt(r)
  PROVE  DrainInv'
<1> DEFINE t0 == run[r].token
<1>1. JobTypeOK /\ TaskTypes /\ Belongs(r) /\ ClosedInv
  BY DEF JobInv, RegInv, DrainInv
<1>2. /\ active' = active /\ jobs' = jobs /\ closed' = closed /\ UNCHANGED taskVars /\ stop' = stop
      /\ run' = [run EXCEPT ![r].phase = "running"]
      /\ run[r].phase = "queued" /\ t0 \notin closed
      /\ turn' = turn \cup {run[r].job}
  BY DEF Prompt, BeginRun
<1>3. /\ \A q \in Call : q # r => run'[q] = run[q]
      /\ run'[r].phase = "running" /\ run'[r].token = t0 /\ t0 \in Call
  BY <1>1, <1>2 DEF JobTypeOK
<1>4. active[t0].status = "running" /\ run[r].job \in Job /\ jobs[run[r].job] = t0
  BY <1>1, <1>2, <1>3 DEF Belongs, ClosedInv, JobTypeOK
<1>5. run[r].job = Child[t0]
  BY <1>3, <1>4, NobodyIsNoCall DEF OwnerInv, Mapped
<1>6. Busy(Parent[Child[t0]])
  BY <1>3, <1>4 DEF OwnerInv, Answers, Busy, Caller, InProgress
<1>7. ClosedInv' /\ CallStops'
  BY <1>1, <1>2, <1>3 DEF ClosedInv, CallStops, DrainInv, taskVars
<1> HIDE DEF t0
<1>8. ASSUME NEW t \in Call, active[t].status = "running" PROVE Rests(t)'
  <2>1. Rests(t) /\ run[t].phase # "none" /\ run[t].token = t
    BY <1>8 DEF DrainInv, Rests
  <2>2. run'[t].phase # "none" /\ run'[t].token = t
    BY <1>3, <2>1 DEF t0
  <2>3. CASE t = t0
    <3>1. RunningRun(r, t)'
      BY <1>3, <2>3 DEF RunningRun
    <3> QED
      BY <2>2, <3>1 DEF Rests
  <2>4. CASE t # t0
    <3>1. ASSUME \E q \in Call : EndedRun(q, t)', \A q \in Call : ~RunningRun(q, t)'
          PROVE  Idle(Child[t])'
      <4>1. \E q \in Call : EndedRun(q, t)
        BY <1>3, <2>4, <3>1 DEF EndedRun
      <4>2. \A q \in Call : ~RunningRun(q, t)
        BY <1>2, <1>3, <3>1 DEF RunningRun
      <4>3. Idle(Child[t])
        BY <1>8, <2>1, <4>1, <4>2 DEF Rests
      <4>4. Child[t0] # Child[t]
        BY <1>3, <1>4, <1>8, <2>4 DEF OwnerInv, Mapped
      <4>5. Child[t0] \notin Below[Child[t]]
        BY <1>6, <4>3, <4>4, CallerType, BelowParent DEF Idle
      <4>6. \A d \in Below[Child[t]] : ~Busy(d)'
        BY <1>2, <1>5, <4>3, <4>5 DEF Idle, Busy, taskVars
      <4> QED
        BY <4>6 DEF Idle
    <3> QED
      BY <2>2, <3>1 DEF Rests
  <2> QED
    BY <2>3, <2>4
<1> QED
  BY <1>2, <1>7, <1>8 DEF DrainInv, Rests

(* A run that answers has seen its child drain.                             *)
LEMMA AnswerDrain ==
  ASSUME JobInv, OwnerInv, DrainInv, NEW r \in Call, NEW x \in Exits, Answer(r, x)
  PROVE  DrainInv'
<1> DEFINE t0 == run[r].token
<1>1. JobTypeOK /\ Belongs(r) /\ ClosedInv
  BY DEF JobInv, RegInv, DrainInv
<1>2. /\ active' = active /\ closed' = closed /\ UNCHANGED <<taskVars, sessionVars>> /\ stop' = stop
      /\ run' = [run EXCEPT ![r].phase = "ended", ![r].exit = x]
      /\ run[r].phase = "running" /\ Drained(run[r].job)
  BY DEF Answer, EndRun
<1>3. /\ \A q \in Call : q # r => run'[q] = run[q]
      /\ run'[r].phase = "ended" /\ run'[r].token = t0 /\ t0 \in Call
  BY <1>1, <1>2 DEF JobTypeOK
<1> HIDE DEF t0
<1>4. ClosedInv' /\ CallStops'
  <2>1. \A q \in Call : run'[q].phase = "stopping" => run[q].phase = "stopping" /\ run'[q] = run[q]
    BY <1>3
  <2>2. ClosedInv'
    <3>1. active' = active /\ closed' = closed
      BY <1>2
    <3> QED
      BY <1>1, <2>1, <3>1 DEF ClosedInv
  <2>3. CallStops'
    BY <1>2 DEF CallStops, DrainInv, taskVars
  <2> QED
    BY <2>2, <2>3
<1>5. ASSUME NEW t \in Call, active[t].status = "running" PROVE Rests(t)'
  <2>1. Rests(t) /\ run[t].phase # "none" /\ run[t].token = t
    BY <1>5 DEF DrainInv, Rests
  <2>2. run'[t].phase # "none" /\ run'[t].token = t
    BY <1>3, <2>1 DEF t0
  <2>3. ASSUME Idle(Child[t]) PROVE Idle(Child[t])'
    BY <1>2, <2>3 DEF Idle, Busy, taskVars, sessionVars
  <2>4. CASE t = t0
    <3>1. jobs[run[r].job] = t /\ run[r].job \in Job
      BY <1>1, <1>2, <1>5, <2>4 DEF Belongs, t0
    <3>2. run[r].job = Child[t]
      BY <3>1, NobodyIsNoCall DEF OwnerInv, Mapped
    <3>3. Idle(Child[t])
      BY <1>2, <3>2 DEF Drained, Held, Idle, Busy
    <3> QED
      BY <2>2, <2>3, <3>3 DEF Rests
  <2>5. CASE t # t0
    <3>1. (\E q \in Call : EndedRun(q, t)') => \E q \in Call : EndedRun(q, t)
      BY <1>3, <2>5 DEF EndedRun
    <3>2. (\A q \in Call : ~RunningRun(q, t)') => \A q \in Call : ~RunningRun(q, t)
      BY <1>3, <2>5 DEF RunningRun, t0
    <3> QED
      BY <1>5, <2>1, <2>2, <2>3, <3>1, <3>2 DEF Rests
  <2> QED
    BY <2>4, <2>5
<1> QED
  BY <1>2, <1>4, <1>5 DEF DrainInv, Rests

LEMMA StepDrain ==
  ASSUME JobInv, OwnerInv, DrainInv, [Next]_vars
  PROVE  DrainInv'
<1>1. CASE \E r \in Call : Prompt(r)
  BY <1>1, PromptDrain
<1>2. ASSUME NEW r \in Call, NEW x \in {"text", "empty", "failed"}, Answer(r, x) PROVE DrainInv'
  BY <1>2, AnswerDrain DEF Exits
<1>3. ASSUME ClosedInv', RunsGoOn, \A r \in Call : ~Prompt(r) PROVE DrainInv'
  BY <1>3, BusyKept, RestsKept, CallStopsKept DEF DrainInv
<1>4. CASE /\ \A r \in Call : ~Prompt(r)
           /\ \A r \in Call, x \in {"text", "empty", "failed"} : ~Answer(r, x)
  <2> SUFFICES ClosedInv' /\ RunsGoOn
    BY <1>3, <1>4
  <2>1. ClosedInv /\ \A c \in Call : (Early(c) => Fresh(c)) /\ Stopping(c) /\ Child[c] \in Job
    BY CallerType DEF DrainInv, JobInv
  <2>2. ASSUME UNCHANGED jobVars PROVE ClosedInv' /\ RunsGoOn
    BY <2>1, <2>2, RegistryGoesOn
  <2>3. ASSUME NEW c \in Call, NewCall(c) PROVE ClosedInv' /\ RunsGoOn
    <3>1. Fresh(c)
      BY <2>1, <2>3 DEF NewCall, Update, StartBackground, FindNothing, MayCall, Early
    <3>2. \/ UNCHANGED jobVars
          \/ Extend(c, Child[c])
          \/ StartNew(c, Child[c], TRUE)
      BY <2>3 DEF NewCall, Update, StartBackground, FindNothing
    <3> QED
      BY <2>1, <3>1, <3>2, RegistryGoesOn
  <2>4. ASSUME NEW c \in Call, StartForeground(c) PROVE ClosedInv' /\ RunsGoOn
    <3>1. Fresh(c)
      BY <2>1, <2>4 DEF StartForeground, Early
    <3>2. UNCHANGED jobVars \/ StartNew(c, Child[c], FALSE)
      BY <2>4 DEF StartForeground, StartKnown
    <3> QED
      BY <2>1, <3>1, <3>2, RegistryGoesOn
  <2>5. ASSUME NEW c \in Call, AbortJob(c) PROVE ClosedInv' /\ RunsGoOn
    <3>1. Cancel({Child[c]}) /\ {Child[c]} \in SUBSET Job
      BY <2>1, <2>5 DEF AbortJob
    <3> QED
      BY <2>1, <3>1, RegistryGoesOn
  <2>6. ASSUME NEW c \in Call, GoBackground(c) \/ Return(c) \/ Abort(c) \/ Aborted(c)
        PROVE  ClosedInv' /\ RunsGoOn
    BY <2>2, <2>6 DEF GoBackground, Return, Abort, Aborted
  <2>7. ASSUME NEW r \in Call, EndInterrupt(r) PROVE ClosedInv' /\ RunsGoOn
    <3>1. run[r].phase = "stopping" /\ EndRun(r, "interrupted")
      BY <2>1, <2>7 DEF EndInterrupt, EndStop, AllStopped, Stopping
    <3> QED
      BY <2>1, <3>1, RegistryGoesOn
  <2>8. ASSUME NEW r \in Call, Interrupt(r) \/ Drop(r) \/ SettleRun(r) PROVE ClosedInv' /\ RunsGoOn
    <3>1. DropRun(r) \/ InterruptRun(r) \/ Settle(r)
      BY <2>8 DEF Interrupt, Drop, SettleRun
    <3> QED
      BY <2>1, <3>1, RegistryGoesOn
  <2>9. ASSUME NEW p \in Stopper, NEW s \in Session, StopJobs(p, s) \/ StopTurn(p, s)
        PROVE  ClosedInv' /\ RunsGoOn
    <3> DEFINE listed == IF stop[p].scope = "session" THEN {}
                         ELSE {j \in Job : Running(j) /\ (j = s \/ Parent[j] = s)}
    <3>1. listed \in SUBSET Job
      OBVIOUS
    <3>2. UNCHANGED jobVars \/ Cancel(listed)
      BY <2>9 DEF StopJobs, StopTurn
    <3> QED
      BY <2>1, <3>1, <3>2, RegistryGoesOn
  <2>10. ASSUME NEW j \in Job, PromoteJob(j) PROVE ClosedInv' /\ RunsGoOn
    <3>1. Promote(j)
      BY <2>10 DEF PromoteJob
    <3> QED
      BY <2>1, <3>1, RegistryGoesOn
  <2>11. ASSUME \/ \E c \in Call : Deliver(c)
                \/ \E s \in Session : TurnEnd(s)
                \/ \E k \in Client : ClientStopped(k) \/ \E scope \in {"session", "tree"} : ClientStop(k, scope)
                \/ UNCHANGED vars
         PROVE  ClosedInv' /\ RunsGoOn
    BY <2>2, <2>11 DEF Deliver, TurnEnd, ClientStopped, ClientStop, vars
  <2> QED
    BY <1>4, <2>3, <2>4, <2>5, <2>6, <2>7, <2>8, <2>9, <2>10, <2>11
       DEF Next, Progress, CallStep, RunStep, StopStep
<1> QED
  BY <1>1, <1>2, <1>4

LEMMA DrainInvariant == Spec => [](JobInv /\ OwnerInv /\ DrainInv)
<1>1. Init => DrainInv
  BY DEF Init, JobInit, DrainInv, ClosedInv, CallStops, Rests, Ended, NoStop, Stopper
<1>2. JobInv /\ OwnerInv /\ DrainInv /\ [Next]_vars => DrainInv'
  BY StepDrain
<1> QED
  BY <1>1, <1>2, OwnerInvariant, PTL DEF Spec

(* The settlement that completes a job is that of its last run, which has   *)
(* seen everything below the session drain, and no prompt has come since.   *)
LEMMA StepCompletes ==
  ASSUME JobInv, OwnerInv, DrainInv, [Next]_vars,
         NEW t \in Call, active[t].status = "running", active'[t].status = "completed"
  PROVE  ~Outstanding(run[t].job)
<1>1. JobTypeOK /\ Counts(t) /\ Belongs(t) /\ Rests(t)
  BY DEF JobInv, RegInv, DrainInv
<1>2. \/ \E r \in Call : Settle(r)
      \/ UNCHANGED active
      \/ \E c \in Call, b \in BOOLEAN : StartNew(c, Child[c], b)
      \/ \E c \in Call : Extend(c, Child[c])
      \/ \E j \in Job : Promote(j)
      \/ \E J \in SUBSET Job : Cancel(J)
  <2>1. ASSUME NEW c \in Call, NewCall(c)
        PROVE  StartNew(c, Child[c], TRUE) \/ Extend(c, Child[c]) \/ UNCHANGED active
    BY <2>1 DEF NewCall, Update, StartBackground, FindNothing, jobVars
  <2>2. ASSUME NEW c \in Call, CallStep(c)
        PROVE  StartNew(c, Child[c], FALSE) \/ Cancel({Child[c]}) \/ UNCHANGED active
    BY <2>2 DEF CallStep, StartForeground, StartKnown, GoBackground, Return, Abort, AbortJob, Aborted, jobVars
  <2>3. ASSUME NEW r \in Call, RunStep(r) PROVE Settle(r) \/ UNCHANGED active
    BY <2>3 DEF RunStep, Prompt, BeginRun, Answer, EndRun, Interrupt, InterruptRun, EndInterrupt,
                Drop, DropRun, SettleRun
  <2>4. ASSUME NEW p \in Stopper, NEW s \in Session, StopJobs(p, s) \/ StopTurn(p, s)
        PROVE  UNCHANGED active \/ \E J \in SUBSET Job : Cancel(J)
    <3> DEFINE listed == IF stop[p].scope = "session" THEN {}
                         ELSE {j \in Job : Running(j) /\ (j = s \/ Parent[j] = s)}
    <3>1. listed \in SUBSET Job
      OBVIOUS
    <3>2. UNCHANGED active \/ Cancel(listed)
      BY <2>4 DEF StopJobs, StopTurn, jobVars
    <3> QED
      BY <3>1, <3>2
  <2>5. ASSUME \/ \E c \in Call : Deliver(c)
               \/ \E s \in Session : TurnEnd(s)
               \/ \E j \in Job : PromoteJob(j)
               \/ \E k \in Client : ClientStopped(k) \/ \E scope \in {"session", "tree"} : ClientStop(k, scope)
               \/ UNCHANGED vars
        PROVE  UNCHANGED active \/ \E j \in Job : Promote(j)
    BY <2>5 DEF Deliver, TurnEnd, PromoteJob, ClientStopped, ClientStop, vars, jobVars
  <2>6. \A c \in Call : {Child[c]} \in SUBSET Job
    BY CallerType
  <2> QED
    BY <2>1, <2>2, <2>3, <2>4, <2>5, <2>6 DEF Next, Progress, StopStep
<1>3. PICK r \in Call : Settle(r)
  <2>1. ASSUME NEW c \in Call, NEW b \in BOOLEAN, StartNew(c, Child[c], b) PROVE FALSE
    BY <1>1, <2>1 DEF StartNew, JobTypeOK
  <2>2. ASSUME NEW c \in Call, Extend(c, Child[c]) PROVE FALSE
    BY <1>1, <2>2, NobodyIsNoCall, CallerType DEF Extend, Running, JobTypeOK
  <2>3. ASSUME NEW j \in Job, Promote(j) PROVE FALSE
    BY <1>1, <2>3 DEF Promote, JobTypeOK
  <2>4. ASSUME NEW J \in SUBSET Job, Cancel(J) PROVE FALSE
    <3> DEFINE ts == {jobs[j] : j \in {i \in J : Running(i)}}
    <3>1. active'[t] = IF t \in ts THEN [active[t] EXCEPT !.status = "cancelled", !.pending = 0]
                       ELSE active[t]
      BY <2>4, Zenon DEF Cancel
    <3> HIDE DEF ts
    <3> QED
      BY <1>1, <3>1 DEF JobTypeOK
  <2> QED
    BY <1>2, <2>1, <2>2, <2>3, <2>4
<1>4. /\ run[r].phase = "ended" /\ IsCurrent(r) /\ jobs[run[r].job] = t
      /\ active'[t] = AfterRun(r, active[t])
  BY <1>1, <1>3 DEF Settle, JobTypeOK
<1>5. run[r].token = t /\ active[t].pending \in Nat /\ active[t].pending <= 1
  BY <1>1, <1>4 DEF AfterRun, IsCurrent, JobTypeOK
<1>6. r \in Left(t) /\ Cardinality(Left(t)) <= 1
  BY <1>1, <1>4, <1>5 DEF Left, RunsOf, Counts
<1>7. Left(t) = {r}
  <2>1. IsFiniteSet(Left(t) \ {r}) /\ Cardinality(Left(t) \ {r}) = Cardinality(Left(t)) - 1
    BY <1>6, LeftFinite, FS_RemoveElement
  <2>2. Cardinality(Left(t) \ {r}) = 0
    BY <1>6, <2>1, LeftFinite, FS_CardinalityType
  <2> QED
    BY <1>6, <2>1, <2>2, FS_EmptySet
<1>8. \A q \in Call : ~RunningRun(q, t)
  BY <1>4, <1>7 DEF RunningRun, Left, RunsOf
<1>9. EndedRun(r, t)
  BY <1>4, <1>5 DEF EndedRun
<1>10. Idle(Child[t]) /\ run[t].phase # "none" /\ run[t].token = t
  BY <1>1, <1>8, <1>9 DEF Rests
<1>11. jobs[run[t].job] = t /\ run[t].job \in Job
  BY <1>1, <1>10 DEF Belongs
<1>12. run[t].job = Child[t]
  BY <1>11, NobodyIsNoCall DEF OwnerInv, Mapped
<1> QED
  BY <1>10, <1>12 DEF Idle, Busy, Outstanding

(* A job is completed when whatever its child has started has come to its   *)
(* end, and the results have been delivered (`drain` in task.ts).           *)
THEOREM CompletesWhenDrained == Spec => CompletesDrained
<1>1. JobInv /\ OwnerInv /\ DrainInv /\ [Next]_vars
        => [\A t \in Call : active[t].status = "running" /\ active'[t].status = "completed"
                              => ~Outstanding(run[t].job)]_vars
  BY StepCompletes
<1> QED
  BY <1>1, DrainInvariant, PTL DEF Spec, CompletesDrained

-----------------------------------------------------------------------------
\* What is waited for.

(* The child of a run is that of the call that started the incarnation.     *)
RunOfJob(r) == run[r].phase # "none" => run[r].job = Child[run[r].token]

(* A job of which something was started stays in the map.                   *)
Recorded ==
  /\ \A t \in Call : active[t].status # "none" => jobs[Child[t]] # Nobody
  /\ \A j \in Job : jobs[j] # Nobody => active[jobs[j]].status # "none"

(* The tail of a running job is one of its runs, and the last.              *)
Chain(t) ==
  active[t].status = "running" =>
    LET q == active[t].tail IN
    /\ active[t].pending > 0
    /\ run[q].phase # "none" /\ run[q].token = t /\ run[q].sequence < active[t].next

(* A run is queued behind an earlier one of its job.                        *)
Behind(r) ==
  run[r].phase = "queued" /\ run[r].previous # Nobody =>
    LET q == run[r].previous IN
    run[q].phase # "none" /\ run[q].token = run[r].token /\ run[q].sequence < run[r].sequence

ChainInv == Recorded /\ \A c \in Call : RunOfJob(c) /\ Chain(c) /\ Behind(c)

(* What a step of the registry is, and what it leaves as it is.             *)
RegistryStep ==
  \/ UNCHANGED jobVars
  \/ \E c \in Call, b \in BOOLEAN : Fresh(c) /\ StartNew(c, Child[c], b)
  \/ \E c \in Call : Fresh(c) /\ Extend(c, Child[c])
  \/ \E j \in Job : Promote(j)
  \/ \E J \in SUBSET Job : Cancel(J)
  \/ \E r \in Call : BeginRun(r) \/ DropRun(r) \/ InterruptRun(r) \/ Settle(r)
  \/ \E r \in Call, x \in Exits : run[r].phase \in {"running", "stopping"} /\ EndRun(r, x)

RunStays(r) ==
  run[r].phase # "none" =>
    /\ run'[r].phase # "none" /\ run'[r].job = run[r].job /\ run'[r].token = run[r].token
    /\ run'[r].sequence = run[r].sequence /\ run'[r].previous = run[r].previous
    /\ run'[r].phase = "queued" => run[r].phase = "queued"

RegistryStays ==
  /\ \A r \in Call : RunStays(r) /\ (active[r].status # "none" => active'[r].status # "none")
  /\ closed \subseteq closed'

LEMMA NextRegistry ==
  ASSUME JobInv, [Next]_vars
  PROVE  RegistryStep
<1>1. \A c \in Call : (Early(c) => Fresh(c)) /\ Stopping(c) /\ {Child[c]} \in SUBSET Job
  BY CallerType DEF JobInv
<1>2. ASSUME NEW c \in Call, NewCall(c)
      PROVE  Fresh(c) /\ (StartNew(c, Child[c], TRUE) \/ Extend(c, Child[c]) \/ UNCHANGED jobVars)
  BY <1>1, <1>2 DEF NewCall, Update, StartBackground, FindNothing, MayCall, Early
<1>3. ASSUME NEW c \in Call, StartForeground(c)
      PROVE  Fresh(c) /\ (StartNew(c, Child[c], FALSE) \/ UNCHANGED jobVars)
  BY <1>1, <1>3 DEF StartForeground, StartKnown, Early
<1>4. ASSUME NEW c \in Call, AbortJob(c) PROVE \E J \in SUBSET Job : Cancel(J)
  BY <1>1, <1>4 DEF AbortJob
<1>5. ASSUME NEW c \in Call, GoBackground(c) \/ Return(c) \/ Abort(c) \/ Aborted(c)
      PROVE  UNCHANGED jobVars
  BY <1>5 DEF GoBackground, Return, Abort, Aborted
<1>6. ASSUME NEW r \in Call, RunStep(r)
      PROVE  \/ BeginRun(r) \/ DropRun(r) \/ InterruptRun(r) \/ Settle(r)
             \/ \E x \in Exits : run[r].phase \in {"running", "stopping"} /\ EndRun(r, x)
  <2>1. EndInterrupt(r) => run[r].phase = "stopping" /\ EndRun(r, "interrupted")
    BY <1>1 DEF EndInterrupt, EndStop, AllStopped, Stopping
  <2> QED
    BY <1>6, <2>1 DEF RunStep, Prompt, Answer, Interrupt, Drop, SettleRun, Exits
<1>7. ASSUME NEW p \in Stopper, StopStep(p)
      PROVE  UNCHANGED jobVars \/ \E J \in SUBSET Job : Cancel(J)
  <2> SUFFICES ASSUME NEW s \in Session, StopJobs(p, s) \/ StopTurn(p, s)
               PROVE  UNCHANGED jobVars \/ \E J \in SUBSET Job : Cancel(J)
    BY <1>7 DEF StopStep
  <2> DEFINE listed == IF stop[p].scope = "session" THEN {}
                       ELSE {j \in Job : Running(j) /\ (j = s \/ Parent[j] = s)}
  <2>1. listed \in SUBSET Job
    OBVIOUS
  <2>2. UNCHANGED jobVars \/ Cancel(listed)
    BY DEF StopJobs, StopTurn
  <2> QED
    BY <2>1, <2>2
<1>8. ASSUME \/ \E c \in Call : Deliver(c)
             \/ \E s \in Session : TurnEnd(s)
             \/ \E j \in Job : PromoteJob(j)
             \/ \E k \in Client : ClientStopped(k) \/ \E scope \in {"session", "tree"} : ClientStop(k, scope)
             \/ UNCHANGED vars
      PROVE  UNCHANGED jobVars \/ \E j \in Job : Promote(j)
  BY <1>8 DEF Deliver, TurnEnd, PromoteJob, ClientStopped, ClientStop, vars
<1>9. \/ \E c \in Call : NewCall(c)
      \/ \E c \in Call : StartForeground(c)
      \/ \E c \in Call : AbortJob(c)
      \/ \E c \in Call : GoBackground(c) \/ Return(c) \/ Abort(c) \/ Aborted(c)
      \/ \E r \in Call : RunStep(r)
      \/ \E p \in Stopper : StopStep(p)
      \/ \E c \in Call : Deliver(c)
      \/ \E s \in Session : TurnEnd(s)
      \/ \E j \in Job : PromoteJob(j)
      \/ \E k \in Client : ClientStopped(k) \/ \E scope \in {"session", "tree"} : ClientStop(k, scope)
      \/ UNCHANGED vars
  BY Zenon DEF Next, Progress, CallStep
<1>10. CASE \E c \in Call : NewCall(c)
  BY <1>2, <1>10 DEF RegistryStep
<1>11. CASE \E c \in Call : StartForeground(c)
  BY <1>3, <1>11 DEF RegistryStep
<1>12. CASE \E r \in Call : RunStep(r)
  BY <1>6, <1>12 DEF RegistryStep
<1> QED
  BY <1>4, <1>5, <1>7, <1>8, <1>9, <1>10, <1>11, <1>12 DEF RegistryStep

(* Steps that neither add a run nor touch the chain of a job.               *)
LEMMA ChainStays ==
  ASSUME JobInv, ChainInv, RegistryStays, jobs' = jobs,
         \A r \in Call : run'[r].phase # "none" => run[r].phase # "none",
         \A t \in Call : /\ active'[t].status # "none" => active[t].status # "none"
                         /\ active'[t].status = "running" =>
                              /\ active[t].status = "running" /\ active'[t].pending > 0
                              /\ active'[t].tail = active[t].tail /\ active'[t].next = active[t].next
  PROVE  ChainInv'
<1>1. \A t \in Call : active[t].tail \in Call /\ run[t].previous \in Call \cup {Nobody}
  BY DEF JobInv, RegInv, JobTypeOK
<1>2. ASSUME NEW c \in Call PROVE RunOfJob(c)' /\ Chain(c)' /\ Behind(c)'
  <2>1. RunOfJob(c) /\ Chain(c) /\ Behind(c) /\ RunStays(c) /\ RunStays(active[c].tail)
    BY <1>1 DEF ChainInv, RegistryStays
  <2>2. RunOfJob(c)'
    BY <2>1 DEF RunOfJob, RunStays
  <2>3. Chain(c)'
    BY <2>1 DEF Chain, RunStays
  <2>4. Behind(c)'
    <3>1. CASE run'[c].phase = "queued" /\ run'[c].previous # Nobody
      <4>1. run[c].phase = "queued" /\ run[c].previous \in Call /\ RunStays(run[c].previous)
        BY <1>1, <2>1, <3>1 DEF RunStays, RegistryStays
      <4> QED
        BY <2>1, <4>1 DEF Behind, RunStays
    <3> QED
      BY <3>1 DEF Behind
  <2> QED
    BY <2>2, <2>3, <2>4
<1>3. Recorded'
  BY NobodyIsNoCall DEF ChainInv, Recorded, RegistryStays, JobInv, RegInv, JobTypeOK
<1> QED
  BY <1>2, <1>3 DEF ChainInv

LEMMA ChainKept ==
  ASSUME JobInv, OwnerInv, ChainInv, RegistryStep
  PROVE  ChainInv' /\ RegistryStays
<1>1. /\ JobTypeOK /\ ClosedEnded /\ Mapped
      /\ \A t \in closed : active[t].status # "running"
      /\ \A r \in Call : Belongs(r)
  BY DEF JobInv, RegInv, ClosedEnded, Ended, OwnerInv
<1> DEFINE Same(t) == /\ active'[t].status # "none" <=> active[t].status # "none"
                      /\ active'[t].status = "running" =>
                           /\ active[t].status = "running" /\ active'[t].pending > 0
                           /\ active'[t].tail = active[t].tail /\ active'[t].next = active[t].next
<1>2. ASSUME jobs' = jobs, closed \subseteq closed',
             \A r \in Call : RunStays(r) /\ (run'[r].phase # "none" => run[r].phase # "none"),
             \A t \in Call : Same(t)
      PROVE  ChainInv' /\ RegistryStays
  <2>1. RegistryStays
    BY <1>2 DEF RegistryStays
  <2> QED
    BY <1>2, <2>1, ChainStays
<1>3. \A t \in Call : active[t].status = "running" => active[t].pending > 0
  BY DEF ChainInv, Chain
<1>4. CASE UNCHANGED jobVars
  BY <1>2, <1>3, <1>4 DEF jobVars, RunStays
<1>5. ASSUME NEW j \in Job, Promote(j) PROVE ChainInv' /\ RegistryStays
  <2>1. \A t \in Call : Same(t)
    BY <1>1, <1>3, <1>5 DEF Promote, JobTypeOK
  <2>2. run' = run /\ jobs' = jobs /\ closed' = closed
    BY <1>5 DEF Promote
  <2> QED
    BY <1>2, <2>1, <2>2 DEF RunStays
<1>6. ASSUME NEW J \in SUBSET Job, Cancel(J) PROVE ChainInv' /\ RegistryStays
  <2> DEFINE ts == {jobs[j] : j \in {i \in J : Running(i)}}
  <2>1. run' = run /\ jobs' = jobs /\ closed' = closed \cup ts
    BY <1>6 DEF Cancel
  <2>2. \A t \in Call : active'[t] = IF t \in ts THEN [active[t] EXCEPT !.status = "cancelled", !.pending = 0]
                                     ELSE active[t]
    BY <1>6, Zenon DEF Cancel
  <2>3. \A t \in ts : active[t].status = "running"
    BY DEF Running
  <2> HIDE DEF ts
  <2>4. \A t \in Call : Same(t)
    BY <1>1, <1>3, <2>2, <2>3 DEF JobTypeOK
  <2> QED
    BY <1>2, <2>1, <2>4 DEF RunStays
<1>7. ASSUME NEW r \in Call,
             \/ BeginRun(r) \/ DropRun(r) \/ InterruptRun(r)
             \/ \E x \in Exits : run[r].phase \in {"running", "stopping"} /\ EndRun(r, x)
      PROVE  ChainInv' /\ RegistryStays
  <2>1. /\ \A q \in Call : q # r => run'[q] = run[q]
        /\ run[r].phase # "none" /\ run'[r].phase \notin {"none", "queued"}
        /\ run'[r].job = run[r].job /\ run'[r].token = run[r].token
        /\ run'[r].sequence = run[r].sequence /\ run'[r].previous = run[r].previous
        /\ UNCHANGED <<jobs, active, closed>>
    BY <1>1, <1>7 DEF BeginRun, DropRun, InterruptRun, EndRun, Interrupted, JobTypeOK
  <2> QED
    BY <1>2, <1>3, <2>1 DEF RunStays
<1>8. ASSUME NEW r \in Call, Settle(r) PROVE ChainInv' /\ RegistryStays
  <2>1. /\ \A q \in Call : q # r => run'[q] = run[q]
        /\ run[r].phase # "none" /\ run'[r].phase \notin {"none", "queued"}
        /\ run'[r].job = run[r].job /\ run'[r].token = run[r].token
        /\ run'[r].sequence = run[r].sequence /\ run'[r].previous = run[r].previous
        /\ jobs' = jobs /\ closed \subseteq closed'
    BY <1>1, <1>8 DEF Settle, JobTypeOK
  <2>2. \A t \in Call : Same(t)
    <3>1. CASE UNCHANGED active
      BY <1>3, <3>1
    <3>2. CASE /\ IsCurrent(r) /\ active[jobs[run[r].job]].status = "running"
               /\ active' = [active EXCEPT ![jobs[run[r].job]] = AfterRun(r, active[jobs[run[r].job]])]
      <4> DEFINE t == jobs[run[r].job]
                 a == active[t]
      <4>1. t \in Call /\ a.status = "running" /\ a \in [status : {"none", "running"} \cup Ended, pending : Nat, next : Nat,
                          tail : Call, output : Call \cup {Nobody}, background : BOOLEAN]
        BY <1>1, <3>2 DEF IsCurrent, JobTypeOK
      <4>2. LET b == AfterRun(r, a) IN
            /\ b.status \in {"running", "completed", "error", "cancelled"}
            /\ b.status = "running" => b.pending > 0 /\ b.tail = a.tail /\ b.next = a.next
        <5> HIDE DEF a
        <5>1. CASE run[r].exit \in {"text", "empty"}
          BY <4>1, <5>1 DEF AfterRun
        <5>2. CASE run[r].exit \notin {"text", "empty"}
          BY <4>1, <5>2 DEF AfterRun
        <5> QED
          BY <5>1, <5>2
      <4>3. \A u \in Call : active'[u] = IF u = t THEN AfterRun(r, a) ELSE active[u]
        BY <1>1, <3>2, <4>1 DEF JobTypeOK
      <4> HIDE DEF t
      <4> QED
        BY <1>3, <4>1, <4>2, <4>3
    <3> QED
      BY <1>8, <3>1, <3>2 DEF Settle
  <2> QED
    BY <1>2, <2>1, <2>2 DEF RunStays
<1>9. ASSUME NEW c \in Call, NEW b \in BOOLEAN, Fresh(c), StartNew(c, Child[c], b)
      PROVE  ChainInv' /\ RegistryStays
  <2>1. Child[c] \in Job
    BY CallerType
  <2>2. /\ \A t \in Call : t # c => active'[t] = active[t] /\ run'[t] = run[t]
        /\ active'[c].status = "running" /\ active'[c].pending = 1 /\ active'[c].next = 1 /\ active'[c].tail = c
        /\ run'[c].phase = "queued" /\ run'[c].token = c /\ run'[c].job = Child[c]
        /\ run'[c].sequence = 0 /\ run'[c].previous = Nobody
        /\ closed' = closed /\ jobs'[Child[c]] = c /\ \A j \in Job : j # Child[c] => jobs'[j] = jobs[j]
        /\ run[c].phase = "none" /\ active[c].status = "none"
    BY <1>1, <1>9, <2>1 DEF StartNew, RunOf, JobTypeOK, Fresh
  <2>3. RegistryStays
    BY <2>2 DEF RegistryStays, RunStays
  <2>4. Recorded'
    <3>1. \A t \in Call : active'[t].status # "none" => jobs'[Child[t]] # Nobody
      BY <2>2, NobodyIsNoCall, CallerType DEF ChainInv, Recorded
    <3>2. ASSUME NEW j \in Job, jobs'[j] # Nobody PROVE active'[jobs'[j]].status # "none"
      BY <1>1, <2>2, <3>2 DEF ChainInv, Recorded, JobTypeOK
    <3> QED
      BY <3>1, <3>2 DEF Recorded
  <2>5. ASSUME NEW d \in Call PROVE RunOfJob(d)' /\ Chain(d)' /\ Behind(d)'
    <3>1. CASE d = c
      BY <2>2, <3>1 DEF RunOfJob, Chain, Behind
    <3>2. CASE d # c
      <4>1. RunOfJob(d) /\ Chain(d) /\ Behind(d) /\ active'[d] = active[d] /\ run'[d] = run[d]
        BY <2>2, <3>2 DEF ChainInv
      <4>2. active[d].tail \in Call /\ run[d].previous \in Call \cup {Nobody}
        BY <1>1 DEF JobTypeOK
      <4> HIDE <1>9
      <4>3. \A q \in Call : run[q].phase # "none" => run'[q] = run[q]
        BY <2>2
      <4> QED
        BY <4>1, <4>2, <4>3 DEF RunOfJob, Chain, Behind
    <3> QED
      BY <3>1, <3>2
  <2> QED
    BY <2>3, <2>4, <2>5 DEF ChainInv
<1>10. ASSUME NEW c \in Call, Fresh(c), Extend(c, Child[c])
       PROVE  ChainInv' /\ RegistryStays
  <2>1. PICK t \in Call : /\ t = jobs[Child[c]] /\ Child[t] = Child[c] /\ Child[c] \in Job
                         /\ active[t].status = "running" /\ t # c
    BY <1>1, <1>10, NobodyIsNoCall, CallerType DEF Extend, Running, JobTypeOK, Mapped, Fresh
  <2>2. /\ active' = [active EXCEPT ![t].pending = @ + 1, ![t].next = @ + 1, ![t].tail = c]
        /\ run' = [run EXCEPT ![c] = RunOf(Child[c], t, active[t].next, active[t].tail)]
        /\ jobs' = jobs /\ closed' = closed
    BY <1>10, <2>1 DEF Extend
  <2>3. /\ \A d \in Call : d # t => active'[d] = active[d]
        /\ active'[t].status = "running" /\ active'[t].pending = active[t].pending + 1
        /\ active'[t].next = active[t].next + 1 /\ active'[t].tail = c
        /\ active[t].pending \in Nat /\ active[t].next \in Nat /\ active[t].tail \in Call
    BY <1>1, <2>1, <2>2 DEF JobTypeOK
  <2>4. /\ \A d \in Call : d # c => run'[d] = run[d]
        /\ run'[c].phase = "queued" /\ run'[c].token = t /\ run'[c].job = Child[c]
        /\ run'[c].sequence = active[t].next /\ run'[c].previous = active[t].tail
        /\ run[c].phase = "none"
    BY <1>1, <1>10, <2>2 DEF RunOf, JobTypeOK, Fresh
  <2>5. \A q \in Call : run[q].phase # "none" => run'[q] = run[q]
    BY <2>4
  <2>6. RegistryStays
    BY <2>1, <2>2, <2>3, <2>5 DEF RegistryStays, RunStays
  <2>7. Recorded'
    <3>1. \A d \in Call : active'[d].status # "none" <=> active[d].status # "none"
      BY <2>1, <2>3
    <3>2. jobs' = jobs /\ \A j \in Job : jobs[j] # Nobody => jobs[j] \in Call
      BY <1>1, <2>2 DEF JobTypeOK
    <3> QED
      BY <3>1, <3>2 DEF ChainInv, Recorded
  <2>8. Chain(t)'
    BY <2>1, <2>3, <2>4 DEF Chain, ChainInv
  <2>9. Behind(c)' /\ RunOfJob(c)'
    <3>1. Chain(t)
      BY <2>1 DEF ChainInv
    <3> QED
      BY <2>1, <2>3, <2>4, <2>5, <3>1 DEF Behind, Chain, RunOfJob
  <2>10. ASSUME NEW d \in Call PROVE (d # t => Chain(d)') /\ (d # c => Behind(d)' /\ RunOfJob(d)')
    <3>1. RunOfJob(d) /\ Chain(d) /\ Behind(d) /\ active[d].tail \in Call /\ run[d].previous \in Call \cup {Nobody}
      BY <1>1 DEF ChainInv, JobTypeOK
    <3> QED
      BY <2>3, <2>4, <2>5, <3>1 DEF RunOfJob, Chain, Behind
  <2> QED
    BY <2>6, <2>7, <2>8, <2>9, <2>10 DEF ChainInv
<1> QED
  BY <1>4, <1>5, <1>6, <1>7, <1>8, <1>9, <1>10 DEF RegistryStep

(* What a call or a delivery waits for is an incarnation of its own job.    *)
About(c, t) == t \in Call /\ active[t].status # "none" /\ Child[t] = Child[c]

WaitsFor(c) ==
  /\ pc[c] = "waiting" => About(c, awaits[c])
  /\ pc[c] = "cancelling" /\ awaits[c] # Nobody => About(c, awaits[c]) /\ awaits[c] \in closed
  /\ delivery[c] = "waiting" => About(c, delivers[c])

LEMMA WaitStays ==
  ASSUME RegistryStays, NEW c \in Call, WaitsFor(c),
         pc'[c] \in {"waiting", "cancelling"} => pc'[c] = pc[c] /\ awaits'[c] = awaits[c],
         delivery'[c] = "waiting" => delivery[c] = "waiting" /\ delivers'[c] = delivers[c]
  PROVE  WaitsFor(c)'
BY DEF RegistryStays, WaitsFor, About

(* The incarnation in the map is one of the job's.                          *)
LEMMA LastIsAbout ==
  ASSUME JobInv, OwnerInv, ChainInv, NEW c \in Call, jobs[Child[c]] # Nobody
  PROVE  About(c, jobs[Child[c]])
<1>1. Child[c] \in Job /\ jobs[Child[c]] \in Call
  BY CallerType DEF JobInv, RegInv, JobTypeOK
<1> QED
  BY <1>1 DEF About, ChainInv, Recorded, OwnerInv, Mapped

LEMMA StepWaits ==
  ASSUME JobInv, OwnerInv, ChainInv, [Next]_vars, RegistryStays, \A c \in Call : WaitsFor(c)
  PROVE  \A c \in Call : WaitsFor(c)'
<1>1. TaskTypes /\ JobTypeOK
  BY DEF JobInv, RegInv
<1> DEFINE Stays(c) == /\ pc'[c] \in {"waiting", "cancelling"} => pc'[c] = pc[c] /\ awaits'[c] = awaits[c]
                       /\ delivery'[c] = "waiting" => delivery[c] = "waiting" /\ delivers'[c] = delivers[c]
<1>2. ASSUME NEW c \in Call, WaitsFor(c)', \A d \in Call : d # c => Stays(d)
      PROVE  \A d \in Call : WaitsFor(d)'
  BY <1>2, WaitStays
<1>3. ASSUME \A c \in Call : Stays(c) PROVE \A c \in Call : WaitsFor(c)'
  BY <1>3, WaitStays
<1>4. ASSUME NEW c \in Call, NewCall(c) PROVE \A d \in Call : WaitsFor(d)'
  <2>1. CASE Update(c) \/ FindNothing(c)
    BY <1>1, <1>3, <2>1 DEF Update, FindNothing, Goto, TaskTypes
  <2>2. CASE StartBackground(c)
    <3>1. \A d \in Call : d # c => Stays(d)
      BY <1>1, <2>2 DEF StartBackground, Goto, Notify, TaskTypes
    <3>2. active'[c].status = "running"
      BY <1>1, <2>2 DEF StartBackground, StartNew, JobTypeOK
    <3>3. pc'[c] = "started" /\ (delivery'[c] = "waiting" => delivers'[c] = c \/ Stays(c))
      BY <1>1, <2>2 DEF StartBackground, Goto, Notify, TaskTypes
    <3>4. WaitsFor(c)'
      BY <3>2, <3>3, WaitStays DEF WaitsFor, About
    <3> QED
      BY <1>2, <3>1, <3>4
  <2> QED
    BY <1>4, <2>1, <2>2 DEF NewCall
<1>5. ASSUME NEW c \in Call, StartForeground(c) PROVE \A d \in Call : WaitsFor(d)'
  <2>1. /\ \A d \in Call : d # c => Stays(d)
        /\ pc'[c] = "waiting" /\ delivery' = delivery /\ delivers' = delivers
    BY <1>1, <1>5 DEF StartForeground, Goto, TaskTypes
  <2>2. About(c, awaits[c])'
    <3>1. CASE StartNew(c, Child[c], FALSE) /\ awaits' = [awaits EXCEPT ![c] = c]
      <4>1. active'[c].status = "running" /\ awaits'[c] = c
        BY <1>1, <3>1 DEF StartNew, JobTypeOK, TaskTypes
      <4> QED
        BY <4>1 DEF About
    <3>2. CASE StartKnown(Child[c]) /\ awaits' = [awaits EXCEPT ![c] = jobs[Child[c]]]
      <4>1. /\ About(c, jobs[Child[c]]) /\ awaits'[c] = jobs[Child[c]] /\ active' = active
        BY <1>1, <3>2, LastIsAbout DEF StartKnown, Running, jobVars, TaskTypes
      <4> QED
        BY <4>1 DEF About
    <3> QED
      BY <1>5, <3>1, <3>2 DEF StartForeground
  <2>3. WaitsFor(c)'
    <3>1. delivery'[c] = "waiting" => About(c, delivers[c])'
      BY <2>1 DEF WaitsFor, About, RegistryStays
    <3> QED
      BY <2>1, <2>2, <3>1 DEF WaitsFor
  <2> QED
    BY <1>2, <2>1, <2>3
<1>6. ASSUME NEW c \in Call, GoBackground(c) PROVE \A d \in Call : WaitsFor(d)'
  <2>1. /\ \A d \in Call : d # c => Stays(d)
        /\ pc'[c] = "started" /\ pc[c] = "waiting"
        /\ delivers'[c] = jobs[Child[c]] \/ Stays(c)
        /\ active' = active
    BY <1>1, <1>6 DEF GoBackground, Goto, Notify, TaskTypes, jobVars
  <2>2. About(c, jobs[Child[c]])
    <3>1. About(c, awaits[c])
      BY <2>1 DEF WaitsFor
    <3>2. jobs[Child[c]] # Nobody
      BY <3>1 DEF About, ChainInv, Recorded
    <3> QED
      BY <3>2, LastIsAbout
  <2>3. WaitsFor(c)'
    BY <2>1, <2>2, WaitStays DEF WaitsFor, About
  <2> QED
    BY <1>2, <2>1, <2>3
<1>7. ASSUME NEW c \in Call, Return(c) \/ Abort(c) \/ Aborted(c) PROVE \A d \in Call : WaitsFor(d)'
  BY <1>1, <1>3, <1>7 DEF Return, Abort, Aborted, Goto, TaskTypes
<1>8. ASSUME NEW c \in Call, AbortJob(c) PROVE \A d \in Call : WaitsFor(d)'
  <2>1. /\ \A d \in Call : d # c => Stays(d)
        /\ pc'[c] = "cancelling" /\ delivery' = delivery /\ delivers' = delivers
        /\ awaits'[c] = IF Running(Child[c]) THEN jobs[Child[c]] ELSE Nobody
    BY <1>1, <1>8 DEF AbortJob, Goto, TaskTypes
  <2>2. Running(Child[c]) => About(c, jobs[Child[c]]) /\ jobs[Child[c]] \in closed'
    BY <1>8, LastIsAbout DEF Running, AbortJob, Cancel
  <2>3. WaitsFor(c)'
    <3>1. delivery'[c] = "waiting" => About(c, delivers[c])'
      BY <2>1 DEF WaitsFor, About, RegistryStays
    <3>2. awaits'[c] # Nobody => About(c, awaits[c])' /\ awaits'[c] \in closed'
      BY <2>1, <2>2 DEF About, RegistryStays
    <3> QED
      BY <2>1, <3>1, <3>2 DEF WaitsFor
  <2> QED
    BY <1>2, <2>1, <2>3
<1>9. ASSUME NEW j \in Job, PromoteJob(j) PROVE \A d \in Call : WaitsFor(d)'
  <2>1. PICK c \in Call : c = jobs[j] /\ active[c].status # "none" /\ jobs' = jobs
    BY <1>1, <1>9, NobodyIsNoCall DEF PromoteJob, Promote, Running, JobTypeOK
  <2>2. /\ \A d \in Call : d # c => Stays(d)
        /\ pc'[c] = pc[c] /\ awaits'[c] = awaits[c] /\ (delivers'[c] = c \/ Stays(c))
    BY <1>1, <1>9, <2>1 DEF PromoteJob, Notify, TaskTypes
  <2>3. active'[c].status # "none"
    BY <2>1 DEF RegistryStays
  <2>4. WaitsFor(c)'
    BY <2>2, <2>3, WaitStays DEF WaitsFor, About, RegistryStays
  <2> QED
    BY <1>2, <2>2, <2>4
<1>10. ASSUME NEW c \in Call, Deliver(c) PROVE \A d \in Call : WaitsFor(d)'
  BY <1>1, <1>3, <1>10 DEF Deliver, TaskTypes
<1>11. ASSUME NEW p \in Stopper, NEW s \in Session, StopJobs(p, s) \/ StopTurn(p, s)
       PROVE  \A d \in Call : WaitsFor(d)'
  <2>1. CASE InterruptTurn(s)
    <3>1. UNCHANGED <<awaits, delivery, delivers>>
      BY <2>1 DEF InterruptTurn
    <3>2. \A c \in Call : Stays(c)
      BY <2>1, <3>1, InterruptedCalls
    <3> QED
      BY <1>3, <3>2
  <2>2. CASE UNCHANGED taskVars
    BY <1>3, <2>2 DEF taskVars
  <2> QED
    BY <1>11, <2>1, <2>2 DEF StopJobs, StopTurn
<1>12. ASSUME \/ \E r \in Call : RunStep(r)
              \/ \E s \in Session : TurnEnd(s)
              \/ \E k \in Client : ClientStopped(k) \/ \E scope \in {"session", "tree"} : ClientStop(k, scope)
              \/ UNCHANGED vars
       PROVE  \A d \in Call : WaitsFor(d)'
  <2>1. UNCHANGED taskVars
    BY <1>12 DEF RunStep, Prompt, Answer, Interrupt, EndInterrupt, Drop, SettleRun, TurnEnd,
                 ClientStopped, ClientStop, vars
  <2> QED
    BY <1>3, <2>1 DEF taskVars
<1> QED
  BY <1>4, <1>5, <1>6, <1>7, <1>8, <1>9, <1>10, <1>11, <1>12 DEF Next, Progress, CallStep, StopStep

-----------------------------------------------------------------------------
\* How far stops reach.

(* The session that is stopped.                                             *)
Top(p) == CASE p[1] = "client" -> Root
            [] p[1] = "run" -> run[p[2]].job
            [] OTHER -> Child[p[2]]

(* A call that has not got as far as to be interrupted.                     *)
Ahead(c) == pc[c] \in {"new", "starting", "waiting"}

ListedOf(t, s) == Child[t] = s \/ Parent[Child[t]] = s

(* What a stop is about is in its tree, which is below what it stops.       *)
Reach(p) ==
  stop[p].at = "on" =>
    /\ Top(p) \in Session /\ stop[p].tree \subseteq Below[Top(p)]
    /\ stop[p].lists \subseteq stop[p].tree /\ stop[p].turns \subseteq stop[p].tree
    /\ \A x \in stop[p].closing : x[1] \in stop[p].tree /\ x[2] \in closed /\ ListedOf(x[2], x[1])
    /\ \A c \in stop[p].calls : Caller(c) \in stop[p].tree /\ ~Ahead(c)

StopOn(r) == stop[<<"run", r>>].at = "on"

(* The stop by the run r waits for the run q.                               *)
WaitsOn(r, q) == \E x \in stop[<<"run", r>>].closing : x[2] = run[q].token

(* Runs that stop their children do not wait for each other in a circle.    *)
Acyclic ==
  \A S \in SUBSET Call : S # {} =>
    \E r \in S : \A q \in S : StopOn(r) /\ StopOn(q) => ~WaitsOn(r, q)

(* A session is swept once.                                                 *)
Swept(p) ==
  /\ stop[p].lists \cap stop[p].turns = {}
  /\ stop[p].at # "on" => stop[p].lists = {} /\ stop[p].turns = {}

(* A run, and a call, stops its child once.                                 *)
Once(c) ==
  /\ stop[<<"run", c>>].at # "none" => run[c].phase \in {"stopping", "ended", "over"}
  /\ stop[<<"call", c>>].at # "none" => pc[c] \notin {"new", "starting", "waiting", "aborting"}

StopInv ==
  /\ \A p \in Stopper : Reach(p) /\ Swept(p)
  /\ \A c \in Call : /\ run[c].phase = "stopping" => StopOn(c)
                     /\ pc[c] = "stopping" => stop[<<"call", c>>].at = "on"
                     /\ Once(c)
  /\ Acyclic

Begins(p) ==
  /\ stop[p].at = "none" /\ stop'[p].at = "on"
  /\ Top(p)' \in Session /\ stop'[p].tree \subseteq Below[Top(p)']
  /\ stop'[p].lists = stop'[p].tree /\ stop'[p].turns = {}
  /\ stop'[p].closing = {} /\ stop'[p].calls = {}

GoesOn(p) ==
  /\ stop'[p].at = stop[p].at /\ stop'[p].tree = stop[p].tree
  /\ stop'[p].lists \subseteq stop[p].lists
  /\ stop'[p].turns \subseteq stop[p].turns \cup stop[p].lists
  /\ stop'[p].lists \cap stop'[p].turns \subseteq stop[p].lists \cap stop[p].turns
  /\ \A x \in stop'[p].closing :
       \/ x \in stop[p].closing
       \/ /\ x[1] \in stop[p].lists /\ x[2] \in closed' /\ active[x[2]].status = "running"
          /\ ListedOf(x[2], x[1])
  /\ \A c \in stop'[p].calls :
       c \in stop[p].calls \/ (Caller(c) \in stop[p].lists \cup stop[p].turns /\ ~Ahead(c)')

Ends(p) ==
  stop[p].at = "on" /\ stop'[p].at = "over" /\ stop'[p].lists = {} /\ stop'[p].turns = {}

Unmoved(p) == stop'[p] = stop[p]

LEMMA UnmovedGoesOn == \A p : Unmoved(p) => GoesOn(p)
BY DEF Unmoved, GoesOn

LEMMA BelowSelf == \A s \in Session : s \in Below[s]
BY AboveUnfolds DEF Below

LEMMA BeginStopFacts ==
  ASSUME stop \in [Stopper -> Stops], NEW p \in Stopper, NEW s \in Session,
         NEW scope \in {"tree", "session"}, BeginStop(p, s, scope), stop[p].at = "none", Top(p)' = s
  PROVE  Begins(p) /\ \A q \in Stopper : q # p => Unmoved(q)
<1> DEFINE tree == IF scope = "tree" THEN Below[s] ELSE {s}
           a == [NoStop EXCEPT !.at = "on", !.scope = scope, !.tree = tree, !.lists = tree]
<1>1. tree \subseteq Below[s]
  BY BelowSelf
<1>2. stop' = [stop EXCEPT ![p] = a]
  BY DEF BeginStop
<1> HIDE DEF tree
<1>3. a.at = "on" /\ a.tree = tree /\ a.lists = tree /\ a.turns = {} /\ a.closing = {} /\ a.calls = {}
  BY DEF NoStop
<1> HIDE DEF a
<1>4. stop'[p] = a /\ \A q \in Stopper : q # p => stop'[q] = stop[q]
  BY <1>2
<1> QED
  BY <1>1, <1>3, <1>4 DEF Begins, Unmoved

LEMMA EndStopFacts ==
  ASSUME stop \in [Stopper -> Stops], NEW p \in Stopper, EndStop(p)
  PROVE  Ends(p) /\ \A q \in Stopper : q # p => Unmoved(q)
<1>1. LET over == [NoStop EXCEPT !.at = "over"] IN
      over.at = "over" /\ over.lists = {} /\ over.turns = {}
  BY DEF NoStop
<1> QED
  BY <1>1 DEF EndStop, AllStopped, Ends, Unmoved

(* A step of the stop of p.                                                 *)
LEMMA StopStepFacts ==
  ASSUME JobInv, OwnerInv, NEW p \in Stopper, NEW s \in Session, StopJobs(p, s) \/ StopTurn(p, s)
  PROVE  /\ GoesOn(p) /\ \A q \in Stopper : q # p => Unmoved(q)
         /\ \/ s \in stop[p].lists /\ s \notin stop'[p].lists
            \/ s \in stop[p].turns /\ s \notin stop'[p].turns
<1>1. stop \in [Stopper -> Stops] /\ JobTypeOK /\ Mapped
  BY DEF JobInv, RegInv, OwnerInv
<1>2. stop[p] \in Stops
  BY <1>1
<1>3. ASSUME InterruptTurn(s) PROVE \A c \in CallsOf(s) : Caller(c) = s /\ ~Ahead(c)'
  <2> SUFFICES ASSUME NEW c \in CallsOf(s) PROVE Caller(c) = s /\ ~Ahead(c)'
    OBVIOUS
  <2>1. c \in Call /\ Caller(c) = s /\ pc[c] \in InProgress
    BY DEF CallsOf
  <2>2. pc'[c] = CASE pc[c] = "starting" -> "aborted" [] pc[c] = "waiting" -> "aborting" [] OTHER -> pc[c]
    BY <1>3, <2>1 DEF InterruptTurn
  <2> QED
    BY <2>1, <2>2 DEF Ahead, InProgress
<1> DEFINE listed == IF stop[p].scope = "session" THEN {}
                     ELSE {j \in Job : Running(j) /\ (j = s \/ Parent[j] = s)}
<1>4. CASE StopJobs(p, s) /\ listed = {}
  <2>1. /\ s \in stop[p].lists /\ InterruptTurn(s)
        /\ stop' = [stop EXCEPT ![p].lists = @ \ {s}, ![p].calls = @ \cup CallsOf(s)]
    BY <1>4 DEF StopJobs
  <2>2. /\ stop'[p] = [[stop[p] EXCEPT !.lists = @ \ {s}] EXCEPT !.calls = @ \cup CallsOf(s)]
        /\ \A q \in Stopper : q # p => stop'[q] = stop[q]
    BY <1>1, <2>1
  <2>3. /\ stop'[p].at = stop[p].at /\ stop'[p].tree = stop[p].tree
        /\ stop'[p].lists = stop[p].lists \ {s} /\ stop'[p].turns = stop[p].turns
        /\ stop'[p].closing = stop[p].closing /\ stop'[p].calls = stop[p].calls \cup CallsOf(s)
    BY <1>2, <2>2 DEF Stops
  <2> QED
    BY <1>3, <2>1, <2>2, <2>3 DEF GoesOn, Unmoved
<1>5. CASE StopJobs(p, s) /\ listed # {}
  <2> DEFINE new == {s} \X {jobs[j] : j \in listed}
  <2>1. /\ s \in stop[p].lists /\ Cancel(listed) /\ UNCHANGED taskVars
        /\ stop' = [stop EXCEPT ![p].lists = @ \ {s}, ![p].turns = @ \cup {s}, ![p].closing = @ \cup new]
    BY <1>5 DEF StopJobs
  <2>2. /\ closed' = closed \cup {jobs[j] : j \in {i \in listed : Running(i)}}
        /\ \A j \in listed : j \in Job /\ Running(j) /\ (j = s \/ Parent[j] = s)
    BY <2>1 DEF Cancel
  <2>3. \A j \in listed : /\ jobs[j] \in closed' /\ active[jobs[j]].status = "running"
                          /\ Child[jobs[j]] = j
    BY <1>1, <2>2 DEF Running, Mapped
  <2>4. \A x \in new : /\ x[1] = s /\ x[2] \in closed' /\ active[x[2]].status = "running"
                       /\ ListedOf(x[2], s)
    BY <2>2, <2>3 DEF ListedOf
  <2> HIDE DEF new
  <2>5. /\ stop'[p] = [[[stop[p] EXCEPT !.lists = @ \ {s}] EXCEPT !.turns = @ \cup {s}] EXCEPT !.closing = @ \cup new]
        /\ \A q \in Stopper : q # p => stop'[q] = stop[q]
    BY <1>1, <2>1
  <2>6. /\ stop'[p].at = stop[p].at /\ stop'[p].tree = stop[p].tree
        /\ stop'[p].lists = stop[p].lists \ {s} /\ stop'[p].turns = stop[p].turns \cup {s}
        /\ stop'[p].closing = stop[p].closing \cup new /\ stop'[p].calls = stop[p].calls
    BY <1>2, <2>5 DEF Stops
  <2> QED
    BY <2>1, <2>4, <2>5, <2>6 DEF GoesOn, Unmoved
<1>6. CASE StopTurn(p, s)
  <2>1. /\ s \in stop[p].turns /\ InterruptTurn(s)
        /\ stop' = [stop EXCEPT ![p].turns = @ \ {s}, ![p].calls = @ \cup CallsOf(s),
                                ![p].closing = {x \in @ : x[1] # s}]
    BY <1>6 DEF StopTurn
  <2>2. /\ stop'[p] = [[[stop[p] EXCEPT !.turns = @ \ {s}] EXCEPT !.calls = @ \cup CallsOf(s)]
                         EXCEPT !.closing = {x \in @ : x[1] # s}]
        /\ \A q \in Stopper : q # p => stop'[q] = stop[q]
    BY <1>1, <2>1
  <2>3. /\ stop'[p].at = stop[p].at /\ stop'[p].tree = stop[p].tree
        /\ stop'[p].lists = stop[p].lists /\ stop'[p].turns = stop[p].turns \ {s}
        /\ stop'[p].closing \subseteq stop[p].closing /\ stop'[p].calls = stop[p].calls \cup CallsOf(s)
    BY <1>2, <2>2 DEF Stops
  <2> QED
    BY <1>3, <2>1, <2>2, <2>3 DEF GoesOn, Unmoved
<1> QED
  BY <1>4, <1>5, <1>6

(* How far a call, its delivery, a run and an incarnation are.              *)
CallStage(c) == CASE pc[c] = "new" -> 0
                  [] pc[c] = "starting" -> 1
                  [] pc[c] = "waiting" -> 2
                  [] pc[c] = "aborting" -> 3
                  [] pc[c] = "stopping" -> 4
                  [] pc[c] = "cancelling" -> 5
                  [] OTHER -> 6

DeliveryStage(c) == CASE delivery[c] = "none" -> 0
                      [] delivery[c] = "waiting" -> 1
                      [] OTHER -> 2

RunStage(r) == CASE run[r].phase = "none" -> 0
                 [] run[r].phase = "queued" -> 1
                 [] run[r].phase = "running" -> 2
                 [] run[r].phase = "stopping" -> 3
                 [] run[r].phase = "ended" -> 4
                 [] OTHER -> 5

JobStage(t) == CASE active[t].status = "none" -> 0
                 [] active[t].status # "none" /\ ~active[t].background -> 1
                 [] OTHER -> 2

LEMMA StageType ==
  \A c \in Call : /\ CallStage(c) \in 0..6 /\ DeliveryStage(c) \in 0..2
                 /\ RunStage(c) \in 0..5 /\ JobStage(c) \in 0..2
BY DEF CallStage, DeliveryStage, RunStage, JobStage

LEMMA RunsNeverFall ==
  ASSUME JobInv, RegistryStep
  PROVE  \A c \in Call : RunStage(c)' >= RunStage(c) /\ JobStage(c)' >= JobStage(c)
<1>1. JobTypeOK
  BY DEF JobInv, RegInv
<1>2. ASSUME NEW c \in Call
      PROVE  /\ run'[c].phase = run[c].phase => RunStage(c)' >= RunStage(c)
             /\ active'[c].status \in {"running"} \cup Ended /\ active[c].status # "none"
                  /\ active'[c].background = active[c].background => JobStage(c)' >= JobStage(c)
             /\ active'[c].status = active[c].status /\ active'[c].background = active[c].background
                  => JobStage(c)' >= JobStage(c)
  <2>1. RunStage(c) \in 0..5 /\ JobStage(c) \in 0..2
    BY StageType
  <2>2. run'[c].phase = run[c].phase => RunStage(c)' = RunStage(c)
    BY DEF RunStage
  <2>3. active'[c].status \in {"running"} \cup Ended /\ active[c].status # "none"
          /\ active'[c].background = active[c].background => JobStage(c)' = JobStage(c)
    BY DEF JobStage, Ended
  <2>4. active'[c].status = active[c].status /\ active'[c].background = active[c].background
          => JobStage(c)' = JobStage(c)
    BY DEF JobStage
  <2> QED
    BY <2>1, <2>2, <2>3, <2>4
<1>3. ASSUME jobs' = jobs, \A c \in Call : Ages(c)
      PROVE  \A c \in Call : JobStage(c)' >= JobStage(c)
  BY <1>2, <1>3 DEF Ages
<1>4. ASSUME run' = run \/ \A c \in Call : run'[c].phase = run[c].phase
      PROVE  \A c \in Call : RunStage(c)' >= RunStage(c)
  BY <1>2, <1>4
<1>5. CASE UNCHANGED jobVars
  BY <1>3, <1>4, <1>5, Ageing DEF jobVars
<1>6. ASSUME NEW c \in Call, NEW b \in BOOLEAN, Fresh(c), StartNew(c, Child[c], b), NEW d \in Call
      PROVE  RunStage(d)' >= RunStage(d) /\ JobStage(d)' >= JobStage(d)
  <2>1. CASE d = c
    <3>1. RunStage(c) = 0 /\ JobStage(c) = 0
      BY <1>6 DEF Fresh, RunStage, JobStage
    <3>2. RunStage(c)' \in 0..5 /\ JobStage(c)' \in 0..2
      BY DEF RunStage, JobStage
    <3> QED
      BY <2>1, <3>1, <3>2
  <2>2. CASE d # c
    <3>1. run'[d] = run[d] /\ active'[d] = active[d]
      BY <1>1, <1>6, <2>2 DEF StartNew, JobTypeOK
    <3> QED
      BY <1>2, <3>1
  <2> QED
    BY <2>1, <2>2
<1>7. ASSUME NEW c \in Call, Fresh(c), Extend(c, Child[c]), NEW d \in Call
      PROVE  RunStage(d)' >= RunStage(d) /\ JobStage(d)' >= JobStage(d)
  <2>1. JobStage(d)' >= JobStage(d)
    BY <1>3, <1>7, Ageing, CallerType
  <2>2. CASE d = c
    <3>1. RunStage(c) = 0 /\ run'[c].phase = "queued"
      BY <1>1, <1>7 DEF Fresh, RunStage, Extend, RunOf, JobTypeOK
    <3>2. RunStage(c)' = 1
      BY <3>1 DEF RunStage
    <3> QED
      BY <2>1, <2>2, <3>1, <3>2
  <2>3. CASE d # c
    <3>1. run' = [run EXCEPT ![c] = RunOf(Child[c], jobs[Child[c]], active[jobs[Child[c]]].next, active[jobs[Child[c]]].tail)]
      BY <1>7 DEF Extend
    <3>2. run'[d] = run[d]
      BY <1>1, <2>3, <3>1 DEF JobTypeOK
    <3> QED
      BY <1>2, <2>1, <3>2
  <2> QED
    BY <2>2, <2>3
<1>8. ASSUME NEW j \in Job, Promote(j), NEW d \in Call
      PROVE  RunStage(d)' >= RunStage(d) /\ JobStage(d)' >= JobStage(d)
  <2>1. run' = run /\ active'[d].status = active[d].status /\ (active[d].background => active'[d].background)
    BY <1>1, <1>8 DEF Promote, JobTypeOK
  <2>2. JobStage(d)' >= JobStage(d)
    BY <2>1 DEF JobStage
  <2> QED
    BY <1>4, <2>1, <2>2
<1>9. ASSUME NEW J \in SUBSET Job, Cancel(J), NEW d \in Call
      PROVE  RunStage(d)' >= RunStage(d) /\ JobStage(d)' >= JobStage(d)
  <2>1. run' = run
    BY <1>9 DEF Cancel
  <2> QED
    BY <1>3, <1>4, <1>9, <2>1, Ageing
<1>10. ASSUME NEW r \in Call, NEW d \in Call,
              \/ BeginRun(r) \/ DropRun(r) \/ InterruptRun(r)
              \/ \E x \in Exits : run[r].phase \in {"running", "stopping"} /\ EndRun(r, x)
       PROVE  RunStage(d)' >= RunStage(d) /\ JobStage(d)' >= JobStage(d)
  <2>1. UNCHANGED <<jobs, active>>
    BY <1>10 DEF BeginRun, DropRun, InterruptRun, EndRun
  <2>2. JobStage(d)' >= JobStage(d)
    BY <1>3, <2>1, Ageing
  <2>3. CASE d = r
    <3>1. \/ run[r].phase = "queued" /\ run'[r].phase = "running"
          \/ run[r].phase = "queued" /\ run'[r].phase = "over"
          \/ run[r].phase = "running" /\ run'[r].phase = "stopping"
          \/ run[r].phase \in {"running", "stopping"} /\ run'[r].phase = "ended"
      BY <1>1, <1>10 DEF BeginRun, DropRun, InterruptRun, EndRun, JobTypeOK
    <3>2. RunStage(r)' >= RunStage(r)
      BY <3>1 DEF RunStage
    <3> QED
      BY <2>2, <2>3, <3>2
  <2>4. CASE d # r
    <3>1. run'[d] = run[d]
      BY <1>1, <1>10, <2>4 DEF BeginRun, DropRun, InterruptRun, EndRun, JobTypeOK
    <3> QED
      BY <1>2, <2>2, <3>1
  <2> QED
    BY <2>3, <2>4
<1>11. ASSUME NEW r \in Call, Settle(r), NEW d \in Call
       PROVE  RunStage(d)' >= RunStage(d) /\ JobStage(d)' >= JobStage(d)
  <2>1. JobStage(d)' >= JobStage(d)
    BY <1>3, <1>11, Ageing
  <2>2. run[r].phase = "ended" /\ run' = [run EXCEPT ![r].phase = "over"]
    BY <1>11 DEF Settle
  <2>3. run'[d].phase = IF d = r THEN "over" ELSE run[d].phase
    BY <1>1, <2>2 DEF JobTypeOK
  <2>4. RunStage(d)' >= RunStage(d)
    BY <2>2, <2>3 DEF RunStage
  <2> QED
    BY <2>1, <2>4
<1> QED
  BY <1>3, <1>4, <1>5, <1>6, <1>7, <1>8, <1>9, <1>10, <1>11, Ageing DEF RegistryStep, jobVars

CallGoesOn(c) ==
  \/ pc[c] = "starting" /\ pc'[c] = "waiting"
  \/ pc[c] = "waiting" /\ pc'[c] \in {"started", "result", "failed"}
  \/ pc[c] = "aborting" /\ pc'[c] \in {"stopping", "aborted"}
  \/ pc[c] = "stopping" /\ pc'[c] = "cancelling"
  \/ pc[c] = "cancelling" /\ pc'[c] = "aborted"

LEMMA CallStepGoesOn ==
  ASSUME TaskTypes, CallStops, NEW c \in Call, CallStep(c)
  PROVE  CallGoesOn(c)
<1>1. CASE AbortJob(c)
  <2>1. stop[<<"call", c>>].at = "on" /\ pc' = [pc EXCEPT ![c] = "cancelling"]
    BY <1>1 DEF AbortJob, EndStop, AllStopped, Goto
  <2> QED
    BY <2>1 DEF CallStops, TaskTypes, CallGoesOn
<1>2. CASE ~AbortJob(c)
  BY <1>2 DEF CallStep, StartForeground, GoBackground, Return, Abort, Aborted, Goto, TaskTypes, CallGoesOn
<1> QED
  BY <1>1, <1>2

LEMMA CallsNeverFall ==
  ASSUME JobInv, CallStops, [Next]_vars
  PROVE  \A c \in Call : CallStage(c)' >= CallStage(c) /\ DeliveryStage(c)' >= DeliveryStage(c)
<1>1. TaskTypes
  BY DEF JobInv
<1> DEFINE CallHolds(c) == CallStage(c)' >= CallStage(c)
           DeliveryHolds(c) == DeliveryStage(c)' >= DeliveryStage(c)
<1>2. ASSUME NEW c \in Call
      PROVE  /\ pc'[c] = pc[c] => CallHolds(c)
             /\ delivery'[c] = delivery[c] => DeliveryHolds(c)
  <2>1. CallStage(c) \in 0..6 /\ DeliveryStage(c) \in 0..2
    BY StageType
  <2>2. pc'[c] = pc[c] => CallStage(c)' = CallStage(c)
    BY DEF CallStage
  <2>3. delivery'[c] = delivery[c] => DeliveryStage(c)' = DeliveryStage(c)
    BY DEF DeliveryStage
  <2> QED
    BY <2>1, <2>2, <2>3
<1>3. ASSUME NEW c \in Call, delivery[c] = "none" \/ delivery'[c] = "over" PROVE DeliveryHolds(c)
  BY <1>3 DEF DeliveryStage
<1>4. ASSUME NEW c \in Call, NewCall(c), NEW d \in Call PROVE CallHolds(d) /\ DeliveryHolds(d)
  <2>1. /\ d # c => pc'[d] = pc[d] /\ delivery'[d] = delivery[d]
        /\ pc[c] = "new" /\ (delivery'[c] = delivery[c] \/ delivery[c] = "none")
    BY <1>1, <1>4 DEF NewCall, Update, StartBackground, FindNothing, MayCall, Goto, Notify, TaskTypes
  <2>2. pc[c] = "new" => CallHolds(c)
    BY DEF CallStage
  <2> QED
    BY <1>2, <1>3, <2>1, <2>2
<1>5. ASSUME NEW c \in Call, CallStep(c), NEW d \in Call PROVE CallHolds(d) /\ DeliveryHolds(d)
  <2>1. CallGoesOn(c)
    BY <1>1, <1>5, CallStepGoesOn
  <2>2. CallHolds(c)
    BY <2>1 DEF CallGoesOn, CallStage
  <2>3. d # c => pc'[d] = pc[d] /\ delivery'[d] = delivery[d]
    BY <1>1, <1>5 DEF CallStep, StartForeground, GoBackground, Return, Abort, AbortJob, Aborted,
                      Goto, Notify, TaskTypes
  <2>4. delivery'[c] = delivery[c] \/ delivery[c] = "none"
    BY <1>1, <1>5 DEF CallStep, StartForeground, GoBackground, Return, Abort, AbortJob, Aborted,
                      Goto, Notify, TaskTypes
  <2> QED
    BY <1>2, <1>3, <2>2, <2>3, <2>4
<1>6. ASSUME NEW c \in Call, Deliver(c), NEW d \in Call PROVE CallHolds(d) /\ DeliveryHolds(d)
  <2>1. pc' = pc /\ (delivery'[d] = delivery[d] \/ delivery'[d] = "over")
    BY <1>1, <1>6 DEF Deliver, TaskTypes
  <2> QED
    BY <1>2, <1>3, <2>1
<1>7. ASSUME NEW j \in Job, PromoteJob(j), NEW d \in Call PROVE CallHolds(d) /\ DeliveryHolds(d)
  <2>1. pc' = pc /\ (delivery'[d] = delivery[d] \/ delivery[d] = "none")
    BY <1>1, <1>7 DEF PromoteJob, Notify, TaskTypes
  <2> QED
    BY <1>2, <1>3, <2>1
<1>8. ASSUME NEW p \in Stopper, NEW s \in Session, StopJobs(p, s) \/ StopTurn(p, s), NEW d \in Call
      PROVE  CallHolds(d) /\ DeliveryHolds(d)
  <2>1. delivery' = delivery /\ (InterruptTurn(s) \/ pc' = pc)
    BY <1>8 DEF StopJobs, StopTurn, InterruptTurn, taskVars
  <2>2. \/ pc'[d] = pc[d]
        \/ pc[d] = "starting" /\ pc'[d] = "aborted"
        \/ pc[d] = "waiting" /\ pc'[d] = "aborting"
    BY <2>1, InterruptedCalls
  <2>3. pc'[d] # pc[d] => CallHolds(d)
    BY <2>2 DEF CallStage
  <2> QED
    BY <1>2, <2>1, <2>3
<1>9. ASSUME \/ \E r \in Call : RunStep(r)
             \/ \E s \in Session : TurnEnd(s)
             \/ \E k \in Client : ClientStopped(k) \/ \E scope \in {"session", "tree"} : ClientStop(k, scope)
             \/ UNCHANGED vars
      PROVE  pc' = pc /\ delivery' = delivery
  BY <1>9 DEF RunStep, Prompt, Answer, Interrupt, EndInterrupt, Drop, SettleRun, TurnEnd,
              ClientStopped, ClientStop, vars, taskVars
<1> QED
  BY <1>2, <1>4, <1>5, <1>6, <1>7, <1>8, <1>9 DEF Next, Progress, StopStep

LEMMA NeverAheadAgain ==
  ASSUME NEW c \in Call, CallStage(c)' >= CallStage(c), ~Ahead(c)
  PROVE  ~Ahead(c)'
BY DEF CallStage, Ahead

StopsMove ==
  /\ \A p \in Stopper : GoesOn(p) \/ Begins(p) \/ Ends(p)
  /\ \A c \in Call :
       /\ run'[c].phase = "stopping" =>
            Begins(<<"run", c>>) \/ (run[c].phase = "stopping" /\ GoesOn(<<"run", c>>))
       /\ pc'[c] = "stopping" =>
            Begins(<<"call", c>>) \/ (pc[c] = "stopping" /\ GoesOn(<<"call", c>>))

LEMMA NextStops ==
  ASSUME JobInv, OwnerInv, StopInv, [Next]_vars
  PROVE  StopsMove
<1>1. /\ JobTypeOK /\ TaskTypes /\ stop \in [Stopper -> Stops]
      /\ \A c \in Call : Once(c)
  BY DEF JobInv, RegInv, StopInv
<1> DEFINE RunsOn(c) == run'[c].phase = "stopping" => run[c].phase = "stopping"
           CallsOn(c) == pc'[c] = "stopping" => pc[c] = "stopping"
<1>2. ASSUME stop' = stop, \A c \in Call : RunsOn(c) /\ CallsOn(c)
      PROVE  StopsMove
  <2>1. \A p : GoesOn(p)
    BY <1>2, UnmovedGoesOn DEF Unmoved
  <2> QED
    BY <1>2, <2>1 DEF StopsMove
<1>3. ASSUME NEW p \in Stopper, \A q \in Stopper : q # p => Unmoved(q),
             GoesOn(p) \/ Begins(p) \/ Ends(p),
             \A c \in Call : /\ \/ RunsOn(c) /\ (p = <<"run", c>> => GoesOn(p) \/ run'[c].phase # "stopping")
                                \/ Begins(p) /\ p = <<"run", c>>
                             /\ \/ CallsOn(c) /\ (p = <<"call", c>> => GoesOn(p) \/ pc'[c] # "stopping")
                                \/ Begins(p) /\ p = <<"call", c>>
      PROVE  StopsMove
  <2>1. \A q \in Stopper : q # p => GoesOn(q)
    BY <1>3, UnmovedGoesOn
  <2> QED
    BY <1>3, <2>1, RunStops DEF StopsMove
<1>4. ASSUME NEW c \in Call, NewCall(c) PROVE StopsMove
  <2>1. stop' = stop /\ \A d \in Call : CallsOn(d)
    BY <1>1, <1>4 DEF NewCall, Update, StartBackground, FindNothing, Goto, TaskTypes
  <2>2. \A d \in Call : RunsOn(d)
    BY <1>1, <1>4 DEF NewCall, Update, StartBackground, FindNothing, Extend, StartNew, RunOf, jobVars, JobTypeOK
  <2> QED
    BY <1>2, <2>1, <2>2
<1>5. ASSUME NEW c \in Call, StartForeground(c) PROVE StopsMove
  <2>1. stop' = stop /\ \A d \in Call : CallsOn(d)
    BY <1>1, <1>5 DEF StartForeground, Goto, TaskTypes
  <2>2. \A d \in Call : RunsOn(d)
    BY <1>1, <1>5 DEF StartForeground, StartKnown, StartNew, RunOf, jobVars, JobTypeOK
  <2> QED
    BY <1>2, <2>1, <2>2
<1>6. ASSUME NEW c \in Call, GoBackground(c) \/ Return(c) \/ Aborted(c) PROVE StopsMove
  <2>1. stop' = stop /\ run' = run /\ \A d \in Call : CallsOn(d)
    BY <1>1, <1>6 DEF GoBackground, Return, Aborted, Goto, TaskTypes, jobVars
  <2> QED
    BY <1>2, <2>1
<1>7. ASSUME NEW c \in Call, Abort(c) PROVE StopsMove
  <2>1. run' = run /\ pc[c] = "aborting" /\ \A d \in Call : d # c => CallsOn(d)
    BY <1>1, <1>7 DEF Abort, Goto, TaskTypes, jobVars
  <2>2. CASE stop' = stop /\ Goto(c, "aborted")
    <3>1. CallsOn(c)
      BY <1>1, <2>2 DEF Goto, TaskTypes
    <3> QED
      BY <1>2, <2>1, <2>2, <3>1
  <2>3. CASE BeginStop(<<"call", c>>, Child[c], "tree")
    <3>1. <<"call", c>> \in Stopper /\ stop[<<"call", c>>].at = "none" /\ Child[c] \in Session
      BY <1>1, <2>1, RunStops, CallerType DEF Once, Session
    <3>2. Top(<<"call", c>>)' = Child[c]
      BY DEF Top
    <3>3. Begins(<<"call", c>>) /\ \A q \in Stopper : q # <<"call", c>> => Unmoved(q)
      BY <1>1, <2>3, <3>1, <3>2, BeginStopFacts
    <3> QED
      BY <1>3, <2>1, <3>1, <3>3, RunStops
  <2> QED
    BY <1>7, <2>2, <2>3 DEF Abort
<1>8. ASSUME NEW c \in Call, AbortJob(c) PROVE StopsMove
  <2>1. run' = run /\ pc'[c] = "cancelling" /\ \A d \in Call : d # c => CallsOn(d)
    <3>1. run' = run /\ pc' = [pc EXCEPT ![c] = "cancelling"]
      BY <1>8 DEF AbortJob, Cancel, Goto
    <3> QED
      BY <1>1, <3>1 DEF TaskTypes
  <2>2. <<"call", c>> \in Stopper /\ EndStop(<<"call", c>>)
    BY <1>8, RunStops DEF AbortJob
  <2>3. Ends(<<"call", c>>) /\ \A q \in Stopper : q # <<"call", c>> => Unmoved(q)
    BY <1>1, <2>2, EndStopFacts
  <2> QED
    BY <1>3, <2>1, <2>2, <2>3, RunStops
<1>9. ASSUME NEW r \in Call, Interrupt(r) PROVE StopsMove
  <2>1. /\ pc' = pc /\ run[r].phase = "running" /\ run'[r].job = run[r].job
        /\ \A q \in Call : q # r => run'[q] = run[q]
        /\ BeginStop(<<"run", r>>, run[r].job, "tree")
    BY <1>1, <1>9 DEF Interrupt, InterruptRun, taskVars, JobTypeOK
  <2>2. <<"run", r>> \in Stopper /\ stop[<<"run", r>>].at = "none" /\ run[r].job \in Session
    BY <1>1, <2>1, RunStops DEF Once, JobInv, RegInv, Belongs, Session
  <2>3. Top(<<"run", r>>)' = run[r].job
    BY <2>1 DEF Top
  <2>4. Begins(<<"run", r>>) /\ \A q \in Stopper : q # <<"run", r>> => Unmoved(q)
    BY <1>1, <2>1, <2>2, <2>3, BeginStopFacts
  <2> QED
    BY <1>3, <2>1, <2>2, <2>4, RunStops
<1>10. ASSUME NEW r \in Call, EndInterrupt(r) PROVE StopsMove
  <2>1. /\ pc' = pc /\ run'[r].phase = "ended" /\ \A q \in Call : q # r => run'[q] = run[q]
        /\ <<"run", r>> \in Stopper /\ EndStop(<<"run", r>>)
    <3>1. EndStop(<<"run", r>>) /\ UNCHANGED taskVars /\ EndRun(r, "interrupted")
      BY <1>10 DEF EndInterrupt
    <3>2. run' = [run EXCEPT ![r].phase = "ended", ![r].exit = "interrupted"]
      BY <3>1 DEF EndRun
    <3>3. run'[r].phase = "ended" /\ \A q \in Call : q # r => run'[q] = run[q]
      BY <1>1, <3>2 DEF JobTypeOK
    <3> QED
      BY <3>1, <3>3, RunStops DEF taskVars
  <2>2. Ends(<<"run", r>>) /\ \A q \in Stopper : q # <<"run", r>> => Unmoved(q)
    BY <1>1, <2>1, EndStopFacts
  <2> QED
    BY <1>3, <2>1, <2>2, RunStops
<1>11. ASSUME NEW r \in Call, Prompt(r) \/ (\E x \in {"text", "empty", "failed"} : Answer(r, x)) \/ Drop(r) \/ SettleRun(r)
       PROVE  StopsMove
  <2>1. stop' = stop /\ pc' = pc
    BY <1>11 DEF Prompt, Answer, Drop, SettleRun, taskVars
  <2>2. \A c \in Call : RunsOn(c)
    BY <1>1, <1>11 DEF Prompt, BeginRun, Answer, EndRun, Drop, DropRun, SettleRun, Settle, JobTypeOK
  <2> QED
    BY <1>2, <2>1, <2>2
<1>12. ASSUME NEW p \in Stopper, NEW s \in Session, StopJobs(p, s) \/ StopTurn(p, s)
       PROVE  StopsMove
  <2>1. GoesOn(p) /\ \A q \in Stopper : q # p => Unmoved(q)
    BY <1>12, StopStepFacts
  <2>2. run' = run /\ (InterruptTurn(s) \/ pc' = pc)
    BY <1>12 DEF StopJobs, StopTurn, Cancel, jobVars, taskVars
  <2>3. \A c \in Call : CallsOn(c)
    BY <2>2, InterruptedCalls
  <2> QED
    BY <1>3, <2>1, <2>2, <2>3
<1>13. ASSUME NEW k \in Client, NEW scope \in {"session", "tree"}, ClientStop(k, scope)
       PROVE  StopsMove
  <2>1. /\ <<"client", k>> \in Stopper /\ stop[<<"client", k>>].at = "none" /\ Root \in Session
        /\ BeginStop(<<"client", k>>, Root, scope) /\ pc' = pc /\ run' = run
    BY <1>13, RunStops DEF ClientStop, taskVars, jobVars, Session
  <2>2. Top(<<"client", k>>)' = Root
    BY DEF Top
  <2>3. Begins(<<"client", k>>) /\ \A q \in Stopper : q # <<"client", k>> => Unmoved(q)
    BY <1>1, <2>1, <2>2, BeginStopFacts
  <2>4. \A c \in Call : <<"client", k>> # <<"run", c>> /\ <<"client", k>> # <<"call", c>>
    OBVIOUS
  <2> QED
    BY <1>3, <2>1, <2>3, <2>4
<1>14. ASSUME NEW k \in Client, ClientStopped(k) PROVE StopsMove
  <2>1. /\ <<"client", k>> \in Stopper /\ EndStop(<<"client", k>>) /\ pc' = pc /\ run' = run
    BY <1>14, RunStops DEF ClientStopped, taskVars, jobVars
  <2>2. Ends(<<"client", k>>) /\ \A q \in Stopper : q # <<"client", k>> => Unmoved(q)
    BY <1>1, <2>1, EndStopFacts
  <2>3. \A c \in Call : <<"client", k>> # <<"run", c>> /\ <<"client", k>> # <<"call", c>>
    OBVIOUS
  <2> QED
    BY <1>3, <2>1, <2>2, <2>3
<1>15. ASSUME \/ \E c \in Call : Deliver(c)
              \/ \E s \in Session : TurnEnd(s)
              \/ \E j \in Job : PromoteJob(j)
              \/ UNCHANGED vars
       PROVE  StopsMove
  <2>1. stop' = stop /\ pc' = pc /\ run' = run
    BY <1>15 DEF Deliver, TurnEnd, PromoteJob, Promote, vars, jobVars, taskVars
  <2> QED
    BY <1>2, <2>1
<1> QED
  BY <1>4, <1>5, <1>6, <1>7, <1>8, <1>9, <1>10, <1>11, <1>12, <1>13, <1>14, <1>15
     DEF Next, Progress, CallStep, RunStep, StopStep

LEMMA StepStops ==
  ASSUME JobInv, DrainInv, StopInv, RegistryStays, StopsMove, JobInv', CallStops',
         \A c \in Call : CallStage(c)' >= CallStage(c) /\ RunStage(c)' >= RunStage(c)
  PROVE  StopInv'
<1>1. /\ stop \in [Stopper -> Stops] /\ closed \subseteq closed' /\ closed \subseteq Call
      /\ \A c \in Call : Stopping(c) /\ RunStays(c) /\ Stopping(c)' /\ (~Ahead(c) => ~Ahead(c)')
      /\ \A t \in closed : active[t].status # "running"
      /\ ClosedInv /\ CallStops
  BY NeverAheadAgain DEF JobInv, RegInv, JobTypeOK, RegistryStays, ClosedEnded, Ended, DrainInv
<1>2. ASSUME NEW p \in Stopper PROVE Reach(p)'
  <2>1. CASE Ends(p)
    BY <2>1 DEF Ends, Reach
  <2>2. CASE Begins(p)
    <3>1. \A x \in stop'[p].closing : FALSE
      BY <2>2 DEF Begins
    <3>2. \A c \in stop'[p].calls : FALSE
      BY <2>2 DEF Begins
    <3> QED
      BY <2>2, <3>1, <3>2 DEF Begins, Reach
  <2>3. CASE GoesOn(p) /\ stop[p].at = "on"
    <3>1. Top(p)' = Top(p)
      <4>1. CASE p[1] = "run"
        <5>1. PICK r \in Call : p = <<"run", r>>
          BY <4>1 DEF Stopper
        <5>2. run'[r].job = run[r].job
          BY <1>1, <2>3, <5>1 DEF Stopping, RunStays
        <5> QED
          BY <5>1, <5>2 DEF Top
      <4>2. CASE p[1] # "run"
        BY <4>2 DEF Top
      <4> QED
        BY <4>1, <4>2
    <3>2. /\ Top(p) \in Session /\ stop'[p].tree \subseteq Below[Top(p)]
          /\ stop'[p].lists \subseteq stop'[p].tree /\ stop'[p].turns \subseteq stop'[p].tree
      BY <2>3 DEF Reach, StopInv, GoesOn
    <3>3. \A x \in stop'[p].closing : x[1] \in stop'[p].tree /\ x[2] \in closed' /\ ListedOf(x[2], x[1])
      BY <1>1, <2>3 DEF Reach, StopInv, GoesOn
    <3>4. \A c \in stop'[p].calls : Caller(c) \in stop'[p].tree /\ ~Ahead(c)'
      <4>1. stop[p].calls \subseteq Call
        BY <1>1 DEF Stops
      <4> QED
        BY <1>1, <2>3, <4>1 DEF Reach, StopInv, GoesOn
    <3> QED
      BY <3>1, <3>2, <3>3, <3>4 DEF Reach, ListedOf, Caller
  <2>4. CASE GoesOn(p) /\ stop[p].at # "on"
    BY <2>4 DEF GoesOn, Reach
  <2> QED
    BY <2>1, <2>2, <2>3, <2>4 DEF StopsMove
<1>3. ASSUME NEW p \in Stopper PROVE Swept(p)'
  BY DEF StopsMove, StopInv, Swept, Begins, GoesOn, Ends
<1>4. ASSUME NEW c \in Call PROVE Once(c)'
  <2>1. Once(c)
    BY DEF StopInv
  <2>2. ASSUME stop'[<<"run", c>>].at # "none"
        PROVE  run'[c].phase \in {"stopping", "ended", "over"}
    <3>1. CASE stop'[<<"run", c>>].at = "on"
      BY <1>1, <3>1 DEF Stopping
    <3>2. CASE stop'[<<"run", c>>].at # "on"
      <4>1. stop[<<"run", c>>].at # "none"
        BY <2>2, <3>2, RunStops DEF StopsMove, GoesOn, Begins, Ends
      <4>2. RunStage(c)' >= RunStage(c) /\ run[c].phase \in {"stopping", "ended", "over"}
        BY <2>1, <4>1 DEF Once
      <4>3. run'[c].phase \in RunPhases
        BY DEF JobInv, RegInv, JobTypeOK
      <4> QED
        BY <4>2, <4>3 DEF RunStage, RunPhases
    <3> QED
      BY <3>1, <3>2
  <2>3. ASSUME stop'[<<"call", c>>].at # "none"
        PROVE  pc'[c] \notin {"new", "starting", "waiting", "aborting"}
    <3>1. CASE stop'[<<"call", c>>].at = "on"
      BY <3>1 DEF CallStops
    <3>2. CASE stop'[<<"call", c>>].at # "on"
      <4>1. stop[<<"call", c>>].at # "none"
        BY <2>3, <3>2, RunStops DEF StopsMove, GoesOn, Begins, Ends
      <4>2. CallStage(c)' >= CallStage(c) /\ pc[c] \notin {"new", "starting", "waiting", "aborting"}
        BY <2>1, <4>1 DEF Once
      <4> QED
        BY <4>2 DEF CallStage
    <3> QED
      BY <3>1, <3>2
  <2> QED
    BY <2>2, <2>3 DEF Once
<1>5. ASSUME NEW c \in Call
      PROVE  /\ run'[c].phase = "stopping" => StopOn(c)'
             /\ pc'[c] = "stopping" => stop'[<<"call", c>>].at = "on"
  BY DEF StopsMove, StopInv, StopOn, Begins, GoesOn
<1>6. ASSUME NEW S \in SUBSET Call, S # {}
      PROVE  \E r \in S : \A q \in S : StopOn(r)' /\ StopOn(q)' => ~WaitsOn(r, q)'
  <2>1. CASE \E r \in S : Begins(<<"run", r>>)
    BY <2>1 DEF Begins, WaitsOn
  <2>2. CASE \A r \in S : ~Begins(<<"run", r>>)
    <3>1. ASSUME NEW r \in S, NEW q \in S, StopOn(r)', StopOn(q)', WaitsOn(r, q)'
          PROVE  StopOn(r) /\ StopOn(q) /\ WaitsOn(r, q)
      <4>1. GoesOn(<<"run", r>>) /\ GoesOn(<<"run", q>>) /\ StopOn(r) /\ StopOn(q)
        BY <2>2, <3>1, RunStops DEF StopsMove, StopOn, GoesOn, Ends
      <4>2. run[q].phase = "stopping" /\ run'[q].token = run[q].token /\ run[q].token \in closed
        BY <1>1, <4>1 DEF StopOn, Stopping, RunStays, ClosedInv
      <4>3. PICK x \in stop'[<<"run", r>>].closing : x[2] = run[q].token
        BY <3>1, <4>2 DEF WaitsOn
      <4>4. x \in stop[<<"run", r>>].closing
        BY <1>1, <4>1, <4>2, <4>3 DEF GoesOn
      <4> QED
        BY <4>1, <4>3, <4>4 DEF WaitsOn
    <3>2. PICK r \in S : \A q \in S : StopOn(r) /\ StopOn(q) => ~WaitsOn(r, q)
      BY <1>6 DEF StopInv, Acyclic
    <3> QED
      BY <3>1, <3>2
  <2> QED
    BY <2>1, <2>2
<1>7. Acyclic'
  BY <1>6 DEF Acyclic
<1> QED
  BY <1>2, <1>3, <1>4, <1>5, <1>7 DEF StopInv, StopOn

WaitInv == ChainInv /\ StopInv /\ \A c \in Call : WaitsFor(c)

LEMMA WaitInvariant == Spec => [](JobInv /\ OwnerInv /\ DrainInv /\ WaitInv)
<1>1. Init => WaitInv
  <2> SUFFICES ASSUME Init PROVE WaitInv
    OBVIOUS
  <2>1. ChainInv /\ \A c \in Call : WaitsFor(c)
    BY DEF Init, JobInit, ChainInv, Recorded, RunOfJob, Chain, Behind, WaitsFor
  <2>2. \A p \in Stopper : stop[p].at = "none"
    BY DEF Init, NoStop
  <2>3. StopInv
    <3>1. \A r \in Call : ~StopOn(r) /\ Once(r) /\ run[r].phase = "none" /\ pc[r] = "new"
      BY <2>2, RunStops DEF Init, JobInit, StopOn, Once
    <3>2. Acyclic
      BY <3>1 DEF Acyclic
    <3> QED
      <4>1. \A p \in Stopper : Swept(p)
        BY DEF Init, NoStop, Swept
      <4> QED
        BY <2>2, <3>1, <3>2, <4>1 DEF StopInv, Reach
  <2> QED
    BY <2>1, <2>3 DEF WaitInv
<1>2. JobInv /\ OwnerInv /\ DrainInv /\ WaitInv /\ [Next]_vars /\ JobInv' /\ DrainInv' => WaitInv'
  <2> SUFFICES ASSUME JobInv, OwnerInv, DrainInv, WaitInv, [Next]_vars, JobInv', DrainInv'
               PROVE  WaitInv'
    OBVIOUS
  <2>1. RegistryStep /\ ChainInv /\ StopInv /\ CallStops /\ CallStops'
    BY NextRegistry DEF WaitInv, DrainInv
  <2>2. ChainInv' /\ RegistryStays
    BY <2>1, ChainKept
  <2>3. \A c \in Call : WaitsFor(c)'
    BY <2>1, <2>2, StepWaits DEF WaitInv
  <2>4. StopInv'
    BY <2>1, <2>2, NextStops, CallsNeverFall, RunsNeverFall, StepStops
  <2> QED
    BY <2>2, <2>3, <2>4 DEF WaitInv
<1> QED
  BY <1>1, <1>2, DrainInvariant, PTL DEF Spec

-----------------------------------------------------------------------------
\* The depth of a session.

Depth ==
  CHOOSE order \in [Session -> 0..Cardinality(Session)] : \A j \in Job : order[Parent[j]] < order[j]

LEMMA Least ==
  ASSUME NEW T, T \subseteq Nat, T # {}
  PROVE  \E x \in T : \A y \in T : x <= y
<1> DEFINE Less == {p \in Nat \X Nat : p[1] < p[2]}
<1>1. IsWellFoundedOn(Less, Nat)
  BY NatLessThanWellFounded DEF OpToRel
<1>2. PICK x \in T : \A y \in T : ~(<<y, x>> \in Less)
  <2> HIDE DEF Less
  <2> QED
    BY <1>1, WFMin
<1>3. ASSUME NEW y \in T PROVE x <= y
  <2>1. ~(<<y, x>> \in Less) /\ x \in Nat /\ y \in Nat
    BY <1>2
  <2> QED
    BY <2>1
<1> QED
  BY <1>3

LEMMA Greatest ==
  ASSUME NEW n \in Nat, NEW T, T \subseteq 0..n, T # {}
  PROVE  \E x \in T : \A y \in T : y <= x
<1> DEFINE U == {n - x : x \in T}
<1>1. PICK u \in U : \A y \in U : u <= y
  <2>1. U \subseteq Nat /\ U # {}
    <3>1. \A x \in T : n - x \in Nat
      OBVIOUS
    <3> QED
      BY <3>1
  <2> HIDE DEF U
  <2> QED
    BY <2>1, Least
<1>2. PICK x \in T : u = n - x
  BY <1>1
<1>3. ASSUME NEW y \in T PROVE y <= x
  <2>1. u <= n - y
    BY <1>1
  <2> QED
    BY <1>2, <2>1
<1> QED
  BY <1>3

LEMMA DepthType ==
  /\ Cardinality(Session) \in Nat /\ Depth \in [Session -> 0..Cardinality(Session)]
  /\ \A j \in Job : Parent[j] \in Session /\ Depth[Parent[j]] < Depth[j]
<1>1. IsFiniteSet(Session)
  BY FiniteTree, FS_AddElement DEF Session
<1>2. Cardinality(Session) \in Nat
  BY <1>1, FS_CardinalityType
<1>3. \E order \in [Session -> 0..Cardinality(Session)] : \A j \in Job : order[Parent[j]] < order[j]
  BY FiniteTree
<1>4. \A j \in Job : Parent[j] \in Session
  BY TreeAssumption
<1> QED
  BY <1>2, <1>3, <1>4 DEF Depth

(* What is below a session is deeper.                                       *)
LEMMA BelowIsDeeper ==
  ASSUME NEW s \in Session, NEW d \in Below[s]
  PROVE  d \in Session /\ (d = s \/ Depth[s] < Depth[d])
<1> DEFINE Bad == {e \in Below[s] : e # s /\ ~(Depth[s] < Depth[e])}
           T == {Depth[e] : e \in Bad}
<1>1. \A e \in Session : Depth[e] \in Nat
  BY DepthType
<1>2. Bad \subseteq Session
  BY BelowType
<1>3. ASSUME Bad # {} PROVE FALSE
  <2>1. PICK n \in T : \A m \in T : n <= m
    <3>1. T \subseteq Nat /\ T # {}
      BY <1>1, <1>2, <1>3
    <3> HIDE DEF T
    <3> QED
      BY <3>1, Least
  <2>2. PICK e \in Bad : n = Depth[e]
    BY <2>1
  <2>3. e \in Session /\ s \in Above[e] /\ e # s /\ ~(Depth[s] < Depth[e])
    BY <2>2 DEF Below
  <2>4. e # Root /\ s \in Above[Parent[e]]
    BY <2>3, AboveUnfolds
  <2>5. e \in Job /\ Parent[e] \in Below[s] /\ Parent[e] \in Session /\ Depth[Parent[e]] < Depth[e]
    BY <2>3, <2>4, DepthType DEF Session, Below
  <2>6. Parent[e] \notin Bad
    <3>1. ASSUME Parent[e] \in Bad PROVE FALSE
      <4>1. Depth[e] <= Depth[Parent[e]]
        BY <2>1, <2>2, <3>1
      <4> QED
        BY <1>1, <2>3, <2>5, <4>1
    <3> QED
      BY <3>1
  <2> QED
    BY <1>1, <2>3, <2>5, <2>6
<1> QED
  BY <1>3, BelowType

(* So is the child of a call made below it.                                 *)
LEMMA CallIsDeeper ==
  ASSUME NEW s \in Session, NEW c \in Call, Caller(c) \in Below[s]
  PROVE  Child[c] \in Session /\ Depth[s] < Depth[Child[c]]
<1>1. Child[c] \in Job /\ Child[c] \in Session /\ Depth[Caller(c)] < Depth[Child[c]]
  BY CallerType, DepthType DEF Caller, Session
<1>2. Caller(c) \in Session /\ Depth[s] <= Depth[Caller(c)]
  BY BelowIsDeeper, DepthType
<1>3. Depth[s] \in Nat /\ Depth[Caller(c)] \in Nat /\ Depth[Child[c]] \in Nat
  BY <1>1, <1>2, DepthType
<1> QED
  BY <1>1, <1>2, <1>3

-----------------------------------------------------------------------------
\* Nothing is stuck.

(* What is closed and has runs left has one that stops its child, if no run *)
(* can move.                                                                *)
LEMMA UnclosedStops ==
  ASSUME JobInv, ChainInv, StopInv, ~CanMove, NEW t \in closed, ~Closed(t)
  PROVE  \E r \in Call : StopOn(r) /\ run[r].token = t /\ Top(<<"run", r>>) = Child[t]
<1>1. JobTypeOK
  BY DEF JobInv, RegInv
<1>2. PICK r \in Call : run[r].token = t /\ run[r].phase \notin {"none", "over"}
  BY DEF Closed
<1>3. ~RunMoves(r)
  BY DEF CanMove
<1>4. run[r].phase = "stopping"
  BY <1>1, <1>2, <1>3 DEF RunMoves, Interrupted, JobTypeOK, RunPhases
<1>5. StopOn(r) /\ run[r].job = Child[t]
  BY <1>2, <1>4 DEF StopInv, ChainInv, RunOfJob
<1> QED
  BY <1>2, <1>5 DEF Top

(* A stop that nothing under way is deeper than waits for one of its depth. *)
LEMMA StopBlocked ==
  ASSUME JobInv, ChainInv, StopInv, \A c \in Call : WaitsFor(c), ~CanMove,
         NEW p \in Stopper, stop[p].at = "on",
         \A q \in Stopper : stop[q].at = "on" => Depth[Top(q)] <= Depth[Top(p)]
  PROVE  \E r \in Call : /\ StopOn(r) /\ Depth[Top(<<"run", r>>)] = Depth[Top(p)]
                        /\ \E x \in stop[p].closing : x[2] = run[r].token
<1>1. /\ JobTypeOK /\ TaskTypes /\ stop[p] \in Stops
  BY DEF JobInv, RegInv
<1>2. /\ Top(p) \in Session /\ stop[p].tree \subseteq Below[Top(p)]
      /\ stop[p].lists \subseteq stop[p].tree /\ stop[p].turns \subseteq stop[p].tree
      /\ \A x \in stop[p].closing : x[1] \in stop[p].tree /\ x[2] \in closed /\ ListedOf(x[2], x[1])
      /\ \A c \in stop[p].calls : Caller(c) \in stop[p].tree /\ ~Ahead(c)
  BY DEF StopInv, Reach
<1>3. /\ stop[p].lists \subseteq Session /\ stop[p].turns \subseteq Session
      /\ stop[p].closing \subseteq Session \X Call /\ stop[p].calls \subseteq Call
  BY <1>1 DEF Stops
<1>4. /\ stop[p].lists = {}
      /\ \A s \in stop[p].turns : \E x \in stop[p].closing : x[1] = s /\ ~Closed(x[2])
      /\ stop[p].turns # {} \/ \E c \in stop[p].calls : pc[c] \in InProgress
  <2>1. ~StopMoves(p)
    BY DEF CanMove
  <2> QED
    BY <1>3, <2>1 DEF StopMoves, AllStopped
<1>5. \A s \in Session : Depth[s] \in Nat
  BY DepthType
<1>6. ASSUME NEW c \in stop[p].calls, pc[c] \in InProgress PROVE FALSE
  <2>1. c \in Call /\ Caller(c) \in Below[Top(p)] /\ ~Ahead(c)
    BY <1>2, <1>3
  <2>2. Child[c] \in Session /\ Depth[Top(p)] < Depth[Child[c]]
    BY <1>2, <2>1, CallIsDeeper
  <2>3. ASSUME NEW q \in Stopper, stop[q].at = "on", Top(q) = Child[c] PROVE FALSE
    <3>1. Depth[Child[c]] <= Depth[Top(p)]
      BY <2>3
    <3> QED
      BY <1>2, <1>5, <2>2, <3>1
  <2>4. ~CallMoves(c)
    BY <2>1 DEF CanMove
  <2>5. CASE pc[c] = "stopping"
    <3>1. <<"call", c>> \in Stopper /\ stop[<<"call", c>>].at = "on" /\ Top(<<"call", c>>) = Child[c]
      BY <2>1, <2>5, RunStops DEF StopInv, Top
    <3> QED
      BY <2>3, <3>1
  <2>6. CASE pc[c] = "cancelling"
    <3>1. awaits[c] \in closed /\ ~Closed(awaits[c]) /\ Child[awaits[c]] = Child[c]
      BY <2>1, <2>4, <2>6 DEF CallMoves, WaitsFor, About
    <3>2. PICK r \in Call : StopOn(r) /\ Top(<<"run", r>>) = Child[c]
      BY <3>1, UnclosedStops
    <3> QED
      BY <2>3, <3>2, RunStops DEF StopOn
  <2> QED
    BY <1>6, <2>1, <2>4, <2>5, <2>6 DEF CallMoves, InProgress, Ahead
<1>7. PICK s \in stop[p].turns : TRUE
  BY <1>4, <1>6
<1>8. PICK x \in stop[p].closing : x[1] = s /\ ~Closed(x[2])
  BY <1>4
<1>9. x[2] \in closed /\ x[2] \in Call /\ s \in Below[Top(p)] /\ ListedOf(x[2], s)
  BY <1>2, <1>3, <1>8
<1>10. PICK r \in Call : StopOn(r) /\ run[r].token = x[2] /\ Top(<<"run", r>>) = Child[x[2]]
  BY <1>8, <1>9, UnclosedStops
<1>11. Depth[Child[x[2]]] <= Depth[Top(p)]
  BY <1>10, RunStops DEF StopOn
<1>12. Child[x[2]] \in Session /\ s \in Session /\ (s = Top(p) \/ Depth[Top(p)] < Depth[s])
  BY <1>2, <1>9, BelowIsDeeper, CallerType DEF Session
<1>13. Child[x[2]] = s
  <2>1. CASE Parent[Child[x[2]]] = s
    <3>1. Depth[Top(p)] < Depth[Child[x[2]]]
      BY <1>2, <1>9, <2>1, CallIsDeeper DEF Caller
    <3> QED
      BY <1>2, <1>5, <1>11, <1>12, <3>1
  <2> QED
    BY <1>9, <2>1 DEF ListedOf
<1>14. Depth[Child[x[2]]] = Depth[Top(p)]
  BY <1>2, <1>5, <1>11, <1>12, <1>13
<1> QED
  BY <1>8, <1>10, <1>14

(* The deepest of the stops wait for each other, which runs do not do in a  *)
(* circle.                                                                  *)
LEMMA NoStopWaits ==
  ASSUME JobInv, ChainInv, StopInv, \A c \in Call : WaitsFor(c), ~CanMove
  PROVE  \A p \in Stopper : stop[p].at # "on"
<1> SUFFICES ASSUME \E p \in Stopper : stop[p].at = "on" PROVE FALSE
  OBVIOUS
<1> DEFINE On == {p \in Stopper : stop[p].at = "on"}
           T == {Depth[Top(p)] : p \in On}
<1>1. PICK n \in T : \A m \in T : m <= n
  <2>1. \A p \in On : Top(p) \in Session
    BY DEF StopInv, Reach
  <2>2. T \subseteq 0..Cardinality(Session) /\ T # {} /\ Cardinality(Session) \in Nat
    BY <2>1, DepthType
  <2> HIDE DEF T
  <2> QED
    BY <2>2, Greatest
<1>2. ASSUME NEW p \in Stopper, stop[p].at = "on", Depth[Top(p)] = n
      PROVE  \E r \in Call : /\ StopOn(r) /\ Depth[Top(<<"run", r>>)] = n
                            /\ \E x \in stop[p].closing : x[2] = run[r].token
  <2>1. \A q \in Stopper : stop[q].at = "on" => Depth[Top(q)] <= Depth[Top(p)]
    BY <1>1, <1>2
  <2> QED
    BY <1>2, <2>1, StopBlocked
<1> DEFINE S == {r \in Call : StopOn(r) /\ Depth[Top(<<"run", r>>)] = n}
<1>3. S # {}
  <2>1. PICK p \in On : n = Depth[Top(p)]
    BY <1>1
  <2> QED
    BY <1>2, <2>1
<1>4. PICK r \in S : \A q \in S : StopOn(r) /\ StopOn(q) => ~WaitsOn(r, q)
  <2>1. S \in SUBSET Call
    OBVIOUS
  <2> HIDE DEF S
  <2> QED
    BY <1>3, <2>1 DEF StopInv, Acyclic
<1>5. PICK q \in Call : /\ StopOn(q) /\ Depth[Top(<<"run", q>>)] = n
                      /\ \E x \in stop[<<"run", r>>].closing : x[2] = run[q].token
  BY <1>2, <1>4, RunStops DEF StopOn
<1> QED
  BY <1>4, <1>5 DEF WaitsOn

(* A job that is running, while no stop is on and nothing can move, has a   *)
(* run that waits for something below its child.                            *)
Live(t) == active[t].status = "running"

LEMMA LiveHasDeeper ==
  ASSUME JobInv, DrainInv, ChainInv, StopInv, \A c \in Call : WaitsFor(c), ~CanMove,
         \A p \in Stopper : stop[p].at # "on", NEW t \in Call, Live(t)
  PROVE  \E c \in Call : Caller(c) \in Below[Child[t]] /\ Pending(c)
<1>1. JobTypeOK /\ Counts(t) /\ Chain(t)
  BY DEF JobInv, RegInv, ChainInv
<1>2. Left(t) # {} /\ Left(t) \subseteq Call
  BY <1>1, FS_EmptySet DEF Live, Counts, Chain, Left, RunsOf
<1> DEFINE T == {run[r].sequence : r \in Left(t)}
<1>3. PICK n \in T : \A m \in T : n <= m
  <2>1. T \subseteq Nat /\ T # {}
    BY <1>1, <1>2 DEF JobTypeOK
  <2> HIDE DEF T
  <2> QED
    BY <2>1, Least
<1>4. PICK r \in Left(t) : n = run[r].sequence
  BY <1>3
<1>5. r \in Call /\ run[r].token = t /\ run[r].phase \notin {"none", "over"}
  BY DEF Left, RunsOf
<1>6. ~RunMoves(r)
  BY <1>5 DEF CanMove
<1>7. run[r].phase # "stopping"
  BY <1>5, RunStops DEF StopInv, StopOn
<1>8. run[r].phase # "queued"
  <2> SUFFICES ASSUME run[r].phase = "queued" PROVE FALSE
    OBVIOUS
  <2>1. PICK q \in Call : q = run[r].previous /\ run[q].phase \notin {"ended", "over"}
    BY <1>6 DEF RunMoves, TailResolved
  <2>2. run[q].phase # "none" /\ run[q].token = t /\ run[q].sequence < run[r].sequence
    BY <1>5, <2>1, NobodyIsNoCall DEF ChainInv, Behind
  <2>3. q \in Left(t)
    BY <2>1, <2>2 DEF Left, RunsOf
  <2>4. run[r].sequence <= run[q].sequence /\ run[q].sequence \in Nat /\ run[r].sequence \in Nat
    BY <1>1, <1>3, <1>4, <1>5, <2>3 DEF JobTypeOK
  <2> QED
    BY <2>2, <2>4
<1>9. run[r].phase = "running" /\ ~Drained(run[r].job)
  BY <1>1, <1>5, <1>6, <1>7, <1>8 DEF RunMoves, JobTypeOK, RunPhases
<1>10. run[r].job = Child[t]
  BY <1>5 DEF ChainInv, RunOfJob
<1>11. PICK d \in Below[Child[t]] : Held(d)
  BY <1>9, <1>10 DEF Drained
<1>12. CASE d \in turn
  <2>1. d \in Session
    BY <1>12 DEF JobInv, TaskTypes
  <2>2. CallsOf(d) # {}
    BY <1>12, <2>1 DEF CanMove, TurnMoves
  <2> QED
    BY <2>2 DEF CallsOf, Pending
<1>13. CASE d \notin turn
  BY <1>11, <1>13 DEF Held, Pending
<1> QED
  BY <1>12, <1>13

(* What is pending waits for a running job.                                 *)
LEMMA PendingIsLive ==
  ASSUME JobInv, ChainInv, StopInv, \A c \in Call : WaitsFor(c), ~CanMove,
         \A p \in Stopper : stop[p].at # "on", NEW c \in Call, Pending(c)
  PROVE  \E t \in Call : Live(t) /\ Child[t] = Child[c]
<1>1. JobTypeOK /\ TaskTypes
  BY DEF JobInv, RegInv
<1>2. ~CallMoves(c) /\ ~DeliveryMoves(c)
  BY DEF CanMove
<1>3. \A t : About(c, t) => t \in Call /\ Child[t] = Child[c] /\ active[t].status \in {"running"} \cup Ended
  BY <1>1 DEF About, JobTypeOK
<1>4. CASE delivery[c] = "waiting"
  BY <1>2, <1>3, <1>4 DEF WaitsFor, DeliveryMoves, Live
<1>5. CASE pc[c] = "waiting"
  BY <1>2, <1>3, <1>5 DEF WaitsFor, CallMoves, Live
<1>6. CASE pc[c] = "cancelling"
  <2>1. awaits[c] \in closed /\ ~Closed(awaits[c])
    BY <1>2, <1>6 DEF CallMoves, WaitsFor
  <2>2. PICK r \in Call : StopOn(r)
    BY <2>1, UnclosedStops
  <2> QED
    BY <2>2, RunStops DEF StopOn
<1>7. CASE pc[c] = "stopping"
  BY <1>7, RunStops DEF StopInv
<1> QED
  BY <1>2, <1>4, <1>5, <1>6, <1>7 DEF Pending, InProgress, CallMoves

LEMMA NothingLives ==
  ASSUME JobInv, DrainInv, ChainInv, StopInv, \A c \in Call : WaitsFor(c), ~CanMove,
         \A p \in Stopper : stop[p].at # "on"
  PROVE  \A t \in Call : ~Live(t)
<1> SUFFICES ASSUME \E t \in Call : Live(t) PROVE FALSE
  OBVIOUS
<1> DEFINE T == {Depth[Child[t]] : t \in {u \in Call : Live(u)}}
<1>1. \A t \in Call : Child[t] \in Session /\ Depth[Child[t]] \in 0..Cardinality(Session)
  BY CallerType, DepthType DEF Session
<1>2. PICK n \in T : \A m \in T : m <= n
  <2>1. T \subseteq 0..Cardinality(Session) /\ T # {} /\ Cardinality(Session) \in Nat
    BY <1>1, DepthType
  <2> HIDE DEF T
  <2> QED
    BY <2>1, Greatest
<1>3. PICK t \in Call : Live(t) /\ n = Depth[Child[t]]
  BY <1>2
<1>4. PICK c \in Call : Caller(c) \in Below[Child[t]] /\ Pending(c)
  BY <1>3, LiveHasDeeper
<1>5. PICK u \in Call : Live(u) /\ Child[u] = Child[c]
  BY <1>4, PendingIsLive
<1>6. Depth[Child[t]] < Depth[Child[c]]
  BY <1>1, <1>4, CallIsDeeper
<1>7. Depth[Child[c]] <= Depth[Child[t]]
  BY <1>2, <1>3, <1>5
<1>8. Depth[Child[c]] \in Nat /\ Depth[Child[t]] \in Nat
  BY <1>1, DepthType
<1> QED
  BY <1>6, <1>7, <1>8

(* What has been begun can go on without a client, whoever waits for whom:  *)
(* of the stops under way and then of the jobs that run the deepest wait    *)
(* for nothing.  That the conditions of CanMove enable the actions is left  *)
(* to the runs (`cancelTree`, `drain`, `cancel` and `wait`).                *)
THEOREM NeverStuck == Spec => [](GuardsEnable => NothingStuck)
<1>1. JobInv /\ OwnerInv /\ DrainInv /\ WaitInv => (GuardsEnable => NothingStuck)
  <2> SUFFICES ASSUME JobInv, OwnerInv, DrainInv, WaitInv, GuardsEnable, ~CanMove PROVE NothingStuck
    BY DEF NothingStuck
  <2>1. /\ JobTypeOK /\ TaskTypes /\ stop \in [Stopper -> Stops] /\ ChainInv /\ StopInv
        /\ \A c \in Call : WaitsFor(c) /\ Belongs(c)
    BY DEF JobInv, RegInv, WaitInv
  <2>2. \A p \in Stopper : stop[p].at # "on"
    BY <2>1, NoStopWaits
  <2>3. \A t \in Call : ~Live(t)
    BY <2>1, <2>2, NothingLives
  <2>4. \A c \in Call : ~Pending(c)
    BY <2>1, <2>2, <2>3, PendingIsLive
  <2>5. ASSUME NEW r \in Call PROVE run[r].phase \in {"none", "over"}
    <3> SUFFICES ASSUME run[r].phase \notin {"none", "over"} PROVE FALSE
      OBVIOUS
    <3>1. ~RunMoves(r) /\ run[r].phase \in RunPhases /\ run[r].token \in Call
      BY <2>1 DEF CanMove, JobTypeOK
    <3>2. run[r].phase # "stopping"
      BY <2>1, <2>2, RunStops DEF StopInv, StopOn
    <3>3. active[run[r].token].status \in Ended
      BY <2>1, <2>3, <3>1 DEF Live, Belongs, JobTypeOK
    <3>4. run[r].token \in closed
      BY <3>1, <3>3 DEF DrainInv, ClosedInv
    <3> QED
      BY <3>1, <3>2, <3>4 DEF RunMoves, Interrupted, RunPhases
  <2>6. turn = {}
    BY <2>1, <2>4 DEF CanMove, TurnMoves, CallsOf, Pending, TaskTypes
  <2>7. \A p \in Stopper : stop[p].at \in {"none", "over"}
    BY <2>1, <2>2 DEF Stops
  <2> QED
    BY <2>4, <2>5, <2>6, <2>7 DEF NothingStuck, Pending
<1> QED
  BY <1>1, WaitInvariant, PTL

-----------------------------------------------------------------------------
\* No step is taken twice.

(* How far a stop is with a session.                                        *)
SweepStage(p, s) == CASE stop[p].at = "none" -> 0
                      [] stop[p].at = "over" -> 4
                      [] stop[p].at = "on" /\ s \in stop[p].lists -> 1
                      [] stop[p].at = "on" /\ s \in stop[p].turns \ stop[p].lists -> 2
                      [] OTHER -> 3

NoneFalls ==
  /\ \A c \in Call : /\ CallStage(c)' >= CallStage(c) /\ DeliveryStage(c)' >= DeliveryStage(c)
                     /\ RunStage(c)' >= RunStage(c) /\ JobStage(c)' >= JobStage(c)
  /\ \A p \in Stopper, s \in Session : SweepStage(p, s)' >= SweepStage(p, s)

OneRises ==
  \/ \E c \in Call : \/ CallStage(c)' > CallStage(c) \/ DeliveryStage(c)' > DeliveryStage(c)
                     \/ RunStage(c)' > RunStage(c) \/ JobStage(c)' > JobStage(c)
  \/ \E p \in Stopper, s \in Session : SweepStage(p, s)' > SweepStage(p, s)

OnlyTurnsEnd == turn' \subseteq turn /\ turn' # turn

LEMMA SweepsNeverFall ==
  ASSUME JobInv, JobInv', StopInv, StopsMove, NEW p \in Stopper, NEW s \in Session
  PROVE  SweepStage(p, s)' >= SweepStage(p, s)
<1>1. stop[p].at \in {"none", "on", "over"} /\ stop'[p].at \in {"none", "on", "over"}
  BY DEF JobInv, Stops
<1>2. CASE GoesOn(p)
  BY <1>1, <1>2 DEF GoesOn, SweepStage
<1>3. CASE Begins(p)
  BY <1>3 DEF Begins, SweepStage
<1>4. CASE Ends(p)
  BY <1>4 DEF Ends, SweepStage
<1> QED
  BY <1>2, <1>3, <1>4 DEF StopsMove

LEMMA SweepRises ==
  ASSUME JobInv, OwnerInv, StopInv, NEW p \in Stopper, NEW s \in Session, StopJobs(p, s) \/ StopTurn(p, s)
  PROVE  SweepStage(p, s)' > SweepStage(p, s)
<1>1. Swept(p)
  BY DEF StopInv
<1>2. /\ GoesOn(p)
      /\ \/ s \in stop[p].lists /\ s \notin stop'[p].lists
         \/ s \in stop[p].turns /\ s \notin stop'[p].turns
  BY StopStepFacts
<1>3. stop[p].at = "on" /\ stop'[p].at = "on"
  BY <1>1, <1>2 DEF Swept, GoesOn, JobInv, Stops
<1>4. CASE s \in stop[p].lists /\ s \notin stop'[p].lists
  BY <1>3, <1>4 DEF SweepStage
<1>5. CASE s \in stop[p].turns /\ s \notin stop'[p].turns
  <2>1. s \notin stop[p].lists /\ s \notin stop'[p].lists
    BY <1>1, <1>2, <1>5 DEF Swept, GoesOn
  <2> QED
    BY <1>3, <1>5, <2>1 DEF SweepStage
<1> QED
  BY <1>2, <1>4, <1>5

LEMMA StepRises ==
  ASSUME JobInv, OwnerInv, DrainInv, StopInv, Next
  PROVE  OneRises \/ OnlyTurnsEnd
<1>1. JobTypeOK /\ TaskTypes /\ stop \in [Stopper -> Stops] /\ CallStops
  BY DEF JobInv, RegInv, DrainInv
<1>2. ASSUME NEW c \in Call, NewCall(c) PROVE OneRises
  <2>1. pc[c] = "new" /\ pc'[c] \in {"updated", "started", "starting"}
    BY <1>1, <1>2 DEF NewCall, Update, StartBackground, FindNothing, MayCall, Goto, TaskTypes
  <2>2. CallStage(c)' > CallStage(c)
    BY <2>1 DEF CallStage
  <2> QED
    BY <2>2 DEF OneRises
<1>3. ASSUME NEW c \in Call, CallStep(c) PROVE OneRises
  <2>1. CallStage(c)' > CallStage(c)
    BY <1>1, <1>3, CallStepGoesOn DEF CallGoesOn, CallStage
  <2> QED
    BY <2>1 DEF OneRises
<1>4. ASSUME NEW r \in Call, RunStep(r) PROVE OneRises
  <2>1. ASSUME NEW x \in Exits, run[r].phase \in {"running", "stopping"}, EndRun(r, x)
        PROVE  run'[r].phase = "ended"
    <3>1. run' = [run EXCEPT ![r].phase = "ended", ![r].exit = x]
      BY <2>1 DEF EndRun
    <3> QED
      BY <1>1, <3>1 DEF JobTypeOK
  <2>2. CASE EndInterrupt(r)
    <3>1. run[r].phase = "stopping" /\ EndRun(r, "interrupted")
      BY <2>2 DEF EndInterrupt, EndStop, AllStopped, JobInv, Stopping
    <3>2. run[r].phase = "stopping" /\ run'[r].phase = "ended"
      BY <2>1, <3>1 DEF Exits
    <3> QED
      BY <3>2 DEF OneRises, RunStage
  <2>3. CASE \E x \in {"text", "empty", "failed"} : Answer(r, x)
    <3>1. run[r].phase = "running" /\ run'[r].phase = "ended"
      BY <2>1, <2>3 DEF Answer, Exits
    <3> QED
      BY <3>1 DEF OneRises, RunStage
  <2>4. CASE Prompt(r) \/ Interrupt(r) \/ Drop(r) \/ SettleRun(r)
    <3>1. \/ run[r].phase = "queued" /\ run'[r].phase \in {"running", "over"}
          \/ run[r].phase = "running" /\ run'[r].phase = "stopping"
          \/ run[r].phase = "ended" /\ run'[r].phase = "over"
      BY <1>1, <2>4 DEF Prompt, BeginRun, Interrupt, InterruptRun, Drop, DropRun, SettleRun, Settle, JobTypeOK
    <3>2. RunStage(r)' > RunStage(r)
      BY <3>1 DEF RunStage
    <3> QED
      BY <3>2 DEF OneRises
  <2> QED
    BY <1>4, <2>2, <2>3, <2>4 DEF RunStep
<1>5. ASSUME NEW c \in Call, Deliver(c) PROVE OneRises
  <2>1. delivery[c] = "waiting" /\ delivery'[c] = "over"
    BY <1>1, <1>5 DEF Deliver, TaskTypes
  <2>2. DeliveryStage(c)' > DeliveryStage(c)
    BY <2>1 DEF DeliveryStage
  <2> QED
    BY <2>2 DEF OneRises
<1>6. ASSUME NEW s \in Session, TurnEnd(s) PROVE OnlyTurnsEnd
  BY <1>6 DEF TurnEnd, OnlyTurnsEnd
<1>7. ASSUME NEW p \in Stopper, StopStep(p) PROVE OneRises
  BY <1>7, SweepRises DEF StopStep, OneRises
<1>8. ASSUME NEW k \in Client, NEW scope \in {"session", "tree"}, ClientStop(k, scope) PROVE OneRises
  <2> DEFINE p == <<"client", k>>
  <2>1. p \in Stopper /\ Root \in Session /\ stop[p].at = "none" /\ BeginStop(p, Root, scope)
    BY <1>8, RunStops DEF ClientStop, Session
  <2>2. Top(p)' = Root
    BY DEF Top
  <2> HIDE DEF p
  <2>3. Begins(p)
    BY <1>1, <2>1, <2>2, BeginStopFacts
  <2>4. SweepStage(p, Root)' > SweepStage(p, Root)
    BY <2>3 DEF Begins, SweepStage
  <2> QED
    BY <2>1, <2>4 DEF OneRises
<1>9. ASSUME NEW k \in Client, ClientStopped(k) PROVE OneRises
  <2> DEFINE p == <<"client", k>>
  <2>1. p \in Stopper /\ Root \in Session /\ EndStop(p)
    BY <1>9, RunStops DEF ClientStopped, Session
  <2> HIDE DEF p
  <2>2. Ends(p)
    BY <1>1, <2>1, EndStopFacts
  <2>3. SweepStage(p, Root)' > SweepStage(p, Root)
    BY <2>2 DEF Ends, SweepStage
  <2> QED
    BY <2>1, <2>3 DEF OneRises
<1>10. ASSUME NEW j \in Job, PromoteJob(j) PROVE OneRises
  <2>1. PICK t \in Call : t = jobs[j] /\ active[t].status = "running" /\ ~active[t].background
    BY <1>1, <1>10, NobodyIsNoCall DEF PromoteJob, Promote, Running, JobTypeOK
  <2>2. active'[t].background /\ active'[t].status = "running"
    BY <1>1, <1>10, <2>1 DEF PromoteJob, Promote, JobTypeOK
  <2>3. JobStage(t)' > JobStage(t)
    BY <2>1, <2>2 DEF JobStage
  <2> QED
    BY <2>3 DEF OneRises
<1> QED
  BY <1>2, <1>3, <1>4, <1>5, <1>6, <1>7, <1>8, <1>9, <1>10 DEF Next, Progress

(* No call, delivery, run, incarnation or stop ever goes back, and every    *)
(* step takes one of them further or ends turns: with finitely many of them *)
(* every behaviour comes to an end, so that by NeverStuck whatever was begun*)
(* is over then, if the processes go on (task.ts, background-job.ts).       *)
THEOREM StepsRunOut == Spec => [][NoneFalls /\ (OneRises \/ OnlyTurnsEnd)]_vars
<1>1. /\ JobInv /\ OwnerInv /\ DrainInv /\ WaitInv /\ [Next]_vars /\ JobInv'
      => [NoneFalls /\ (OneRises \/ OnlyTurnsEnd)]_vars
  <2> SUFFICES ASSUME JobInv, OwnerInv, DrainInv, WaitInv, Next, JobInv'
               PROVE  NoneFalls /\ (OneRises \/ OnlyTurnsEnd)
    OBVIOUS
  <2>1. StopInv /\ CallStops /\ RegistryStep /\ StopsMove
    BY NextRegistry, NextStops DEF WaitInv, DrainInv
  <2>2. NoneFalls
    BY <2>1, CallsNeverFall, RunsNeverFall, SweepsNeverFall DEF NoneFalls
  <2> QED
    BY <2>1, <2>2, StepRises
<1> QED
  BY <1>1, WaitInvariant, PTL DEF Spec
=============================================================================
