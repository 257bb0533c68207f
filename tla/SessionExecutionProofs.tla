----------------------- MODULE SessionExecutionProofs -----------------------
(* Proofs about SessionExecution.  What holds of the inbox alone is proved *)
(* once for each of its transactions (InboxInv); the rest is about what    *)
(* the drain remembers of it between two of them.                          *)
EXTENDS SessionExecution, TLAPS

-----------------------------------------------------------------------------
\* The inbox.

(* An input that was promoted has a message, and was admitted before; no   *)
(* sequence is ahead of the session's, and no two rows share one.          *)
InboxInv ==
  /\ InboxTypeOK
  /\ \A m \in Msg :
       /\ transcript[m] = promoted[m]
       /\ promoted[m] # 0 => Stored(m) /\ admitted[m] <= promoted[m]
       /\ promoted[m] <= seq /\ admitted[m] <= seq
  /\ \A m, n \in Msg : Stored(m) /\ Stored(n) /\ admitted[m] = admitted[n] => m = n

LEMMA InitInbox == InboxInit => InboxInv
BY NoMsgAssumption DEF InboxInit, InboxInv, InboxTypeOK, Stored

LEMMA AdmitInbox ==
  ASSUME InboxInv, NEW m \in Msg, NEW d \in Delivery, Admit(m, d)
  PROVE  InboxInv'
<1>1. InboxTypeOK'
  BY DEF InboxInv, InboxTypeOK, Admit
<1>2. /\ delivery' = [delivery EXCEPT ![m] = d] /\ admitted' = [admitted EXCEPT ![m] = seq + 1]
      /\ seq' = seq + 1 /\ promoted' = promoted /\ transcript' = transcript
      /\ delivery[m] = "none" /\ d # "none"
  BY DEF Admit, Admissible, Stored, Delivery
<1> QED
  BY <1>1, <1>2 DEF InboxInv, InboxTypeOK, Stored

LEMMA ConsumeInbox ==
  ASSUME InboxInv, NEW r \in Row, Consume(r)
  PROVE  InboxInv'
<1>1. InboxTypeOK'
  BY DEF InboxInv, InboxTypeOK, Consume, Row
<1>2. /\ r.id \in Msg /\ delivery[r.id] # "none" /\ seq' = seq + 1
      /\ promoted' = [promoted EXCEPT ![r.id] = seq + 1]
      /\ transcript' = [transcript EXCEPT ![r.id] = seq + 1]
      /\ delivery' = delivery /\ admitted' = admitted
  BY DEF Consume, Matches, Row, Delivery
<1> QED
  BY <1>1, <1>2 DEF InboxInv, InboxTypeOK, Stored

LEMMA ReinsertInbox ==
  ASSUME InboxInv, NEW r \in Row, Reinsert(r)
  PROVE  InboxInv'
<1>1. InboxTypeOK'
  BY DEF InboxInv, InboxTypeOK, Reinsert, Row
<1>2. /\ r.id \in Msg /\ r.delivery # "none" /\ seq' = seq + 1
      /\ promoted' = [promoted EXCEPT ![r.id] = seq + 1]
      /\ transcript' = [transcript EXCEPT ![r.id] = seq + 1]
      /\ delivery' = [delivery EXCEPT ![r.id] = r.delivery]
      /\ admitted' = [admitted EXCEPT ![r.id] = seq + 1]
  BY DEF Reinsert, Row, Delivery
<1> QED
  BY <1>1, <1>2 DEF InboxInv, InboxTypeOK, Stored

LEMMA RevertInbox ==
  ASSUME InboxInv, NEW b \in Msg, CommitRevert(b)
  PROVE  InboxInv'
<1>1. InboxTypeOK'
  BY NoMsgAssumption DEF InboxInv, InboxTypeOK, CommitRevert
<1>2. /\ seq' = seq + 1
      /\ \A m \in Msg :
           LET gone == Stored(m) /\ (admitted[m] > transcript[b] \/ promoted[m] > transcript[b]) IN
           /\ delivery'[m] = IF gone THEN "none" ELSE delivery[m]
           /\ admitted'[m] = IF gone THEN 0 ELSE admitted[m]
           /\ promoted'[m] = IF gone THEN 0 ELSE promoted[m]
           /\ transcript'[m] = IF transcript[m] > transcript[b] THEN 0 ELSE transcript[m]
  BY DEF CommitRevert, Dropped
<1>3. ASSUME NEW m \in Msg
      PROVE  /\ transcript'[m] = promoted'[m]
             /\ promoted'[m] # 0 => delivery'[m] # "none" /\ admitted'[m] <= promoted'[m]
             /\ promoted'[m] <= seq' /\ admitted'[m] <= seq'
  BY <1>2 DEF InboxInv, InboxTypeOK, Stored
<1>4. ASSUME NEW m \in Msg, NEW n \in Msg, delivery'[m] # "none", delivery'[n] # "none",
             admitted'[m] = admitted'[n]
      PROVE  m = n
  BY <1>2, <1>4 DEF InboxInv, InboxTypeOK, Stored
<1> QED
  BY <1>1, <1>3, <1>4 DEF InboxInv, Stored

(* Whatever happens, one transaction of the inbox happens or none.         *)
InboxStep ==
  \/ UNCHANGED inbox /\ UNCHANGED <<seq, transcript>> /\ staged' \in Msg \cup {NoMsg}
  \/ \E m \in Msg, d \in Delivery : Admit(m, d)
  \/ \E r \in Row : Consume(r) \/ Reinsert(r)
  \/ reverts < MaxRevert /\ \E b \in Msg : CommitRevert(b)

-----------------------------------------------------------------------------
\* Types.

DrainTypes ==
  /\ Flight!TypeOK
  /\ force \in BOOLEAN /\ stopped \in BOOLEAN
  /\ dpc \in {"off", "steer?", "queue?", "turn", "select queued", "publish queued",
              "select steers", "publish steers", "provider", "more?", "idle?", "done"}
  /\ promotion \in Delivery \cup {"none"}
  /\ cutoff \in Nat
  /\ rows \subseteq Row
  /\ checked \in Nat
  /\ answered \in BOOLEAN

(* A call that is under way has its arguments.                             *)
ClientTypes ==
  /\ cpc \in [Client -> {"idle", "find", "admit", "refind", "wake", "conflict"}]
  /\ call \in [Client -> Call \cup {NoCall}]
  /\ \A c \in Client : cpc[c] # "idle" => call[c].id \in Msg /\ call[c].delivery \in Delivery

OtherTypes ==
  /\ boundary \in Msg \cup {NoMsg}
  /\ reverts \in 0 .. MaxRevert
  /\ woken \subseteq Msg

Base == InboxInv /\ DrainTypes /\ ClientTypes /\ OtherTypes

LEMMA Selected == 
  ASSUME InboxInv
  PROVE  NextQueued \subseteq Row /\ \A n \in Nat : PendingSteers(n) \subseteq Row
BY DEF InboxInv, InboxTypeOK, NextQueued, PendingSteers, RowOf, Row, Pending, Delivery

LEMMA NextInbox ==
  ASSUME Base, [Next]_vars
  PROVE  InboxStep
<1> USE DEF Base, InboxStep
<1>1. ASSUME NEW c \in Client, NEW m \in Msg, NEW d \in Delivery, NEW resume \in Resumes, 
          Prompt(c, m, d, resume)
     PROVE  InboxStep
  BY <1>1 DEF Prompt, durable, coordinator, drain, history, inbox, InboxInv, InboxTypeOK
<1>2. ASSUME NEW c \in Client, Find(c) PROVE InboxStep
  BY <1>2 DEF Find, Compare, Goto, durable, coordinator, drain, history, inbox, InboxInv,
     InboxTypeOK
<1>3. ASSUME NEW c \in Client, PromptAdmitted(c) PROVE InboxStep
  BY <1>3 DEF PromptAdmitted, Compare, Goto, durable, coordinator, drain, history, inbox,
     ClientTypes, InboxInv, InboxTypeOK
<1>4. ASSUME NEW c \in Client, Refind(c) PROVE InboxStep
  BY <1>4 DEF Refind, Compare, Goto, durable, coordinator, drain, history, inbox, InboxInv,
     InboxTypeOK
<1>5. ASSUME NEW c \in Client, Wake(c) PROVE InboxStep
  BY <1>5 DEF Wake, Goto, Launch, durable, drain, history, inbox, InboxInv, InboxTypeOK
<1>6. ASSUME NEW c \in Client, Conflict(c) PROVE InboxStep
  BY <1>6 DEF Conflict, Goto, durable, coordinator, drain, history, inbox, InboxInv,
     InboxTypeOK
<1>7. ASSUME Resume PROVE InboxStep
  BY <1>7 DEF Resume, Launch, durable, drain, clients, history, inbox, InboxInv, InboxTypeOK
<1>8. ASSUME Interrupt PROVE InboxStep
  BY <1>8 DEF Interrupt, durable, drain, clients, history, inbox, InboxInv, InboxTypeOK
<1>9. ASSUME NEW m \in Msg, RevertStage(m) PROVE InboxStep
  BY <1>9 DEF RevertStage, StageRevert, coordinator, drain, clients, history, inbox, InboxInv,
     InboxTypeOK
<1>10. ASSUME RevertClear PROVE InboxStep
  BY <1>10 DEF RevertClear, ClearRevert, coordinator, drain, clients, history, inbox, InboxInv,
     InboxTypeOK
<1>11. ASSUME RevertRead PROVE InboxStep
  BY <1>11 DEF RevertRead, durable, coordinator, drain, clients, history, inbox, InboxInv,
     InboxTypeOK
<1>12. ASSUME RevertCommit PROVE InboxStep
  BY <1>12 DEF RevertCommit, durable, coordinator, drain, clients, history, inbox, OtherTypes,
     InboxInv, InboxTypeOK
<1>13. ASSUME DrainBegin PROVE InboxStep
  BY <1>13 DEF DrainBegin, durable, clients, history, inbox, InboxInv, InboxTypeOK
<1>14. ASSUME RunSteer PROVE InboxStep
  BY <1>14 DEF RunSteer, Step, durable, coordinator, clients, inbox, InboxInv, InboxTypeOK
<1>15. ASSUME RunQueue PROVE InboxStep
  BY <1>15 DEF RunQueue, Step, durable, history, coordinator, clients, inbox, InboxInv,
     InboxTypeOK
<1>16. ASSUME TurnCutoff PROVE InboxStep
  BY <1>16 DEF TurnCutoff, Step, durable, coordinator, clients, history, inbox, InboxInv,
     InboxTypeOK
<1>17. ASSUME SelectQueued PROVE InboxStep
  BY <1>17 DEF SelectQueued, Select, durable, coordinator, clients, history, inbox, InboxInv,
     InboxTypeOK
<1>18. ASSUME SelectSteers PROVE InboxStep
  BY <1>18 DEF SelectSteers, Select, durable, coordinator, clients, history, inbox, InboxInv,
     InboxTypeOK
<1>19. ASSUME PublishNext PROVE InboxStep
  BY <1>19 DEF PublishNext, coordinator, clients, DrainTypes, AlreadyPromoted, durable, inbox,
     InboxInv, InboxTypeOK
<1>20. ASSUME PublishDies PROVE InboxStep
  BY <1>20 DEF PublishDies, Aborted, Leave, durable, clients, inbox, InboxInv, InboxTypeOK
<1>21. ASSUME MoreSteers PROVE InboxStep
  BY <1>21 DEF MoreSteers, Step, durable, coordinator, clients, inbox, InboxInv, InboxTypeOK
<1>22. ASSUME MoreQueued PROVE InboxStep
  BY <1>22 DEF MoreQueued, Step, durable, history, coordinator, clients, inbox, InboxInv,
     InboxTypeOK
<1>23. ASSUME DrainEnd PROVE InboxStep
  BY <1>23 DEF DrainEnd, Leave, durable, clients, inbox, InboxInv, InboxTypeOK
<1>24. ASSUME TurnRetry PROVE InboxStep
  BY <1>24 DEF TurnRetry, Step, durable, history, coordinator, clients, inbox, InboxInv,
     InboxTypeOK
<1>25. ASSUME NEW b \in BOOLEAN, TurnEnd(b) PROVE InboxStep
  BY <1>25 DEF TurnEnd, Step, durable, coordinator, clients, inbox, InboxInv, InboxTypeOK
<1>26. ASSUME DrainFail PROVE InboxStep
  BY <1>26 DEF DrainFail, Aborted, Leave, durable, clients, inbox, InboxInv, InboxTypeOK
<1>27. ASSUME DrainStopped PROVE InboxStep
  BY <1>27 DEF DrainStopped, Aborted, Leave, durable, clients, inbox, InboxInv, InboxTypeOK
<1>28. ASSUME Crash PROVE InboxStep
  BY <1>28 DEF Crash, durable, inbox, InboxInv, InboxTypeOK
<1>29. ASSUME UNCHANGED vars PROVE InboxStep
  BY <1>29 DEF vars, durable, inbox, coordinator, drain, clients, history, InboxInv,
     InboxTypeOK
<1> QED
  BY <1>1, <1>2, <1>3, <1>4, <1>5, <1>6, <1>7, <1>8, <1>9, <1>10, <1>11, <1>12, <1>13, <1>14,
     <1>15, <1>16, <1>17, <1>18, <1>19, <1>20, <1>21, <1>22, <1>23, <1>24, <1>25, <1>26, <1>27,
     <1>28, <1>29 DEF Next, Admission, Drain
LEMMA StepDrainTypes ==
  ASSUME Base, [Next]_vars
  PROVE  DrainTypes'
<1> USE DEF Base, DrainTypes, Flight!TypeOK
<1>1. ASSUME NEW c \in Client, NEW m \in Msg, NEW d \in Delivery, NEW resume \in Resumes, 
          Prompt(c, m, d, resume)
     PROVE  DrainTypes'
  BY <1>1 DEF Prompt, durable, coordinator, drain, history, inbox
<1>2. ASSUME NEW c \in Client, Find(c) PROVE DrainTypes'
  BY <1>2 DEF Find, Compare, Goto, durable, coordinator, drain, history, inbox
<1>3. ASSUME NEW c \in Client, PromptAdmitted(c) PROVE DrainTypes'
  BY <1>3 DEF PromptAdmitted, Compare, Goto, durable, coordinator, drain, history, inbox
<1>4. ASSUME NEW c \in Client, Refind(c) PROVE DrainTypes'
  BY <1>4 DEF Refind, Compare, Goto, durable, coordinator, drain, history, inbox
<1>5. ASSUME NEW c \in Client, Wake(c) PROVE DrainTypes'
  BY <1>5 DEF Wake, Goto, Launch, durable, drain, history, inbox, Flight!Launch,
     Flight!Coalesce
<1>6. ASSUME NEW c \in Client, Conflict(c) PROVE DrainTypes'
  BY <1>6 DEF Conflict, Goto, durable, coordinator, drain, history, inbox
<1>7. ASSUME Resume PROVE DrainTypes'
  BY <1>7 DEF Resume, Launch, durable, drain, clients, history, inbox, Flight!Launch
<1>8. ASSUME Interrupt PROVE DrainTypes'
  BY <1>8 DEF Interrupt, durable, drain, clients, history, inbox, Flight!Cancel
<1>9. ASSUME NEW m \in Msg, RevertStage(m) PROVE DrainTypes'
  BY <1>9 DEF RevertStage, StageRevert, coordinator, drain, clients, history, inbox
<1>10. ASSUME RevertClear PROVE DrainTypes'
  BY <1>10 DEF RevertClear, ClearRevert, coordinator, drain, clients, history, inbox
<1>11. ASSUME RevertRead PROVE DrainTypes'
  BY <1>11 DEF RevertRead, durable, coordinator, drain, clients, history, inbox
<1>12. ASSUME RevertCommit PROVE DrainTypes'
  BY <1>12 DEF RevertCommit, durable, coordinator, drain, clients, history, inbox
<1>13. ASSUME DrainBegin PROVE DrainTypes'
  BY <1>13 DEF DrainBegin, durable, clients, history, inbox, Flight!Begin
<1>14. ASSUME RunSteer PROVE DrainTypes'
  BY <1>14 DEF RunSteer, Step, durable, coordinator, clients, inbox, InboxInv, InboxTypeOK,
     Delivery
<1>15. ASSUME RunQueue PROVE DrainTypes'
  BY <1>15 DEF RunQueue, Step, durable, history, coordinator, clients, inbox, Delivery
<1>16. ASSUME TurnCutoff PROVE DrainTypes'
  BY <1>16 DEF TurnCutoff, Step, durable, coordinator, clients, history, inbox, InboxInv,
     InboxTypeOK, Delivery
<1>17. ASSUME SelectQueued PROVE DrainTypes'
  BY <1>17, Selected DEF SelectQueued, Select, coordinator, history
<1>18. ASSUME SelectSteers PROVE DrainTypes'
  <2>1. PendingSteers(cutoff) \subseteq Row
    BY Selected
  <2> QED
    BY <1>18, <2>1 DEF SelectSteers, Select, coordinator, history
<1>19. ASSUME PublishNext PROVE DrainTypes'
  BY <1>19 DEF PublishNext, coordinator, clients
<1>20. ASSUME PublishDies PROVE DrainTypes'
  BY <1>20 DEF PublishDies, Aborted, Leave, durable, clients, inbox, Flight!End
<1>21. ASSUME MoreSteers PROVE DrainTypes'
  BY <1>21 DEF MoreSteers, Step, durable, coordinator, clients, inbox, InboxInv, InboxTypeOK,
     Delivery
<1>22. ASSUME MoreQueued PROVE DrainTypes'
  BY <1>22 DEF MoreQueued, Step, durable, history, coordinator, clients, inbox, Delivery
<1>23. ASSUME DrainEnd PROVE DrainTypes'
  BY <1>23 DEF DrainEnd, Leave, durable, clients, inbox, Flight!End
<1>24. ASSUME TurnRetry PROVE DrainTypes'
  BY <1>24 DEF TurnRetry, Step, durable, history, coordinator, clients, inbox, Delivery
<1>25. ASSUME NEW b \in BOOLEAN, TurnEnd(b) PROVE DrainTypes'
  BY <1>25 DEF TurnEnd, Step, durable, coordinator, clients, inbox, Delivery
<1>26. ASSUME DrainFail PROVE DrainTypes'
  BY <1>26 DEF DrainFail, Aborted, Leave, durable, clients, inbox, Flight!End
<1>27. ASSUME DrainStopped PROVE DrainTypes'
  BY <1>27 DEF DrainStopped, Aborted, Leave, durable, clients, inbox, Flight!End
<1>28. ASSUME Crash PROVE DrainTypes'
  BY <1>28 DEF Crash, durable, inbox
<1>29. ASSUME UNCHANGED vars PROVE DrainTypes'
  BY <1>29 DEF vars, durable, inbox, coordinator, drain, clients, history
<1> QED
  BY <1>1, <1>2, <1>3, <1>4, <1>5, <1>6, <1>7, <1>8, <1>9, <1>10, <1>11, <1>12, <1>13, <1>14,
     <1>15, <1>16, <1>17, <1>18, <1>19, <1>20, <1>21, <1>22, <1>23, <1>24, <1>25, <1>26, <1>27,
     <1>28, <1>29 DEF Next, Admission, Drain
LEMMA StepClientTypes ==
  ASSUME Base, [Next]_vars
  PROVE  ClientTypes'
<1> USE DEF Base, ClientTypes
<1>1. ASSUME NEW c \in Client, NEW m \in Msg, NEW d \in Delivery, NEW resume \in Resumes, 
          Prompt(c, m, d, resume)
     PROVE  ClientTypes'
  <2>1. [id |-> m, delivery |-> d, resume |-> resume] \in Call
    BY ResumesAssumption DEF Call
  <2> QED
    BY <1>1, <2>1 DEF Prompt, Call
<1>2. ASSUME NEW c \in Client, Find(c) PROVE ClientTypes'
  BY <1>2 DEF Find, Compare, Goto, durable, coordinator, drain, history, inbox
<1>3. ASSUME NEW c \in Client, PromptAdmitted(c) PROVE ClientTypes'
  BY <1>3 DEF PromptAdmitted, Compare, Goto, durable, coordinator, drain, history, inbox
<1>4. ASSUME NEW c \in Client, Refind(c) PROVE ClientTypes'
  BY <1>4 DEF Refind, Compare, Goto, durable, coordinator, drain, history, inbox
<1>5. ASSUME NEW c \in Client, Wake(c) PROVE ClientTypes'
  BY <1>5 DEF Wake, Goto, Launch, durable, drain, history, inbox
<1>6. ASSUME NEW c \in Client, Conflict(c) PROVE ClientTypes'
  BY <1>6 DEF Conflict, Goto, durable, coordinator, drain, history, inbox
<1>7. ASSUME Resume PROVE ClientTypes'
  BY <1>7 DEF Resume, Launch, durable, drain, clients, history, inbox
<1>8. ASSUME Interrupt PROVE ClientTypes'
  BY <1>8 DEF Interrupt, durable, drain, clients, history, inbox
<1>9. ASSUME NEW m \in Msg, RevertStage(m) PROVE ClientTypes'
  BY <1>9 DEF RevertStage, StageRevert, coordinator, drain, clients, history, inbox
<1>10. ASSUME RevertClear PROVE ClientTypes'
  BY <1>10 DEF RevertClear, ClearRevert, coordinator, drain, clients, history, inbox
<1>11. ASSUME RevertRead PROVE ClientTypes'
  BY <1>11 DEF RevertRead, durable, coordinator, drain, clients, history, inbox
<1>12. ASSUME RevertCommit PROVE ClientTypes'
  BY <1>12 DEF RevertCommit, durable, coordinator, drain, clients, history, inbox
<1>13. ASSUME DrainBegin PROVE ClientTypes'
  BY <1>13 DEF DrainBegin, durable, clients, history, inbox
<1>14. ASSUME RunSteer PROVE ClientTypes'
  BY <1>14 DEF RunSteer, Step, durable, coordinator, clients, inbox
<1>15. ASSUME RunQueue PROVE ClientTypes'
  BY <1>15 DEF RunQueue, Step, durable, history, coordinator, clients, inbox
<1>16. ASSUME TurnCutoff PROVE ClientTypes'
  BY <1>16 DEF TurnCutoff, Step, durable, coordinator, clients, history, inbox
<1>17. ASSUME SelectQueued PROVE ClientTypes'
  BY <1>17 DEF SelectQueued, Select, durable, coordinator, clients, history, inbox
<1>18. ASSUME SelectSteers PROVE ClientTypes'
  BY <1>18 DEF SelectSteers, Select, durable, coordinator, clients, history, inbox
<1>19. ASSUME PublishNext PROVE ClientTypes'
  BY <1>19 DEF PublishNext, coordinator, clients
<1>20. ASSUME PublishDies PROVE ClientTypes'
  BY <1>20 DEF PublishDies, Aborted, Leave, durable, clients, inbox
<1>21. ASSUME MoreSteers PROVE ClientTypes'
  BY <1>21 DEF MoreSteers, Step, durable, coordinator, clients, inbox
<1>22. ASSUME MoreQueued PROVE ClientTypes'
  BY <1>22 DEF MoreQueued, Step, durable, history, coordinator, clients, inbox
<1>23. ASSUME DrainEnd PROVE ClientTypes'
  BY <1>23 DEF DrainEnd, Leave, durable, clients, inbox
<1>24. ASSUME TurnRetry PROVE ClientTypes'
  BY <1>24 DEF TurnRetry, Step, durable, history, coordinator, clients, inbox
<1>25. ASSUME NEW b \in BOOLEAN, TurnEnd(b) PROVE ClientTypes'
  BY <1>25 DEF TurnEnd, Step, durable, coordinator, clients, inbox
<1>26. ASSUME DrainFail PROVE ClientTypes'
  BY <1>26 DEF DrainFail, Aborted, Leave, durable, clients, inbox
<1>27. ASSUME DrainStopped PROVE ClientTypes'
  BY <1>27 DEF DrainStopped, Aborted, Leave, durable, clients, inbox
<1>28. ASSUME Crash PROVE ClientTypes'
  BY <1>28 DEF Crash, durable, inbox, NoCall
<1>29. ASSUME UNCHANGED vars PROVE ClientTypes'
  BY <1>29 DEF vars, durable, inbox, coordinator, drain, clients, history
<1> QED
  BY <1>1, <1>2, <1>3, <1>4, <1>5, <1>6, <1>7, <1>8, <1>9, <1>10, <1>11, <1>12, <1>13, <1>14,
     <1>15, <1>16, <1>17, <1>18, <1>19, <1>20, <1>21, <1>22, <1>23, <1>24, <1>25, <1>26, <1>27,
     <1>28, <1>29 DEF Next, Admission, Drain
LEMMA StepOtherTypes ==
  ASSUME Base, [Next]_vars
  PROVE  OtherTypes'
<1> USE DEF Base, OtherTypes
<1>1. ASSUME NEW c \in Client, NEW m \in Msg, NEW d \in Delivery, NEW resume \in Resumes, 
          Prompt(c, m, d, resume)
     PROVE  OtherTypes'
  BY <1>1 DEF Prompt, durable, coordinator, drain, history, inbox
<1>2. ASSUME NEW c \in Client, Find(c) PROVE OtherTypes'
  BY <1>2 DEF Find, Compare, Goto, durable, coordinator, drain, history, inbox
<1>3. ASSUME NEW c \in Client, PromptAdmitted(c) PROVE OtherTypes'
  BY <1>3 DEF PromptAdmitted, Compare, Goto, durable, coordinator, drain, history, inbox
<1>4. ASSUME NEW c \in Client, Refind(c) PROVE OtherTypes'
  BY <1>4 DEF Refind, Compare, Goto, durable, coordinator, drain, history, inbox
<1>5. ASSUME NEW c \in Client, Wake(c) PROVE OtherTypes'
  <2>1. call[c].id \in Msg
    BY <1>5 DEF Wake, ClientTypes
  <2> QED
    BY <1>5, <2>1 DEF Wake
<1>6. ASSUME NEW c \in Client, Conflict(c) PROVE OtherTypes'
  BY <1>6 DEF Conflict, Goto, durable, coordinator, drain, history, inbox
<1>7. ASSUME Resume PROVE OtherTypes'
  BY <1>7 DEF Resume, Launch, durable, drain, clients, history, inbox
<1>8. ASSUME Interrupt PROVE OtherTypes'
  BY <1>8 DEF Interrupt, durable, drain, clients, history, inbox
<1>9. ASSUME NEW m \in Msg, RevertStage(m) PROVE OtherTypes'
  BY <1>9 DEF RevertStage, StageRevert, coordinator, drain, clients, history, inbox
<1>10. ASSUME RevertClear PROVE OtherTypes'
  BY <1>10 DEF RevertClear, ClearRevert, coordinator, drain, clients, history, inbox
<1>11. ASSUME RevertRead PROVE OtherTypes'
  BY <1>11 DEF RevertRead, durable, coordinator, drain, clients, history, inbox, InboxInv,
     InboxTypeOK
<1>12. ASSUME RevertCommit PROVE OtherTypes'
  BY <1>12, MaxRevertAssumption DEF RevertCommit
<1>13. ASSUME DrainBegin PROVE OtherTypes'
  BY <1>13 DEF DrainBegin, durable, clients, history, inbox
<1>14. ASSUME RunSteer PROVE OtherTypes'
  BY <1>14 DEF RunSteer, Step, durable, coordinator, clients, inbox
<1>15. ASSUME RunQueue PROVE OtherTypes'
  BY <1>15 DEF RunQueue, Step, durable, history, coordinator, clients, inbox
<1>16. ASSUME TurnCutoff PROVE OtherTypes'
  BY <1>16 DEF TurnCutoff, Step, durable, coordinator, clients, history, inbox
<1>17. ASSUME SelectQueued PROVE OtherTypes'
  BY <1>17 DEF SelectQueued, Select, durable, coordinator, clients, history, inbox
<1>18. ASSUME SelectSteers PROVE OtherTypes'
  BY <1>18 DEF SelectSteers, Select, durable, coordinator, clients, history, inbox
<1>19. ASSUME PublishNext PROVE OtherTypes'
  BY <1>19 DEF PublishNext, coordinator, clients, Row
<1>20. ASSUME PublishDies PROVE OtherTypes'
  BY <1>20 DEF PublishDies, Aborted, Leave, durable, clients, inbox
<1>21. ASSUME MoreSteers PROVE OtherTypes'
  BY <1>21 DEF MoreSteers, Step, durable, coordinator, clients, inbox
<1>22. ASSUME MoreQueued PROVE OtherTypes'
  BY <1>22 DEF MoreQueued, Step, durable, history, coordinator, clients, inbox
<1>23. ASSUME DrainEnd PROVE OtherTypes'
  BY <1>23 DEF DrainEnd, Leave, durable, clients, inbox
<1>24. ASSUME TurnRetry PROVE OtherTypes'
  BY <1>24 DEF TurnRetry, Step, durable, history, coordinator, clients, inbox
<1>25. ASSUME NEW b \in BOOLEAN, TurnEnd(b) PROVE OtherTypes'
  BY <1>25 DEF TurnEnd, Step, durable, coordinator, clients, inbox
<1>26. ASSUME DrainFail PROVE OtherTypes'
  BY <1>26 DEF DrainFail, Aborted, Leave, durable, clients, inbox
<1>27. ASSUME DrainStopped PROVE OtherTypes'
  BY <1>27 DEF DrainStopped, Aborted, Leave, durable, clients, inbox
<1>28. ASSUME Crash PROVE OtherTypes'
  BY <1>28 DEF Crash, durable, inbox
<1>29. ASSUME UNCHANGED vars PROVE OtherTypes'
  BY <1>29 DEF vars, durable, inbox, coordinator, drain, clients, history
<1> QED
  BY <1>1, <1>2, <1>3, <1>4, <1>5, <1>6, <1>7, <1>8, <1>9, <1>10, <1>11, <1>12, <1>13, <1>14,
     <1>15, <1>16, <1>17, <1>18, <1>19, <1>20, <1>21, <1>22, <1>23, <1>24, <1>25, <1>26, <1>27,
     <1>28, <1>29 DEF Next, Admission, Drain

LEMMA BaseInit == Init => Base
<1> SUFFICES ASSUME Init PROVE Base
  OBVIOUS
<1>1. InboxInv
  BY InitInbox DEF Init
<1>2. DrainTypes
  BY DEF Init, DrainTypes, Flight!Init, Flight!TypeOK
<1>3. ClientTypes /\ OtherTypes
  BY MaxRevertAssumption DEF Init, ClientTypes, OtherTypes
<1> QED
  BY <1>1, <1>2, <1>3 DEF Base

LEMMA StepBase == Base /\ [Next]_vars => Base'
<1> SUFFICES ASSUME Base, [Next]_vars PROVE Base'
  OBVIOUS
<1>1. InboxInv'
  <2>1. CASE UNCHANGED inbox /\ UNCHANGED <<seq, transcript>> /\ staged' \in Msg \cup {NoMsg}
    BY <2>1 DEF Base, InboxInv, InboxTypeOK, inbox, Stored
  <2>2. ASSUME NEW m \in Msg, NEW d \in Delivery, Admit(m, d) PROVE InboxInv'
    BY <2>2, AdmitInbox DEF Base
  <2>3. ASSUME NEW r \in Row, Consume(r) \/ Reinsert(r) PROVE InboxInv'
    BY <2>3, ConsumeInbox, ReinsertInbox DEF Base
  <2>4. ASSUME NEW b \in Msg, CommitRevert(b) PROVE InboxInv'
    BY <2>4, RevertInbox DEF Base
  <2> QED
    BY <2>1, <2>2, <2>3, <2>4, NextInbox DEF InboxStep
<1> QED
  BY <1>1, StepDrainTypes, StepClientTypes, StepOtherTypes DEF Base

LEMMA BaseInvariant == Spec => []Base
BY BaseInit, StepBase, PTL DEF Spec

(* Every variable keeps its type.                                          *)
THEOREM TypeCorrect == Spec => []TypeOK
<1>1. Base => TypeOK
  BY DEF Base, InboxInv, DrainTypes, ClientTypes, OtherTypes, TypeOK
<1> QED
  BY <1>1, BaseInvariant, PTL

(* A user message is in the transcript exactly where its input was         *)
(* promoted, however reverts fall between the steps of a drain and         *)
(* whenever the process dies (the projections of Prompted and of           *)
(* Revert.Committed in projector.ts and input.ts).                         *)
THEOREM TranscriptAgrees == Spec => []TranscriptMatchesInbox
<1>1. Base => TranscriptMatchesInbox
  BY DEF Base, InboxInv, TranscriptMatchesInbox
<1> QED
  BY <1>1, BaseInvariant, PTL

-----------------------------------------------------------------------------
\* A queued input is opened when it is its turn.

Executing == dpc # "off" => phase[Session] = "running"

(* The drain is on its way to a queued input.                              *)
Opening == dpc \in {"idle?", "select queued", "publish queued"} \/ dpc = "queue?" \/ (dpc = "turn" /\ promotion = "queue")

(* Nothing was opened since a turn has ended, until the row is published.  *)
Answers ==
  dpc \in {"off", "steer?", "more?"} \/ (Opening /\ (dpc = "publish queued" => rows # {})) => answered

(* A selection holds inputs of one delivery, and at most one that was      *)
(* queued.                                                                 *)
Chosen ==
  /\ dpc = "publish queued" => (\A r \in rows : r.delivery = "queue") /\ (\A r, s \in rows : r = s)
  /\ dpc = "publish steers" => \A r \in rows : r.delivery = "steer"

SteersLater == \A n \in Msg : Pending(n, "steer") => admitted[n] > checked

Looked ==
  /\ checked <= seq
  /\ Opening => SteersLater

TurnInv == Executing /\ Answers /\ Chosen /\ Looked

LEMMA OneQueued ==
  ASSUME InboxInv
  PROVE  (\A r \in NextQueued : r.delivery = "queue") /\ (\A r, s \in NextQueued : r = s)
<1>1. ASSUME NEW m \in Msg, NEW n \in Msg, Pending(m, "queue"), Pending(n, "queue"),
             admitted[m] <= admitted[n], admitted[n] <= admitted[m]
      PROVE  m = n
  BY <1>1 DEF InboxInv, InboxTypeOK, Pending, Stored
<1> QED
  BY <1>1 DEF NextQueued, RowOf, Pending

LEMMA OnlySteers == ASSUME NEW n, NEW r \in PendingSteers(n) PROVE r.delivery = "steer"
<1>1. PICK m \in Msg : Pending(m, "steer") /\ r = RowOf(m)
  BY DEF PendingSteers
<1> QED
  BY <1>1 DEF RowOf, Pending

LEMMA StepTurn ==
  ASSUME Base, TurnInv, [Next]_vars
  PROVE  (Executing /\ Answers /\ Chosen)'
<1> USE DEF Base, TurnInv, Executing, Answers, Opening, Chosen
<1>1. ASSUME NEW c \in Client, NEW m \in Msg, NEW d \in Delivery, NEW resume \in Resumes, 
          Prompt(c, m, d, resume)
     PROVE  (Executing /\ Answers /\ Chosen)'
  BY <1>1 DEF Prompt, durable, coordinator, drain, history, inbox
<1>2. ASSUME NEW c \in Client, Find(c) PROVE (Executing /\ Answers /\ Chosen)'
  BY <1>2 DEF Find, Compare, Goto, durable, coordinator, drain, history, inbox
<1>3. ASSUME NEW c \in Client, PromptAdmitted(c) PROVE (Executing /\ Answers /\ Chosen)'
  BY <1>3 DEF PromptAdmitted, Compare, Goto, durable, coordinator, drain, history, inbox
<1>4. ASSUME NEW c \in Client, Refind(c) PROVE (Executing /\ Answers /\ Chosen)'
  BY <1>4 DEF Refind, Compare, Goto, durable, coordinator, drain, history, inbox
<1>5. ASSUME NEW c \in Client, Wake(c) PROVE (Executing /\ Answers /\ Chosen)'
  BY <1>5 DEF Wake, Goto, Launch, durable, drain, history, inbox, Flight!Launch,
     Flight!Coalesce, DrainTypes, Flight!TypeOK
<1>6. ASSUME NEW c \in Client, Conflict(c) PROVE (Executing /\ Answers /\ Chosen)'
  BY <1>6 DEF Conflict, Goto, durable, coordinator, drain, history, inbox
<1>7. ASSUME Resume PROVE (Executing /\ Answers /\ Chosen)'
  BY <1>7 DEF Resume, Launch, durable, drain, clients, history, inbox, Flight!Launch,
     DrainTypes, Flight!TypeOK
<1>8. ASSUME Interrupt PROVE (Executing /\ Answers /\ Chosen)'
  BY <1>8 DEF Interrupt, durable, drain, clients, history, inbox, Flight!Cancel, DrainTypes,
     Flight!TypeOK
<1>9. ASSUME NEW m \in Msg, RevertStage(m) PROVE (Executing /\ Answers /\ Chosen)'
  BY <1>9 DEF RevertStage, StageRevert, coordinator, drain, clients, history, inbox
<1>10. ASSUME RevertClear PROVE (Executing /\ Answers /\ Chosen)'
  BY <1>10 DEF RevertClear, ClearRevert, coordinator, drain, clients, history, inbox
<1>11. ASSUME RevertRead PROVE (Executing /\ Answers /\ Chosen)'
  BY <1>11 DEF RevertRead, durable, coordinator, drain, clients, history, inbox
<1>12. ASSUME RevertCommit PROVE (Executing /\ Answers /\ Chosen)'
  BY <1>12 DEF RevertCommit, durable, coordinator, drain, clients, history, inbox
<1>13. ASSUME DrainBegin PROVE (Executing /\ Answers /\ Chosen)'
  BY <1>13 DEF DrainBegin, durable, clients, history, inbox, Flight!Begin, DrainTypes,
     Flight!TypeOK
<1>14. ASSUME RunSteer PROVE (Executing /\ Answers /\ Chosen)'
  BY <1>14 DEF RunSteer, Step, durable, coordinator, clients, inbox
<1>15. ASSUME RunQueue PROVE (Executing /\ Answers /\ Chosen)'
  BY <1>15 DEF RunQueue, Step, durable, history, coordinator, clients, inbox
<1>16. ASSUME TurnCutoff PROVE (Executing /\ Answers /\ Chosen)'
  BY <1>16 DEF TurnCutoff, Step, durable, coordinator, clients, history, inbox
<1>17. ASSUME SelectQueued PROVE (Executing /\ Answers /\ Chosen)'
  <2>1. NextQueued # {} => dpc' = "publish queued"
    BY <1>17 DEF SelectQueued, Select
  <2> QED
    BY <1>17, OneQueued DEF SelectQueued, Select, coordinator, history
<1>18. ASSUME SelectSteers PROVE (Executing /\ Answers /\ Chosen)'
  <2>1. dpc' \in {"publish steers", "provider"} /\ rows' = PendingSteers(cutoff) /\ phase' = phase
    BY <1>18 DEF SelectSteers, Select, coordinator
  <2>2. \A r \in PendingSteers(cutoff) : r.delivery = "steer"
    BY OnlySteers
  <2>3. dpc = "select steers"
    BY <1>18 DEF SelectSteers
  <2> QED
    BY <2>1, <2>2, <2>3
<1>19. ASSUME PublishNext PROVE (Executing /\ Answers /\ Chosen)'
  BY <1>19 DEF PublishNext, coordinator, clients, DrainTypes
<1>20. ASSUME PublishDies PROVE (Executing /\ Answers /\ Chosen)'
  BY <1>20 DEF PublishDies, Aborted, Leave, durable, clients, inbox, Flight!End, DrainTypes,
     Flight!TypeOK
<1>21. ASSUME MoreSteers PROVE (Executing /\ Answers /\ Chosen)'
  BY <1>21 DEF MoreSteers, Step, durable, coordinator, clients, inbox
<1>22. ASSUME MoreQueued PROVE (Executing /\ Answers /\ Chosen)'
  BY <1>22 DEF MoreQueued, Step, durable, history, coordinator, clients, inbox
<1>23. ASSUME DrainEnd PROVE (Executing /\ Answers /\ Chosen)'
  BY <1>23 DEF DrainEnd, Leave, durable, clients, inbox, Flight!End, DrainTypes, Flight!TypeOK
<1>24. ASSUME TurnRetry PROVE (Executing /\ Answers /\ Chosen)'
  BY <1>24 DEF TurnRetry, Step, durable, history, coordinator, clients, inbox
<1>25. ASSUME NEW b \in BOOLEAN, TurnEnd(b) PROVE (Executing /\ Answers /\ Chosen)'
  BY <1>25 DEF TurnEnd, Step, durable, coordinator, clients, inbox
<1>26. ASSUME DrainFail PROVE (Executing /\ Answers /\ Chosen)'
  BY <1>26 DEF DrainFail, Aborted, Leave, durable, clients, inbox, Flight!End, DrainTypes,
     Flight!TypeOK
<1>27. ASSUME DrainStopped PROVE (Executing /\ Answers /\ Chosen)'
  BY <1>27 DEF DrainStopped, Aborted, Leave, durable, clients, inbox, Flight!End, DrainTypes,
     Flight!TypeOK
<1>28. ASSUME Crash PROVE (Executing /\ Answers /\ Chosen)'
  BY <1>28 DEF Crash, durable, inbox
<1>29. ASSUME UNCHANGED vars PROVE (Executing /\ Answers /\ Chosen)'
  BY <1>29 DEF vars, durable, inbox, coordinator, drain, clients, history
<1> QED
  BY <1>1, <1>2, <1>3, <1>4, <1>5, <1>6, <1>7, <1>8, <1>9, <1>10, <1>11, <1>12, <1>13, <1>14,
     <1>15, <1>16, <1>17, <1>18, <1>19, <1>20, <1>21, <1>22, <1>23, <1>24, <1>25, <1>26, <1>27,
     <1>28, <1>29 DEF Next, Admission, Drain
(* A steer that is admitted has a later sequence than any look before.     *)
LEMMA SteersStayLater ==
  ASSUME Base, InboxStep, checked <= seq
  PROVE  /\ checked <= seq' /\ seq <= seq'
         /\ SteersLater => \A n \in Msg : Pending(n, "steer")' => admitted'[n] > checked
<1>0. /\ seq \in Nat /\ checked \in Nat /\ admitted \in [Msg -> Nat] /\ promoted \in [Msg -> Nat]
      /\ delivery \in [Msg -> Delivery \cup {"none"}]
  BY DEF Base, InboxInv, InboxTypeOK, DrainTypes
<1> USE <1>0 DEF SteersLater, Pending
<1>1. CASE UNCHANGED inbox /\ UNCHANGED <<seq, transcript>>
  BY <1>1 DEF inbox
<1>2. ASSUME NEW m \in Msg, NEW d \in Delivery, Admit(m, d)
      PROVE  /\ seq' = seq + 1
             /\ SteersLater => \A n \in Msg : Pending(n, "steer")' => admitted'[n] > checked
  BY <1>2 DEF Admit
<1>3. ASSUME NEW r \in Row, Consume(r) \/ Reinsert(r)
      PROVE  /\ seq' = seq + 1
             /\ SteersLater => \A n \in Msg : Pending(n, "steer")' => admitted'[n] > checked
  BY <1>3 DEF Consume, Reinsert, Row
<1>4. ASSUME NEW b \in Msg, CommitRevert(b)
      PROVE  /\ seq' = seq + 1
             /\ SteersLater => \A n \in Msg : Pending(n, "steer")' => admitted'[n] > checked
  BY <1>4 DEF CommitRevert
<1>5. \/ UNCHANGED inbox /\ UNCHANGED <<seq, transcript>>
      \/ seq' = seq + 1 /\ (SteersLater => \A n \in Msg : Pending(n, "steer")' => admitted'[n] > checked)
  BY <1>2, <1>3, <1>4 DEF InboxStep
<1> QED
  BY <1>1, <1>5

LEMMA StepLooked ==
  ASSUME Base, TurnInv, [Next]_vars
  PROVE  Looked'
<1> DEFINE Later == \A n \in Msg : Pending(n, "steer")' => admitted'[n] > checked
<1>a. /\ checked <= seq' /\ seq <= seq' /\ seq \in Nat /\ seq' \in Nat /\ checked \in Nat
      /\ SteersLater => Later
  BY NextInbox, SteersStayLater, StepBase DEF TurnInv, Looked, Base, InboxInv, InboxTypeOK, DrainTypes
<1>b. checked' = checked /\ (Opening' => Opening) => Looked'
  BY <1>a DEF Looked, SteersLater, TurnInv
<1>c. checked' = 0 /\ ~Opening' => Looked'
  BY <1>a DEF Looked
<1> HIDE DEF Later
<1> USE DEF Base, TurnInv, Opening
<1>1. ASSUME NEW c \in Client, NEW m \in Msg, NEW d \in Delivery, NEW resume \in Resumes, 
          Prompt(c, m, d, resume)
     PROVE  Looked'
  <2>1. checked' = checked /\ (Opening' => Opening)
    BY <1>1 DEF Prompt, durable, coordinator, drain, history, inbox
  <2> QED
    BY <2>1, <1>b
<1>2. ASSUME NEW c \in Client, Find(c) PROVE Looked'
  <2>1. checked' = checked /\ (Opening' => Opening)
    BY <1>2 DEF Find, Compare, Goto, durable, coordinator, drain, history, inbox
  <2> QED
    BY <2>1, <1>b
<1>3. ASSUME NEW c \in Client, PromptAdmitted(c) PROVE Looked'
  <2>1. checked' = checked /\ (Opening' => Opening)
    BY <1>3 DEF PromptAdmitted, Compare, Goto, durable, coordinator, drain, history, inbox
  <2> QED
    BY <2>1, <1>b
<1>4. ASSUME NEW c \in Client, Refind(c) PROVE Looked'
  <2>1. checked' = checked /\ (Opening' => Opening)
    BY <1>4 DEF Refind, Compare, Goto, durable, coordinator, drain, history, inbox
  <2> QED
    BY <2>1, <1>b
<1>5. ASSUME NEW c \in Client, Wake(c) PROVE Looked'
  <2>1. checked' = checked /\ (Opening' => Opening)
    BY <1>5 DEF Wake, Goto, Launch, durable, drain, history, inbox
  <2> QED
    BY <2>1, <1>b
<1>6. ASSUME NEW c \in Client, Conflict(c) PROVE Looked'
  <2>1. checked' = checked /\ (Opening' => Opening)
    BY <1>6 DEF Conflict, Goto, durable, coordinator, drain, history, inbox
  <2> QED
    BY <2>1, <1>b
<1>7. ASSUME Resume PROVE Looked'
  <2>1. checked' = checked /\ (Opening' => Opening)
    BY <1>7 DEF Resume, Launch, durable, drain, clients, history, inbox
  <2> QED
    BY <2>1, <1>b
<1>8. ASSUME Interrupt PROVE Looked'
  <2>1. checked' = checked /\ (Opening' => Opening)
    BY <1>8 DEF Interrupt, durable, drain, clients, history, inbox
  <2> QED
    BY <2>1, <1>b
<1>9. ASSUME NEW m \in Msg, RevertStage(m) PROVE Looked'
  <2>1. checked' = checked /\ (Opening' => Opening)
    BY <1>9 DEF RevertStage, StageRevert, coordinator, drain, clients, history, inbox
  <2> QED
    BY <2>1, <1>b
<1>10. ASSUME RevertClear PROVE Looked'
  <2>1. checked' = checked /\ (Opening' => Opening)
    BY <1>10 DEF RevertClear, ClearRevert, coordinator, drain, clients, history, inbox
  <2> QED
    BY <2>1, <1>b
<1>11. ASSUME RevertRead PROVE Looked'
  <2>1. checked' = checked /\ (Opening' => Opening)
    BY <1>11 DEF RevertRead, durable, coordinator, drain, clients, history, inbox
  <2> QED
    BY <2>1, <1>b
<1>12. ASSUME RevertCommit PROVE Looked'
  <2>1. checked' = checked /\ (Opening' => Opening)
    BY <1>12 DEF RevertCommit, durable, coordinator, drain, clients, history, inbox
  <2> QED
    BY <2>1, <1>b
<1>13. ASSUME DrainBegin PROVE Looked'
  <2>1. checked' = checked /\ (Opening' => Opening)
    BY <1>13 DEF DrainBegin, durable, clients, history, inbox
  <2> QED
    BY <2>1, <1>b
<1>14. ASSUME RunSteer PROVE Looked'
  <2>1. /\ checked' = seq /\ UNCHANGED durable
        /\ Opening' => ~HasPending("steer")
    BY <1>14 DEF RunSteer, Step, durable, coordinator, clients, inbox
  <2> QED
    BY <2>1, <1>a DEF Looked, SteersLater, HasPending, Pending, durable, inbox
<1>15. ASSUME RunQueue PROVE Looked'
  <2>1. checked' = checked /\ (Opening' => Opening)
    BY <1>15 DEF RunQueue, Step, durable, history, coordinator, clients, inbox
  <2> QED
    BY <2>1, <1>b
<1>16. ASSUME TurnCutoff PROVE Looked'
  <2>1. checked' = checked /\ (Opening' => Opening)
    BY <1>16 DEF TurnCutoff, Step, durable, coordinator, clients, history, inbox
  <2> QED
    BY <2>1, <1>b
<1>17. ASSUME SelectQueued PROVE Looked'
  <2>1. checked' = checked /\ (Opening' => Opening)
    BY <1>17 DEF SelectQueued, Select, durable, coordinator, clients, history, inbox
  <2> QED
    BY <2>1, <1>b
<1>18. ASSUME SelectSteers PROVE Looked'
  <2>1. checked' = checked /\ (Opening' => Opening)
    BY <1>18 DEF SelectSteers, Select, durable, coordinator, clients, history, inbox
  <2> QED
    BY <2>1, <1>b
<1>19. ASSUME PublishNext PROVE Looked'
  <2>1. checked' = checked /\ (Opening' => Opening)
    BY <1>19 DEF PublishNext, coordinator, clients
  <2> QED
    BY <2>1, <1>b
<1>20. ASSUME PublishDies PROVE Looked'
  <2>1. checked' = 0 /\ ~Opening'
    BY <1>20 DEF PublishDies, Aborted, Leave, durable, clients, inbox
  <2> QED
    BY <2>1, <1>c
<1>21. ASSUME MoreSteers PROVE Looked'
  <2>1. /\ checked' = seq /\ UNCHANGED durable
        /\ Opening' => ~HasPending("steer")
    BY <1>21 DEF MoreSteers, Step, durable, coordinator, clients, inbox
  <2> QED
    BY <2>1, <1>a DEF Looked, SteersLater, HasPending, Pending, durable, inbox
<1>22. ASSUME MoreQueued PROVE Looked'
  <2>1. checked' = checked /\ (Opening' => Opening)
    BY <1>22 DEF MoreQueued, Step, durable, history, coordinator, clients, inbox
  <2> QED
    BY <2>1, <1>b
<1>23. ASSUME DrainEnd PROVE Looked'
  <2>1. checked' = 0 /\ ~Opening'
    BY <1>23 DEF DrainEnd, Leave, durable, clients, inbox
  <2> QED
    BY <2>1, <1>c
<1>24. ASSUME TurnRetry PROVE Looked'
  <2>1. checked' = checked /\ (Opening' => Opening)
    BY <1>24 DEF TurnRetry, Step, durable, history, coordinator, clients, inbox
  <2> QED
    BY <2>1, <1>b
<1>25. ASSUME NEW b \in BOOLEAN, TurnEnd(b) PROVE Looked'
  <2>1. checked' = 0 /\ ~Opening'
    BY <1>25 DEF TurnEnd, Step, durable, coordinator, clients, inbox
  <2> QED
    BY <2>1, <1>c
<1>26. ASSUME DrainFail PROVE Looked'
  <2>1. checked' = 0 /\ ~Opening'
    BY <1>26 DEF DrainFail, Aborted, Leave, durable, clients, inbox
  <2> QED
    BY <2>1, <1>c
<1>27. ASSUME DrainStopped PROVE Looked'
  <2>1. checked' = 0 /\ ~Opening'
    BY <1>27 DEF DrainStopped, Aborted, Leave, durable, clients, inbox
  <2> QED
    BY <2>1, <1>c
<1>28. ASSUME Crash PROVE Looked'
  <2>1. checked' = 0 /\ ~Opening'
    BY <1>28 DEF Crash, durable, inbox
  <2> QED
    BY <2>1, <1>c
<1>29. ASSUME UNCHANGED vars PROVE Looked'
  <2>1. checked' = checked /\ (Opening' => Opening)
    BY <1>29 DEF vars, durable, inbox, coordinator, drain, clients, history
  <2> QED
    BY <2>1, <1>b
<1> QED
  BY <1>1, <1>2, <1>3, <1>4, <1>5, <1>6, <1>7, <1>8, <1>9, <1>10, <1>11, <1>12, <1>13, <1>14,
     <1>15, <1>16, <1>17, <1>18, <1>19, <1>20, <1>21, <1>22, <1>23, <1>24, <1>25, <1>26, <1>27,
     <1>28, <1>29 DEF Next, Admission, Drain

LEMMA TurnInvariant == Spec => [](Base /\ TurnInv)
<1>1. Init => TurnInv
  BY DEF Init, InboxInit, Flight!Init, TurnInv, Executing, Answers, Opening, Chosen, Looked
<1>2. Base /\ TurnInv /\ [Next]_vars => TurnInv'
  BY StepTurn, StepLooked DEF TurnInv
<1> QED
  BY <1>1, <1>2, BaseInvariant, PTL DEF Spec

LEMMA OnlyPublished ==
  ASSUME Base, [Next]_vars, NEW n \in Msg, promoted[n] = 0, promoted'[n] # 0
  PROVE  PublishNext
<1>1. ASSUME NEW c \in Client, NEW m \in Msg, NEW d \in Delivery, NEW resume \in Resumes, 
          Prompt(c, m, d, resume)
     PROVE  PublishNext
  BY <1>1 DEF Prompt, durable, coordinator, drain, history, inbox
<1>2. ASSUME NEW c \in Client, Find(c) PROVE PublishNext
  BY <1>2 DEF Find, Compare, Goto, durable, coordinator, drain, history, inbox
<1>3. ASSUME NEW c \in Client, PromptAdmitted(c) PROVE PublishNext
  BY <1>3 DEF PromptAdmitted, Compare, Goto, durable, coordinator, drain, history, inbox, Admit
<1>4. ASSUME NEW c \in Client, Refind(c) PROVE PublishNext
  BY <1>4 DEF Refind, Compare, Goto, durable, coordinator, drain, history, inbox
<1>5. ASSUME NEW c \in Client, Wake(c) PROVE PublishNext
  BY <1>5 DEF Wake, Goto, Launch, durable, drain, history, inbox
<1>6. ASSUME NEW c \in Client, Conflict(c) PROVE PublishNext
  BY <1>6 DEF Conflict, Goto, durable, coordinator, drain, history, inbox
<1>7. ASSUME Resume PROVE PublishNext
  BY <1>7 DEF Resume, Launch, durable, drain, clients, history, inbox
<1>8. ASSUME Interrupt PROVE PublishNext
  BY <1>8 DEF Interrupt, durable, drain, clients, history, inbox
<1>9. ASSUME NEW m \in Msg, RevertStage(m) PROVE PublishNext
  BY <1>9 DEF RevertStage, StageRevert, coordinator, drain, clients, history, inbox, durable
<1>10. ASSUME RevertClear PROVE PublishNext
  BY <1>10 DEF RevertClear, ClearRevert, coordinator, drain, clients, history, inbox, durable
<1>11. ASSUME RevertRead PROVE PublishNext
  BY <1>11 DEF RevertRead, durable, coordinator, drain, clients, history, inbox
<1>12. ASSUME RevertCommit PROVE PublishNext
  BY <1>12 DEF RevertCommit, CommitRevert, durable, inbox
<1>13. ASSUME DrainBegin PROVE PublishNext
  BY <1>13 DEF DrainBegin, durable, clients, history, inbox
<1>14. ASSUME RunSteer PROVE PublishNext
  BY <1>14 DEF RunSteer, Step, durable, coordinator, clients, inbox
<1>15. ASSUME RunQueue PROVE PublishNext
  BY <1>15 DEF RunQueue, Step, durable, history, coordinator, clients, inbox
<1>16. ASSUME TurnCutoff PROVE PublishNext
  BY <1>16 DEF TurnCutoff, Step, durable, coordinator, clients, history, inbox
<1>17. ASSUME SelectQueued PROVE PublishNext
  BY <1>17 DEF SelectQueued, Select, durable, coordinator, clients, history, inbox
<1>18. ASSUME SelectSteers PROVE PublishNext
  BY <1>18 DEF SelectSteers, Select, durable, coordinator, clients, history, inbox
<1>19. ASSUME PublishNext PROVE PublishNext
  BY <1>19
<1>20. ASSUME PublishDies PROVE PublishNext
  BY <1>20 DEF PublishDies, Aborted, Leave, durable, clients, inbox
<1>21. ASSUME MoreSteers PROVE PublishNext
  BY <1>21 DEF MoreSteers, Step, durable, coordinator, clients, inbox
<1>22. ASSUME MoreQueued PROVE PublishNext
  BY <1>22 DEF MoreQueued, Step, durable, history, coordinator, clients, inbox
<1>23. ASSUME DrainEnd PROVE PublishNext
  BY <1>23 DEF DrainEnd, Leave, durable, clients, inbox
<1>24. ASSUME TurnRetry PROVE PublishNext
  BY <1>24 DEF TurnRetry, Step, durable, history, coordinator, clients, inbox
<1>25. ASSUME NEW b \in BOOLEAN, TurnEnd(b) PROVE PublishNext
  BY <1>25 DEF TurnEnd, Step, durable, coordinator, clients, inbox
<1>26. ASSUME DrainFail PROVE PublishNext
  BY <1>26 DEF DrainFail, Aborted, Leave, durable, clients, inbox
<1>27. ASSUME DrainStopped PROVE PublishNext
  BY <1>27 DEF DrainStopped, Aborted, Leave, durable, clients, inbox
<1>28. ASSUME Crash PROVE PublishNext
  BY <1>28 DEF Crash, durable, inbox
<1>29. ASSUME UNCHANGED vars PROVE PublishNext
  BY <1>29 DEF vars, durable, inbox, coordinator, drain, clients, history
<1> QED
  BY <1>1, <1>2, <1>3, <1>4, <1>5, <1>6, <1>7, <1>8, <1>9, <1>10, <1>11, <1>12, <1>13, <1>14,
     <1>15, <1>16, <1>17, <1>18, <1>19, <1>20, <1>21, <1>22, <1>23, <1>24, <1>25, <1>26, <1>27,
     <1>28, <1>29 DEF Next, Admission, Drain

(* A queued input is opened when the model has answered since the last one *)
(* and no steer is left from before the drain last looked, whatever is     *)
(* admitted, repeated, reverted or interrupted meanwhile (`run` and        *)
(* `runTurnAttempt` in llm.ts, `promoteNextQueued` in input.ts).           *)
THEOREM QueueInTurn == Spec => QueueOpensInTurn
<1>1. ASSUME Base, TurnInv, [Next]_vars, NEW m \in Msg,
             delivery[m] = "queue", promoted[m] = 0, promoted'[m] # 0
      PROVE  answered /\ \A n \in Msg : Pending(n, "steer") => admitted[n] > checked
  <2>1. PublishNext
    BY <1>1, OnlyPublished
  <2>2. PICK r \in rows : Consume(r) \/ Reinsert(r) \/ AlreadyPromoted(r)
    BY <2>1 DEF PublishNext
  <2>3. r \in Row /\ r.id = m /\ Consume(r)
    BY <1>1, <2>2 DEF Base, DrainTypes, InboxInv, InboxTypeOK, Row, Consume, Reinsert, Stored, AlreadyPromoted,
       durable, inbox
  <2>4. r.delivery = "queue"
    BY <1>1, <2>3 DEF Consume, Matches
  <2>5. dpc = "publish queued" /\ rows # {}
    BY <1>1, <2>1, <2>2, <2>4 DEF PublishNext, TurnInv, Chosen
  <2> QED
    BY <1>1, <2>5 DEF TurnInv, Answers, Opening, Looked, SteersLater
<1>2. Base /\ TurnInv /\ [Next]_vars =>
        [\A m \in Msg : delivery[m] = "queue" /\ promoted[m] = 0 /\ promoted'[m] # 0 =>
           /\ answered
           /\ \A n \in Msg : Pending(n, "steer") => admitted[n] > checked]_vars
  BY <1>1
<1> QED
  BY <1>2, TurnInvariant, PTL DEF Spec, QueueOpensInTurn

-----------------------------------------------------------------------------
\* Without reverts rows stay, and order is kept.

(* What is selected is stored as it was, and whatever of its delivery was  *)
(* admitted before and waits is selected too.                              *)
Rows ==
  \A r \in rows :
    /\ Matches(r)
    /\ \A n \in Msg : Pending(n, r.delivery) /\ admitted[n] < r.admitted => RowOf(n) \in rows

Answered(c) ==
  /\ cpc[c] = "refind" => Stored(call[c].id)
  /\ cpc[c] = "conflict" => Stored(call[c].id) /\ delivery[call[c].id] # call[c].delivery

OrderInv == reverts = 0 /\ Rows /\ AdmissionOrderKept /\ \A c \in Client : Answered(c)

(* One transaction without reverts: an input is admitted after all others, *)
(* or is promoted after all others, and nothing else changes.              *)
LEMMA NoRevert ==
  ASSUME Base, OrderInv, [Next]_vars, MaxRevert = 0
  PROVE  /\ reverts' = 0
         /\ \/ UNCHANGED <<seq, inbox, transcript>>
            \/ \E m \in Msg, d \in Delivery : Admit(m, d)
            \/ \E r \in Row : Consume(r) \/ Reinsert(r)
<1>1. InboxStep
  BY NextInbox
<1>2. ~(reverts < MaxRevert)
  BY DEF OrderInv
<1>3. reverts' = 0
  BY StepOtherTypes DEF OtherTypes
<1> QED
  BY <1>1, <1>2, <1>3 DEF InboxStep

LEMMA RowsAdmit ==
  ASSUME Base, OrderInv, rows' = rows, NEW m \in Msg, NEW d \in Delivery, Admit(m, d)
  PROVE  Rows'
<1>1. /\ delivery[m] = "none" /\ seq \in Nat
      /\ delivery' = [delivery EXCEPT ![m] = d] /\ admitted' = [admitted EXCEPT ![m] = seq + 1]
      /\ promoted' = promoted
      /\ delivery \in [Msg -> Delivery \cup {"none"}] /\ admitted \in [Msg -> Nat]
  BY DEF Admit, Admissible, Stored, Base, InboxInv, InboxTypeOK
<1>2. SUFFICES ASSUME NEW r \in rows
               PROVE  /\ Matches(r)'
                      /\ \A n \in Msg : Pending(n, r.delivery)' /\ admitted'[n] < r.admitted => RowOf(n)' \in rows
  BY DEF Rows
<1>3. /\ r.id \in Msg /\ r.delivery \in Delivery /\ r.admitted \in Nat
      /\ delivery[r.id] = r.delivery /\ admitted[r.id] = r.admitted /\ r.admitted <= seq
  BY <1>1 DEF OrderInv, Rows, Matches, Base, DrainTypes, Row, InboxInv
<1>4. r.id # m
  BY <1>1, <1>3 DEF Delivery
<1>5. Matches(r)'
  BY <1>1, <1>3, <1>4 DEF Matches
<1>6. ASSUME NEW n \in Msg, Pending(n, r.delivery)', admitted'[n] < r.admitted
      PROVE  RowOf(n)' \in rows
  <2>1. n # m
    BY <1>1, <1>3, <1>6
  <2>2. delivery'[n] = delivery[n] /\ admitted'[n] = admitted[n] /\ promoted'[n] = promoted[n]
    BY <1>1, <2>1
  <2> QED
    BY <1>6, <2>2 DEF OrderInv, Rows, Pending, RowOf
<1> QED
  BY <1>5, <1>6

LEMMA RowsPublish ==
  ASSUME Base, OrderInv, PublishNext
  PROVE  \E r \in rows : /\ IsFirst(r, rows) /\ rows' = rows \ {r}
                         /\ Consume(r) \/ AlreadyPromoted(r)
<1>1. PICK r \in rows : /\ IsFirst(r, rows) /\ rows' = rows \ {r}
                        /\ Consume(r) \/ Reinsert(r) \/ AlreadyPromoted(r)
  BY DEF PublishNext
<1>2. Stored(r.id)
  BY <1>1 DEF OrderInv, Rows, Matches, Stored, Base, DrainTypes, Row, Delivery
<1> QED
  BY <1>1, <1>2 DEF Reinsert

LEMMA PublishKeepsRows ==
  ASSUME Base, OrderInv, PublishNext
  PROVE  Rows'
<1>1. PICK r \in rows : rows' = rows \ {r} /\ (Consume(r) \/ AlreadyPromoted(r))
  BY RowsPublish
<1>2. /\ delivery' = delivery /\ admitted' = admitted /\ promoted'[r.id] # 0
      /\ \A n \in Msg : promoted'[n] = 0 => promoted[n] = 0
  <2>1. r.id \in Msg /\ seq \in Nat /\ promoted \in [Msg -> Nat]
    BY <1>1 DEF Base, InboxInv, InboxTypeOK, DrainTypes, Row
  <2>2. CASE Consume(r)
    <3>1. promoted'[r.id] = seq + 1 /\ seq + 1 # 0
      BY <2>1, <2>2 DEF Consume
    <3> QED
      BY <2>1, <2>2, <3>1 DEF Consume
  <2>3. CASE AlreadyPromoted(r)
    BY <2>3 DEF AlreadyPromoted, durable, inbox
  <2> QED
    BY <1>1, <2>2, <2>3
<1>3. ASSUME NEW s \in rows', NEW n \in Msg, Pending(n, s.delivery)', admitted'[n] < s.admitted
      PROVE  RowOf(n)' \in rows'
  <2>1. RowOf(n) \in rows /\ RowOf(n)' = RowOf(n)
    BY <1>1, <1>2, <1>3 DEF OrderInv, Rows, Pending, RowOf
  <2>2. RowOf(n) # r
    BY <1>2, <1>3 DEF RowOf, Pending
  <2> QED
    BY <1>1, <2>1, <2>2
<1> QED
  BY <1>1, <1>2, <1>3 DEF Rows, OrderInv, Matches

LEMMA StepRows ==
  ASSUME Base, OrderInv, [Next]_vars, MaxRevert = 0
  PROVE  Rows'
<1>a. rows' = rows /\ UNCHANGED inbox => Rows'
  BY DEF OrderInv, Rows, Matches, Pending, RowOf, inbox
<1>b. rows' = {} => Rows'
  BY DEF Rows
<1>1. ASSUME NEW c \in Client, NEW m \in Msg, NEW d \in Delivery, NEW resume \in Resumes, 
          Prompt(c, m, d, resume)
     PROVE  Rows'
  <2>1. rows' = rows /\ UNCHANGED inbox
    BY <1>1 DEF Prompt, durable, coordinator, drain, history, inbox
  <2> QED
    BY <2>1, <1>a
<1>2. ASSUME NEW c \in Client, Find(c) PROVE Rows'
  <2>1. rows' = rows /\ UNCHANGED inbox
    BY <1>2 DEF Find, Compare, Goto, durable, coordinator, drain, history, inbox
  <2> QED
    BY <2>1, <1>a
<1>3. ASSUME NEW c \in Client, PromptAdmitted(c) PROVE Rows'
  <2>1. rows' = rows
    BY <1>3 DEF PromptAdmitted, drain
  <2>2. CASE UNCHANGED durable
    BY <2>1, <2>2, <1>a DEF durable, inbox
  <2>3. CASE Admit(call[c].id, call[c].delivery)
    <3>1. call[c].id \in Msg /\ call[c].delivery \in Delivery
      BY <1>3 DEF PromptAdmitted, Base, ClientTypes
    <3> QED
      BY <2>1, <2>3, <3>1, RowsAdmit
  <2> QED
    BY <1>3, <2>2, <2>3 DEF PromptAdmitted
<1>4. ASSUME NEW c \in Client, Refind(c) PROVE Rows'
  <2>1. rows' = rows /\ UNCHANGED inbox
    BY <1>4 DEF Refind, Compare, Goto, durable, coordinator, drain, history, inbox
  <2> QED
    BY <2>1, <1>a
<1>5. ASSUME NEW c \in Client, Wake(c) PROVE Rows'
  <2>1. rows' = rows /\ UNCHANGED inbox
    BY <1>5 DEF Wake, Goto, Launch, durable, drain, history, inbox
  <2> QED
    BY <2>1, <1>a
<1>6. ASSUME NEW c \in Client, Conflict(c) PROVE Rows'
  <2>1. rows' = rows /\ UNCHANGED inbox
    BY <1>6 DEF Conflict, Goto, durable, coordinator, drain, history, inbox
  <2> QED
    BY <2>1, <1>a
<1>7. ASSUME Resume PROVE Rows'
  <2>1. rows' = rows /\ UNCHANGED inbox
    BY <1>7 DEF Resume, Launch, durable, drain, clients, history, inbox
  <2> QED
    BY <2>1, <1>a
<1>8. ASSUME Interrupt PROVE Rows'
  <2>1. rows' = rows /\ UNCHANGED inbox
    BY <1>8 DEF Interrupt, durable, drain, clients, history, inbox
  <2> QED
    BY <2>1, <1>a
<1>9. ASSUME NEW m \in Msg, RevertStage(m) PROVE Rows'
  <2>1. rows' = rows /\ UNCHANGED inbox
    BY <1>9 DEF RevertStage, StageRevert, coordinator, drain, clients, history, inbox, durable
  <2> QED
    BY <2>1, <1>a
<1>10. ASSUME RevertClear PROVE Rows'
  <2>1. rows' = rows /\ UNCHANGED inbox
    BY <1>10 DEF RevertClear, ClearRevert, coordinator, drain, clients, history, inbox, durable
  <2> QED
    BY <2>1, <1>a
<1>11. ASSUME RevertRead PROVE Rows'
  <2>1. rows' = rows /\ UNCHANGED inbox
    BY <1>11 DEF RevertRead, durable, coordinator, drain, clients, history, inbox
  <2> QED
    BY <2>1, <1>a
<1>12. ASSUME RevertCommit PROVE Rows'
  BY <1>12 DEF RevertCommit, OrderInv
<1>13. ASSUME DrainBegin PROVE Rows'
  <2>1. rows' = rows /\ UNCHANGED inbox
    BY <1>13 DEF DrainBegin, durable, clients, history, inbox
  <2> QED
    BY <2>1, <1>a
<1>14. ASSUME RunSteer PROVE Rows'
  <2>1. rows' = rows /\ UNCHANGED inbox
    BY <1>14 DEF RunSteer, Step, durable, coordinator, clients, inbox
  <2> QED
    BY <2>1, <1>a
<1>15. ASSUME RunQueue PROVE Rows'
  <2>1. rows' = rows /\ UNCHANGED inbox
    BY <1>15 DEF RunQueue, Step, durable, history, coordinator, clients, inbox
  <2> QED
    BY <2>1, <1>a
<1>16. ASSUME TurnCutoff PROVE Rows'
  <2>1. rows' = rows /\ UNCHANGED inbox
    BY <1>16 DEF TurnCutoff, Step, durable, coordinator, clients, history, inbox
  <2> QED
    BY <2>1, <1>a
<1>17. ASSUME SelectQueued PROVE Rows'
  <2>1. rows' = NextQueued /\ UNCHANGED inbox
    BY <1>17 DEF SelectQueued, Select, durable, inbox
  <2>2. /\ admitted \in [Msg -> Nat]
        /\ \A r \in NextQueued : \E m \in Msg :
             r = RowOf(m) /\ r.delivery = "queue"
             /\ \A n \in Msg : Pending(n, "queue") => admitted[m] <= admitted[n]
    BY DEF NextQueued, RowOf, Pending, Base, InboxInv, InboxTypeOK
  <2>3. ASSUME NEW r \in NextQueued
        PROVE  Matches(r) /\ \A n \in Msg : Pending(n, r.delivery) => ~(admitted[n] < r.admitted)
    BY <2>2 DEF Matches, RowOf
  <2> QED
    BY <2>1, <2>3 DEF Rows, Matches, Pending, RowOf, inbox
<1>18. ASSUME SelectSteers PROVE Rows'
  <2>1. rows' = PendingSteers(cutoff) /\ UNCHANGED inbox
    BY <1>18 DEF SelectSteers, Select, durable, inbox
  <2>2. admitted \in [Msg -> Nat] /\ cutoff \in Nat
    BY DEF Base, InboxInv, InboxTypeOK, DrainTypes
  <2>3. ASSUME NEW r \in PendingSteers(cutoff)
        PROVE  /\ Matches(r)
               /\ \A n \in Msg : Pending(n, r.delivery) /\ admitted[n] < r.admitted => RowOf(n) \in PendingSteers(cutoff)
    <3>1. PICK m \in Msg : r = RowOf(m) /\ Pending(m, "steer") /\ admitted[m] <= cutoff
      BY DEF PendingSteers
    <3>2. r.delivery = "steer" /\ r.admitted = admitted[m] /\ Matches(r)
      BY <3>1 DEF RowOf, Pending, Matches
    <3>3. ASSUME NEW n \in Msg, Pending(n, "steer"), admitted[n] < r.admitted
          PROVE  RowOf(n) \in PendingSteers(cutoff)
      <4>1. admitted[n] <= cutoff
        BY <2>2, <3>1, <3>2, <3>3
      <4> QED
        BY <3>3, <4>1 DEF PendingSteers
    <3> QED
      BY <3>2, <3>3
  <2> QED
    BY <2>1, <2>3 DEF Rows, Matches, Pending, RowOf, inbox
<1>19. ASSUME PublishNext PROVE Rows'
  BY <1>19, PublishKeepsRows
<1>20. ASSUME PublishDies PROVE Rows'
  <2>1. rows' = {}
    BY <1>20 DEF PublishDies, Aborted, Leave, durable, clients, inbox
  <2> QED
    BY <2>1, <1>b
<1>21. ASSUME MoreSteers PROVE Rows'
  <2>1. rows' = rows /\ UNCHANGED inbox
    BY <1>21 DEF MoreSteers, Step, durable, coordinator, clients, inbox
  <2> QED
    BY <2>1, <1>a
<1>22. ASSUME MoreQueued PROVE Rows'
  <2>1. rows' = rows /\ UNCHANGED inbox
    BY <1>22 DEF MoreQueued, Step, durable, history, coordinator, clients, inbox
  <2> QED
    BY <2>1, <1>a
<1>23. ASSUME DrainEnd PROVE Rows'
  <2>1. rows' = {}
    BY <1>23 DEF DrainEnd, Leave, durable, clients, inbox
  <2> QED
    BY <2>1, <1>b
<1>24. ASSUME TurnRetry PROVE Rows'
  <2>1. rows' = rows /\ UNCHANGED inbox
    BY <1>24 DEF TurnRetry, Step, durable, history, coordinator, clients, inbox
  <2> QED
    BY <2>1, <1>a
<1>25. ASSUME NEW b \in BOOLEAN, TurnEnd(b) PROVE Rows'
  <2>1. rows' = rows /\ UNCHANGED inbox
    BY <1>25 DEF TurnEnd, Step, durable, coordinator, clients, inbox
  <2> QED
    BY <2>1, <1>a
<1>26. ASSUME DrainFail PROVE Rows'
  <2>1. rows' = {}
    BY <1>26 DEF DrainFail, Aborted, Leave, durable, clients, inbox
  <2> QED
    BY <2>1, <1>b
<1>27. ASSUME DrainStopped PROVE Rows'
  <2>1. rows' = {}
    BY <1>27 DEF DrainStopped, Aborted, Leave, durable, clients, inbox
  <2> QED
    BY <2>1, <1>b
<1>28. ASSUME Crash PROVE Rows'
  <2>1. rows' = {}
    BY <1>28 DEF Crash, durable, inbox
  <2> QED
    BY <2>1, <1>b
<1>29. ASSUME UNCHANGED vars PROVE Rows'
  <2>1. rows' = rows /\ UNCHANGED inbox
    BY <1>29 DEF vars, durable, inbox, coordinator, drain, clients, history
  <2> QED
    BY <2>1, <1>a
<1> QED
  BY <1>1, <1>2, <1>3, <1>4, <1>5, <1>6, <1>7, <1>8, <1>9, <1>10, <1>11, <1>12, <1>13, <1>14,
     <1>15, <1>16, <1>17, <1>18, <1>19, <1>20, <1>21, <1>22, <1>23, <1>24, <1>25, <1>26, <1>27,
     <1>28, <1>29 DEF Next, Admission, Drain
LEMMA StepOrder ==
  ASSUME Base, OrderInv, [Next]_vars, MaxRevert = 0
  PROVE  AdmissionOrderKept'
<1>0. /\ seq \in Nat /\ delivery \in [Msg -> Delivery \cup {"none"}]
      /\ admitted \in [Msg -> Nat] /\ promoted \in [Msg -> Nat]
      /\ \A m \in Msg : admitted[m] <= seq /\ promoted[m] <= seq /\ (promoted[m] # 0 => Stored(m))
  BY DEF Base, InboxInv, InboxTypeOK
<1>1. CASE PublishNext
  <2>1. PICK r \in rows : IsFirst(r, rows) /\ (Consume(r) \/ AlreadyPromoted(r))
    BY <1>1, RowsPublish
  <2>2. CASE AlreadyPromoted(r)
    BY <2>2 DEF AlreadyPromoted, durable, inbox, OrderInv, AdmissionOrderKept, Stored
  <2>3. CASE Consume(r)
    <3>1. /\ r.id \in Msg /\ delivery[r.id] = r.delivery /\ admitted[r.id] = r.admitted
          /\ promoted[r.id] = 0 /\ delivery' = delivery /\ admitted' = admitted
          /\ promoted' = [promoted EXCEPT ![r.id] = seq + 1]
      BY <2>1, <2>3 DEF Consume, Matches, Base, DrainTypes, Row
    <3>2. ASSUME NEW m \in Msg, Stored(m), delivery[m] = r.delivery, admitted[m] < r.admitted
          PROVE  promoted[m] # 0
      <4>1. SUFFICES ASSUME promoted[m] = 0 PROVE FALSE
        OBVIOUS
      <4>2. RowOf(m) \in rows
        BY <2>1, <3>2, <4>1 DEF OrderInv, Rows, Pending
      <4>3. r.admitted <= admitted[m]
        BY <2>1, <4>2 DEF IsFirst, RowOf
      <4> QED
        BY <1>0, <3>1, <3>2, <4>3
    <3> QED
      BY <1>0, <3>1, <3>2 DEF OrderInv, AdmissionOrderKept, Stored
  <2> QED
    BY <2>1, <2>2, <2>3
<1>2. ASSUME NEW m \in Msg, NEW d \in Delivery, Admit(m, d) PROVE AdmissionOrderKept'
  BY <1>0, <1>2 DEF Admit, Admissible, OrderInv, AdmissionOrderKept, Stored
<1>3. CASE UNCHANGED <<seq, inbox, transcript>>
  BY <1>3 DEF inbox, OrderInv, AdmissionOrderKept, Stored
<1>4. ASSUME NEW r \in Row, Consume(r) \/ Reinsert(r) PROVE PublishNext
  <2>1. r.id \in Msg /\ promoted[r.id] = 0 /\ promoted'[r.id] # 0
    BY <1>0, <1>4 DEF Consume, Reinsert, Row
  <2> QED
    BY <2>1, OnlyPublished
<1> QED
  BY <1>1, <1>2, <1>3, <1>4, NoRevert

LEMMA StoredStays ==
  ASSUME Base, OrderInv, [Next]_vars, MaxRevert = 0, NEW m \in Msg, Stored(m)
  PROVE  Stored(m)' /\ delivery'[m] = delivery[m]
<1>1. delivery \in [Msg -> Delivery \cup {"none"}]
  BY DEF Base, InboxInv, InboxTypeOK
<1>2. ASSUME NEW n \in Msg, NEW d \in Delivery, Admit(n, d) PROVE delivery'[m] = delivery[m]
  BY <1>1, <1>2 DEF Admit, Admissible, Stored
<1>3. ASSUME NEW r \in Row, Consume(r) \/ Reinsert(r) PROVE delivery'[m] = delivery[m]
  BY <1>1, <1>3 DEF Consume, Reinsert, Stored, Row
<1> QED
  BY <1>2, <1>3, NoRevert DEF inbox, Stored

LEMMA StepAnswered ==
  ASSUME Base, OrderInv, [Next]_vars, MaxRevert = 0, NEW a \in Client
  PROVE  Answered(a)'
<1>a. cpc'[a] = cpc[a] /\ call'[a] = call[a] => Answered(a)'
  BY StoredStays DEF Answered, OrderInv, Base, ClientTypes
<1>b. cpc'[a] \in {"idle", "find", "admit", "wake"} => Answered(a)'
  BY DEF Answered
<1>1. ASSUME NEW c \in Client, NEW m \in Msg, NEW d \in Delivery, NEW resume \in Resumes, 
          Prompt(c, m, d, resume)
     PROVE  Answered(a)'
  <2>1. CASE c # a
    <3>1. cpc'[a] = cpc[a] /\ call'[a] = call[a]
      BY <1>1, <2>1 DEF Prompt, Base, ClientTypes
    <3> QED
      BY <3>1, <1>a
  <2>2. CASE c = a
    <3>1. cpc'[a] \in {"idle", "find", "admit", "wake"}
      BY <1>1, <2>2 DEF Prompt, Base, ClientTypes
    <3> QED
      BY <3>1, <1>b
  <2> QED
    BY <2>1, <2>2
<1>2. ASSUME NEW c \in Client, Find(c) PROVE Answered(a)'
  <2>1. CASE c # a
    <3>1. cpc'[a] = cpc[a] /\ call'[a] = call[a]
      BY <1>2, <2>1 DEF Find, Compare, Goto, Base, ClientTypes
    <3> QED
      BY <3>1, <1>a
  <2>2. CASE c = a
    <3>1. call[a].id \in Msg /\ delivery' = delivery /\ cpc \in [Client -> {"idle", "find", "admit", "refind", "wake", "conflict"}]
      BY <1>2, <2>2 DEF Find, durable, inbox, Base, ClientTypes
    <3>2. CASE Stored(call[a].id)
      <4>1. \/ cpc'[a] \in {"idle", "wake"}
            \/ /\ cpc'[a] = "conflict" /\ call'[a] = call[a]
               /\ delivery[call[a].id] # call[a].delivery
        BY <1>2, <2>2, <3>1, <3>2 DEF Find, Compare, Goto
      <4> QED
        BY <3>1, <3>2, <4>1 DEF Answered, Stored
    <3>3. CASE ~Stored(call[a].id)
      <4>1. cpc'[a] = "admit"
        BY <1>2, <2>2, <3>1, <3>3 DEF Find, Goto
      <4> QED
        BY <4>1, <1>b
    <3> QED
      BY <3>2, <3>3
  <2> QED
    BY <2>1, <2>2
<1>3. ASSUME NEW c \in Client, PromptAdmitted(c) PROVE Answered(a)'
  <2>1. CASE c # a
    <3>1. cpc'[a] = cpc[a] /\ call'[a] = call[a]
      BY <1>3, <2>1 DEF PromptAdmitted, Compare, Goto, Base, ClientTypes
    <3> QED
      BY <3>1, <1>a
  <2>2. CASE c = a
    <3>1. /\ call[a].id \in Msg
          /\ cpc \in [Client -> {"idle", "find", "admit", "refind", "wake", "conflict"}]
          /\ call \in [Client -> Call \cup {NoCall}]
      BY <1>3, <2>2 DEF PromptAdmitted, Base, ClientTypes
    <3>2. CASE Admit(call[a].id, call[a].delivery) /\ Compare(a, call[a].delivery)
      <4>1. cpc'[a] \in {"idle", "wake"}
        BY <3>1, <3>2 DEF Compare, Goto
      <4> QED
        BY <4>1, <1>b
    <3>3. CASE ~Admissible(call[a].id) /\ Goto(a, "refind") /\ UNCHANGED durable
      <4>1. cpc'[a] = "refind" /\ call'[a] = call[a] /\ delivery' = delivery
        BY <3>1, <3>3 DEF Goto, durable, inbox
      <4>2. Stored(call[a].id)
        BY <3>1, <3>3 DEF Admissible, Base, InboxInv
      <4> QED
        BY <4>1, <4>2 DEF Answered, Stored
    <3> QED
      BY <1>3, <2>2, <3>2, <3>3 DEF PromptAdmitted
  <2> QED
    BY <2>1, <2>2
<1>4. ASSUME NEW c \in Client, Refind(c) PROVE Answered(a)'
  <2>1. CASE c # a
    <3>1. cpc'[a] = cpc[a] /\ call'[a] = call[a]
      BY <1>4, <2>1 DEF Refind, Compare, Goto, Base, ClientTypes
    <3> QED
      BY <3>1, <1>a
  <2>2. CASE c = a
    <3>1. call[a].id \in Msg /\ delivery' = delivery /\ cpc \in [Client -> {"idle", "find", "admit", "refind", "wake", "conflict"}]
      BY <1>4, <2>2 DEF Refind, durable, inbox, Base, ClientTypes
    <3>2. CASE Stored(call[a].id)
      <4>1. \/ cpc'[a] \in {"idle", "wake"}
            \/ /\ cpc'[a] = "conflict" /\ call'[a] = call[a]
               /\ delivery[call[a].id] # call[a].delivery
        BY <1>4, <2>2, <3>1, <3>2 DEF Refind, Compare, Goto
      <4> QED
        BY <3>1, <3>2, <4>1 DEF Answered, Stored
    <3>3. CASE ~Stored(call[a].id)
      BY <1>4, <2>2, <3>3 DEF Refind, OrderInv, Answered
    <3> QED
      BY <3>2, <3>3
  <2> QED
    BY <2>1, <2>2
<1>5. ASSUME NEW c \in Client, Wake(c) PROVE Answered(a)'
  <2>1. CASE c # a
    <3>1. cpc'[a] = cpc[a] /\ call'[a] = call[a]
      BY <1>5, <2>1 DEF Wake, Goto, Launch, Base, ClientTypes
    <3> QED
      BY <3>1, <1>a
  <2>2. CASE c = a
    <3>1. cpc'[a] \in {"idle", "find", "admit", "wake"}
      BY <1>5, <2>2 DEF Wake, Goto, Launch, Base, ClientTypes
    <3> QED
      BY <3>1, <1>b
  <2> QED
    BY <2>1, <2>2
<1>6. ASSUME NEW c \in Client, Conflict(c) PROVE Answered(a)'
  <2>1. CASE c # a
    <3>1. cpc'[a] = cpc[a] /\ call'[a] = call[a]
      BY <1>6, <2>1 DEF Conflict, Goto, Base, ClientTypes
    <3> QED
      BY <3>1, <1>a
  <2>2. CASE c = a
    <3>1. cpc'[a] \in {"idle", "find", "admit", "wake"}
      BY <1>6, <2>2 DEF Conflict, Goto, Base, ClientTypes
    <3> QED
      BY <3>1, <1>b
  <2> QED
    BY <2>1, <2>2
<1>7. ASSUME Resume PROVE Answered(a)'
  <2>1. cpc'[a] = cpc[a] /\ call'[a] = call[a]
    BY <1>7 DEF Resume, Launch, durable, drain, clients, history, inbox
  <2> QED
    BY <2>1, <1>a
<1>8. ASSUME Interrupt PROVE Answered(a)'
  <2>1. cpc'[a] = cpc[a] /\ call'[a] = call[a]
    BY <1>8 DEF Interrupt, durable, drain, clients, history, inbox
  <2> QED
    BY <2>1, <1>a
<1>9. ASSUME NEW m \in Msg, RevertStage(m) PROVE Answered(a)'
  <2>1. cpc'[a] = cpc[a] /\ call'[a] = call[a]
    BY <1>9 DEF RevertStage, StageRevert, coordinator, drain, clients, history, inbox
  <2> QED
    BY <2>1, <1>a
<1>10. ASSUME RevertClear PROVE Answered(a)'
  <2>1. cpc'[a] = cpc[a] /\ call'[a] = call[a]
    BY <1>10 DEF RevertClear, ClearRevert, coordinator, drain, clients, history, inbox
  <2> QED
    BY <2>1, <1>a
<1>11. ASSUME RevertRead PROVE Answered(a)'
  <2>1. cpc'[a] = cpc[a] /\ call'[a] = call[a]
    BY <1>11 DEF RevertRead, durable, coordinator, drain, clients, history, inbox
  <2> QED
    BY <2>1, <1>a
<1>12. ASSUME RevertCommit PROVE Answered(a)'
  <2>1. cpc'[a] = cpc[a] /\ call'[a] = call[a]
    BY <1>12 DEF RevertCommit, durable, coordinator, drain, clients, history, inbox
  <2> QED
    BY <2>1, <1>a
<1>13. ASSUME DrainBegin PROVE Answered(a)'
  <2>1. cpc'[a] = cpc[a] /\ call'[a] = call[a]
    BY <1>13 DEF DrainBegin, durable, clients, history, inbox
  <2> QED
    BY <2>1, <1>a
<1>14. ASSUME RunSteer PROVE Answered(a)'
  <2>1. cpc'[a] = cpc[a] /\ call'[a] = call[a]
    BY <1>14 DEF RunSteer, Step, durable, coordinator, clients, inbox
  <2> QED
    BY <2>1, <1>a
<1>15. ASSUME RunQueue PROVE Answered(a)'
  <2>1. cpc'[a] = cpc[a] /\ call'[a] = call[a]
    BY <1>15 DEF RunQueue, Step, durable, history, coordinator, clients, inbox
  <2> QED
    BY <2>1, <1>a
<1>16. ASSUME TurnCutoff PROVE Answered(a)'
  <2>1. cpc'[a] = cpc[a] /\ call'[a] = call[a]
    BY <1>16 DEF TurnCutoff, Step, durable, coordinator, clients, history, inbox
  <2> QED
    BY <2>1, <1>a
<1>17. ASSUME SelectQueued PROVE Answered(a)'
  <2>1. cpc'[a] = cpc[a] /\ call'[a] = call[a]
    BY <1>17 DEF SelectQueued, Select, durable, coordinator, clients, history, inbox
  <2> QED
    BY <2>1, <1>a
<1>18. ASSUME SelectSteers PROVE Answered(a)'
  <2>1. cpc'[a] = cpc[a] /\ call'[a] = call[a]
    BY <1>18 DEF SelectSteers, Select, durable, coordinator, clients, history, inbox
  <2> QED
    BY <2>1, <1>a
<1>19. ASSUME PublishNext PROVE Answered(a)'
  <2>1. cpc'[a] = cpc[a] /\ call'[a] = call[a]
    BY <1>19 DEF PublishNext, coordinator, clients
  <2> QED
    BY <2>1, <1>a
<1>20. ASSUME PublishDies PROVE Answered(a)'
  <2>1. cpc'[a] = cpc[a] /\ call'[a] = call[a]
    BY <1>20 DEF PublishDies, Aborted, Leave, durable, clients, inbox
  <2> QED
    BY <2>1, <1>a
<1>21. ASSUME MoreSteers PROVE Answered(a)'
  <2>1. cpc'[a] = cpc[a] /\ call'[a] = call[a]
    BY <1>21 DEF MoreSteers, Step, durable, coordinator, clients, inbox
  <2> QED
    BY <2>1, <1>a
<1>22. ASSUME MoreQueued PROVE Answered(a)'
  <2>1. cpc'[a] = cpc[a] /\ call'[a] = call[a]
    BY <1>22 DEF MoreQueued, Step, durable, history, coordinator, clients, inbox
  <2> QED
    BY <2>1, <1>a
<1>23. ASSUME DrainEnd PROVE Answered(a)'
  <2>1. cpc'[a] = cpc[a] /\ call'[a] = call[a]
    BY <1>23 DEF DrainEnd, Leave, durable, clients, inbox
  <2> QED
    BY <2>1, <1>a
<1>24. ASSUME TurnRetry PROVE Answered(a)'
  <2>1. cpc'[a] = cpc[a] /\ call'[a] = call[a]
    BY <1>24 DEF TurnRetry, Step, durable, history, coordinator, clients, inbox
  <2> QED
    BY <2>1, <1>a
<1>25. ASSUME NEW b \in BOOLEAN, TurnEnd(b) PROVE Answered(a)'
  <2>1. cpc'[a] = cpc[a] /\ call'[a] = call[a]
    BY <1>25 DEF TurnEnd, Step, durable, coordinator, clients, inbox
  <2> QED
    BY <2>1, <1>a
<1>26. ASSUME DrainFail PROVE Answered(a)'
  <2>1. cpc'[a] = cpc[a] /\ call'[a] = call[a]
    BY <1>26 DEF DrainFail, Aborted, Leave, durable, clients, inbox
  <2> QED
    BY <2>1, <1>a
<1>27. ASSUME DrainStopped PROVE Answered(a)'
  <2>1. cpc'[a] = cpc[a] /\ call'[a] = call[a]
    BY <1>27 DEF DrainStopped, Aborted, Leave, durable, clients, inbox
  <2> QED
    BY <2>1, <1>a
<1>28. ASSUME Crash PROVE Answered(a)'
  BY <1>28, <1>b DEF Crash
<1>29. ASSUME UNCHANGED vars PROVE Answered(a)'
  <2>1. cpc'[a] = cpc[a] /\ call'[a] = call[a]
    BY <1>29 DEF vars, durable, inbox, coordinator, drain, clients, history
  <2> QED
    BY <2>1, <1>a
<1> QED
  BY <1>1, <1>2, <1>3, <1>4, <1>5, <1>6, <1>7, <1>8, <1>9, <1>10, <1>11, <1>12, <1>13, <1>14,
     <1>15, <1>16, <1>17, <1>18, <1>19, <1>20, <1>21, <1>22, <1>23, <1>24, <1>25, <1>26, <1>27,
     <1>28, <1>29 DEF Next, Admission, Drain
LEMMA OrderInvariant ==
  ASSUME MaxRevert = 0
  PROVE  Spec => [](Base /\ OrderInv)
<1>1. Init => OrderInv
  BY DEF Init, InboxInit, OrderInv, Rows, AdmissionOrderKept, Answered
<1>2. Base /\ OrderInv /\ [Next]_vars => OrderInv'
  <2> SUFFICES ASSUME Base, OrderInv, [Next]_vars PROVE OrderInv'
    OBVIOUS
  <2> QED
    BY NoRevert, StepRows, StepOrder, StepAnswered DEF OrderInv
<1> QED
  BY <1>1, <1>2, BaseInvariant, PTL DEF Spec

(* As long as nothing is reverted, inputs of one delivery reach the        *)
(* transcript in the order of their admission, though a selection is       *)
(* published row by row while others are admitted and drains fail, are     *)
(* stopped or die half way (`promoteSteers` and `promoteNextQueued` in     *)
(* input.ts).                                                              *)
THEOREM OrderKept ==
  ASSUME MaxRevert = 0
  PROVE  Spec => []AdmissionOrderKept
<1>1. OrderInv => AdmissionOrderKept
  BY DEF OrderInv
<1> QED
  BY <1>1, OrderInvariant, PTL

(* As long as nothing is reverted, a call of `prompt` conflicts only with  *)
(* a different input under its ID, whoever wins the race of admissions     *)
(* (`admit` in input.ts).                                                  *)
THEOREM RetriesAccepted ==
  ASSUME MaxRevert = 0
  PROVE  Spec => []ExactRetryAccepted
<1>1. OrderInv => ExactRetryAccepted
  BY DEF OrderInv, Answered, ExactRetryAccepted
<1> QED
  BY <1>1, OrderInvariant, PTL

=============================================================================
