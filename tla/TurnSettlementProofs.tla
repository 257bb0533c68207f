------------------------ MODULE TurnSettlementProofs ------------------------
(* Proofs about TurnSettlement, in three layers, each an inductive          *)
(* invariant on top of the one before:                                     *)
(*   Base        whatever fails: types, the calls a turn knows, and that   *)
(*               nothing runs outside of a turn;                           *)
(*   SettleInv   if no turn is an agent's last step: a call that is open   *)
(*               has not been settled;                                     *)
(*   RequestInv  if no publication fails either: what the end of a turn    *)
(*               has settled at each of its stages.                        *)
(* A lemma Step... has one step for each action, in the order of Next.     *)
EXTENDS TurnSettlement, TLAPS

Parts == [Call -> Status]

Counts == [Call -> Nat]

Events == [type : {"none", "input", "call", "hosted call"}, call : Call \cup {NoCall}]

Publishers ==
  [started : BOOLEAN, active : BOOLEAN, failed : BOOLEAN, providerFailed : BOOLEAN, finished : BOOLEAN]

Maps == [seen : SUBSET Call, called : SUBSET Call, hosted : SUBSET Call, settled : SUBSET Call]

Turns ==
  [recover : BOOLEAN, lastStep : BOOLEAN, overflow : BOOLEAN, continue : BOOLEAN,
   stream : {"open", "success", "llm error", "defect", "interrupt"},
   settled : {"open", "success", "failed", "declined", "interrupt"}]

Fibers == [Call -> {"none", "run", "bound", "publish success", "publish error", "gone"}]

Types ==
  /\ part \in Parts /\ settlements \in Counts /\ failing \in SUBSET Call /\ event \in Events
  /\ publisher \in Publishers /\ tools \in Maps /\ turn \in Turns /\ fiber \in Fibers

-----------------------------------------------------------------------------
\* What the operators that several actions share do.

LEMMA Settles ==
  ASSUME part \in Parts, settlements \in Counts, NEW c \in Call, NEW status \in {"completed", "error"},
         Settle(c, status)
  PROVE  /\ part' \in Parts /\ settlements' \in Counts
         /\ settlements'[c] = settlements[c] + 1
         /\ part'[c] = IF part[c] = "running" \/ (part[c] = "pending" /\ status = "error") THEN status ELSE part[c]
         /\ \A d \in Call : d # c => part'[d] = part[d] /\ settlements'[d] = settlements[d]
<1>1. /\ settlements' = [settlements EXCEPT ![c] = settlements[c] + 1]
      /\ part' = [part EXCEPT ![c] = IF part[c] = "running" \/ (part[c] = "pending" /\ status = "error")
                                     THEN status ELSE part[c]]
  BY DEF Settle
<1>2. status \in Status
  BY DEF Status
<1>3. part' \in Parts
  BY <1>1, <1>2 DEF Parts
<1>4. settlements' \in Counts
  BY <1>1 DEF Counts
<1> QED
  BY <1>1, <1>3, <1>4 DEF Parts, Counts

LEMMA CallSettled ==
  ASSUME tools \in Maps, NEW c \in Call, tools' = [tools EXCEPT !.settled = @ \cup {c}]
  PROVE  /\ tools' \in Maps /\ tools'.settled = tools.settled \cup {c}
         /\ tools'.seen = tools.seen /\ tools'.called = tools.called /\ tools'.hosted = tools.hosted
<1>1. tools' = [tools EXCEPT !.settled = tools.settled \cup {c}]
  OBVIOUS
<1>2. tools.settled \cup {c} \in SUBSET Call
  BY DEF Maps
<1> QED
  BY <1>1, <1>2 DEF Maps

LEMMA CallMarked ==
  ASSUME tools \in Maps, NEW c \in Call, NEW type,
         tools' = [tools EXCEPT !.called = @ \cup {c},
                                !.hosted = IF type = "hosted call" THEN @ \cup {c} ELSE @]
  PROVE  /\ tools' \in Maps /\ tools'.called = tools.called \cup {c}
         /\ tools'.hosted = IF type = "hosted call" THEN tools.hosted \cup {c} ELSE tools.hosted
         /\ tools'.seen = tools.seen /\ tools'.settled = tools.settled
<1> DEFINE called == tools.called \cup {c}
           hosted == IF type = "hosted call" THEN tools.hosted \cup {c} ELSE tools.hosted
<1>1. called \in SUBSET Call /\ hosted \in SUBSET Call
  BY DEF Maps
<1>2. tools' = [tools EXCEPT !.called = called, !.hosted = hosted]
  OBVIOUS
<1> HIDE DEF called, hosted
<1>3. tools' \in Maps /\ tools'.called = called /\ tools'.hosted = hosted
      /\ tools'.seen = tools.seen /\ tools'.settled = tools.settled
  BY <1>1, <1>2 DEF Maps
<1> QED
  BY <1>3 DEF called, hosted

-----------------------------------------------------------------------------
\* Types.

LEMMA NoEventType == NoEvent \in Events
BY DEF NoEvent, Events

LEMMA StepTypes ==
  ASSUME Types, pc = "event" => event.call \in Call, [Next]_vars
  PROVE  Types'
<1> USE LastStepAssumption DEF Types
<1>1. ASSUME DrainStart PROVE Types'
  BY <1>1 DEF DrainStart, durable, history
<1>2. ASSUME RecoverNext PROVE Types'
  BY <1>2 DEF RecoverNext, Settle, durable, history, Parts, Status, Counts
<1>3. ASSUME NEW lastStep \in LastStep, TurnBegin(lastStep) PROVE Types'
  BY <1>3 DEF TurnBegin, Goto, FreshPublisher, history, Publishers, Turns
<1>4. ASSUME DrainStop PROVE Types'
  BY <1>4 DEF DrainStop, Reset, Forget, FreshPublisher, NoTools, FreshTurn, NoEvent, durable,
     history, Events, Publishers, Maps, Turns, Fibers
<1>5. ASSUME StepStarted PROVE Types'
  BY <1>5 DEF StepStarted, Listening, control, history, Publishers
<1>6. ASSUME InputStarted PROVE Types'
  <2>1. part' = [part EXCEPT ![event.call] = "pending"] /\ event.call \in Call
        /\ tools' = [tools EXCEPT !.seen = @ \cup {event.call}]
    BY <1>6 DEF InputStarted
  <2>2. part' \in Parts /\ tools' \in Maps
    BY <2>1 DEF Parts, Status, Maps
  <2>3. event' \in Events /\ failing' = failing
    BY <1>6, NoEventType DEF InputStarted, Goto, control
  <2> QED
    BY <1>6, <2>2, <2>3 DEF InputStarted
<1>7. ASSUME Called PROVE Types'
  <2>1. part' = [part EXCEPT ![event.call] = "running"] /\ event.call \in Call
        /\ tools' = [tools EXCEPT !.called = @ \cup {event.call},
                                  !.hosted = IF event.type = "hosted call" THEN @ \cup {event.call} ELSE @]
    BY <1>7 DEF Called
  <2>2. part' \in Parts
    BY <2>1 DEF Parts, Status
  <2>3. tools' \in Maps
    BY <2>1, CallMarked
  <2>4. event' \in Events /\ failing' = failing
    BY <1>7, NoEventType DEF Called, Goto
  <2> QED
    BY <1>7, <2>2, <2>3, <2>4 DEF Called
<1>8. ASSUME Fork PROVE Types'
  BY <1>8 DEF Fork, FailTools, Goto, NoEvent, Unsettled, durable, history, Events, Turns, Fibers,
     Maps
<1>9. ASSUME StreamInterrupted PROVE Types'
  BY <1>9 DEF StreamInterrupted, NoEvent, durable, history, Events, Turns
<1>10. ASSUME FailNext PROVE Types'
  <2>1. PICK c \in failing : Settle(c, "error") /\ tools' = [tools EXCEPT !.settled = @ \cup {c}]
                             /\ failing' = failing \ {c}
    BY <1>10 DEF FailNext
  <2>2. part' \in Parts /\ settlements' \in Counts /\ tools' \in Maps
    BY <2>1, Settles, CallSettled
  <2> QED
    BY <1>10, <2>1, <2>2 DEF FailNext, history
<1>11. ASSUME StepFailed PROVE Types'
  BY <1>11 DEF StepFailed, Goto, history, Publishers
<1>12. ASSUME Recovered PROVE Types'
  BY <1>12 DEF Recovered, Recoverable, Goto, FreshTurn, durable, history, Turns
<1>13. ASSUME RecoveryInterrupted PROVE Types'
  BY <1>13 DEF RecoveryInterrupted, Recoverable, Goto, durable, history, Turns
<1>14. ASSUME StreamSettle PROVE Types'
  BY <1>14 DEF StreamSettle, FailStep, FailTools, Goto, Unsettled, durable, history, Publishers,
     Maps
<1>15. ASSUME LlmFailure PROVE Types'
  BY <1>15 DEF LlmFailure, FailStep, durable, history
<1>16. ASSUME Await PROVE Types'
  BY <1>16 DEF Await, FailTools, Goto, Unsettled, durable, history, Turns, Maps
<1>17. ASSUME Cleared PROVE Types'
  BY <1>17 DEF Cleared, FailTools, Goto, Unsettled, durable, history, Maps
<1>18. ASSUME FailTurn PROVE Types'
  BY <1>18 DEF FailTurn, FailStep, Goto, durable, history
<1>19. ASSUME StepEnded PROVE Types'
  BY <1>19 DEF StepEnded, Goto, history
<1>20. ASSUME Leftovers PROVE Types'
  BY <1>20 DEF Leftovers, FailTools, Goto, Unsettled, durable, history, Maps
<1>21. ASSUME Close PROVE Types'
  BY <1>21 DEF Close, Reset, Forget, FreshPublisher, NoTools, FreshTurn, NoEvent, durable, history,
     Events, Publishers, Maps, Turns, Fibers
<1>22. ASSUME NEW type \in {"input", "call", "hosted call"}, NEW c \in Call, ToolEvent(type, c) PROVE Types'
  BY <1>22 DEF ToolEvent, Listening, New, Goto, durable, history, Events
<1>23. ASSUME NEW c \in Call, NEW status \in {"completed", "error"}, HostedResult(c, status) PROVE Types'
  <2>1. part' \in Parts /\ settlements' \in Counts /\ tools' \in Maps
    BY <1>23, Settles, CallSettled DEF HostedResult
  <2> QED
    BY <1>23, <2>1 DEF HostedResult, control
<1>24. ASSUME StepFinish PROVE Types'
  BY <1>24 DEF StepFinish, Listening, durable, control, history, Publishers
<1>25. ASSUME ProviderError PROVE Types'
  BY <1>25 DEF ProviderError, Listening, FailStep, durable, history, Publishers
<1>26. ASSUME Overflow PROVE Types'
  BY <1>26 DEF Overflow, Listening, durable, control, history, Turns
<1>27. ASSUME NEW exit \in {"success", "llm error", "defect"}, StreamEnd(exit) PROVE Types'
  BY <1>27 DEF StreamEnd, Goto, NoEvent, durable, history, Events, Turns
<1>28. ASSUME NEW c \in Call, Tool(c) PROVE Types'
  BY <1>28 DEF Tool, OperationSucceeds, OperationFails, OperationDies, Operation, Fail, durable,
     control, Fibers
<1>29. ASSUME NEW c \in Call, Bound(c) PROVE Types'
  BY <1>29 DEF Bound, durable, control, history, Fibers
<1>30. ASSUME NEW c \in Call, BoundFails(c) PROVE Types'
  BY <1>30 DEF BoundFails, Fail, durable, control, Fibers
<1>31. ASSUME NEW c \in Call, PublishResult(c) PROVE Types'
  <2>1. tools' \in Maps /\ fiber' \in Fibers
    BY <1>31, CallSettled DEF PublishResult, Fibers
  <2>2. part' \in Parts /\ settlements' \in Counts
    BY <1>31, Settles DEF PublishResult, durable
  <2> QED
    BY <1>31, <2>1, <2>2 DEF PublishResult, control
<1>32. ASSUME NEW c \in Call, PublishFails(c) PROVE Types'
  <2>1. tools' \in Maps /\ fiber' \in Fibers
    BY <1>32, CallSettled DEF PublishFails, Fibers
  <2> QED
    BY <1>32, <2>1 DEF PublishFails, durable, control
<1>33. ASSUME NEW c \in Call, FiberInterrupted(c) PROVE Types'
  BY <1>33 DEF FiberInterrupted, durable, control, history, Fibers
<1>34. ASSUME Interrupt PROVE Types'
  BY <1>34 DEF Interrupt, durable, control, history
<1>35. ASSUME Crash PROVE Types'
  BY <1>35 DEF Crash, Reset, FreshPublisher, NoTools, FreshTurn, NoEvent, durable, history, Events,
     Publishers, Maps, Turns, Fibers
<1>36. ASSUME UNCHANGED vars PROVE Types'
  BY <1>36 DEF vars, durable, control, history
<1> QED
  BY <1>1, <1>2, <1>3, <1>4, <1>5, <1>6, <1>7, <1>8, <1>9, <1>10, <1>11, <1>12, <1>13, <1>14,
     <1>15, <1>16, <1>17, <1>18, <1>19, <1>20, <1>21, <1>22, <1>23, <1>24, <1>25, <1>26, <1>27,
     <1>28, <1>29, <1>30, <1>31, <1>32, <1>33, <1>34, <1>35, <1>36 DEF Next, Runner, Provider,
     Settlement

-----------------------------------------------------------------------------
\* Nothing is executed outside of a turn.

(* Between two turns there is no trace of one.                             *)
Outside ==
  pc \in {"off", "recover", "prepare"} =>
    /\ tools = NoTools /\ turn.stream = "open" /\ turn.settled = "open"
    /\ \A c \in Call : ~Active(c)

(* The fibers of a turn belong to its calls.                               *)
Seen ==
  /\ tools.hosted \subseteq tools.called /\ tools.called \subseteq tools.seen
  /\ tools.settled \subseteq tools.seen
  /\ pc = "fail tools" => failing \subseteq tools.seen
  /\ tools.seen # {} => publisher.started
  /\ \A c \in Call : Active(c) => c \in tools.called

Event ==
  /\ pc = "event" => event.type # "none" /\ event.call \in Call /\ event.call \notin tools.called
  /\ pc = "fork" => event.call \in tools.called

(* Where the runner goes when a loop of publications is over.              *)
Then ==
  /\ pc = "fail step" => then \in {"stream", "await", "clear", "settle step"}
  /\ pc = "fail tools" => then \in {"stream", "llm failure", "fail turn", "settle step", "close"}
  /\ pc \notin {"fail step", "fail tools"} => then = "none"

Base == Types /\ Outside /\ Seen /\ Event /\ Then

LEMMA StepOutside ==
  ASSUME Base, [Next]_vars
  PROVE  Outside'
<1> USE DEF Base, Outside, Active
<1>1. ASSUME DrainStart PROVE Outside'
  BY <1>1 DEF DrainStart, durable, history, Types
<1>2. ASSUME RecoverNext PROVE Outside'
  BY <1>2 DEF RecoverNext, Settle, durable, history, Parts, Status, Counts, Types
<1>3. ASSUME NEW lastStep \in LastStep, TurnBegin(lastStep) PROVE Outside'
  BY <1>3 DEF TurnBegin, Goto, FreshPublisher, history, Publishers, Turns, Types
<1>4. ASSUME DrainStop PROVE Outside'
  BY <1>4 DEF DrainStop, Reset, Forget, FreshPublisher, NoTools, FreshTurn, NoEvent, durable,
     history, Events, Publishers, Maps, Turns, Fibers, Types
<1>5. ASSUME StepStarted PROVE Outside'
  BY <1>5 DEF StepStarted, Listening, control, history, Publishers, Types
<1>6. ASSUME InputStarted PROVE Outside'
  BY <1>6 DEF InputStarted, Goto, NoEvent, control, history, Parts, Status, Events, Maps, Types
<1>7. ASSUME Called PROVE Outside'
  BY <1>7 DEF Called, Goto, NoEvent, history, Parts, Status, Events, Maps, Types
<1>8. ASSUME Fork PROVE Outside'
  BY <1>8 DEF Fork, FailTools, Goto, NoEvent, Unsettled, durable, history, Events, Turns, Fibers,
     Maps, Types
<1>9. ASSUME StreamInterrupted PROVE Outside'
  BY <1>9 DEF StreamInterrupted, NoEvent, durable, history, Events, Turns, Types
<1>10. ASSUME FailNext PROVE Outside'
  BY <1>10 DEF FailNext, history, Types, Then
<1>11. ASSUME StepFailed PROVE Outside'
  BY <1>11 DEF StepFailed, Goto, history, Publishers, Types, Then
<1>12. ASSUME Recovered PROVE Outside'
  BY <1>12 DEF Recovered, Recoverable, Goto, FreshTurn, durable, history, Turns, Types, Seen, Maps,
     NoTools
<1>13. ASSUME RecoveryInterrupted PROVE Outside'
  BY <1>13 DEF RecoveryInterrupted, Recoverable, Goto, durable, history, Turns, Types
<1>14. ASSUME StreamSettle PROVE Outside'
  BY <1>14 DEF StreamSettle, FailStep, FailTools, Goto, Unsettled, durable, history, Publishers,
     Maps, Types
<1>15. ASSUME LlmFailure PROVE Outside'
  BY <1>15 DEF LlmFailure, FailStep, durable, history, Types
<1>16. ASSUME Await PROVE Outside'
  BY <1>16 DEF Await, FailTools, Goto, Unsettled, durable, history, Turns, Maps, Types
<1>17. ASSUME Cleared PROVE Outside'
  BY <1>17 DEF Cleared, FailTools, Goto, Unsettled, durable, history, Maps, Types
<1>18. ASSUME FailTurn PROVE Outside'
  BY <1>18 DEF FailTurn, FailStep, Goto, durable, history, Types
<1>19. ASSUME StepEnded PROVE Outside'
  BY <1>19 DEF StepEnded, Goto, history, Types
<1>20. ASSUME Leftovers PROVE Outside'
  BY <1>20 DEF Leftovers, FailTools, Goto, Unsettled, durable, history, Maps, Types
<1>21. ASSUME Close PROVE Outside'
  BY <1>21 DEF Close, Reset, Forget, FreshPublisher, NoTools, FreshTurn, NoEvent, durable, history,
     Events, Publishers, Maps, Turns, Fibers, Types
<1>22. ASSUME NEW type \in {"input", "call", "hosted call"}, NEW c \in Call, ToolEvent(type, c) PROVE Outside'
  BY <1>22 DEF ToolEvent, Listening, New, Goto, durable, history, Events, Types
<1>23. ASSUME NEW c \in Call, NEW status \in {"completed", "error"}, HostedResult(c, status) PROVE Outside'
  BY <1>23 DEF HostedResult, Listening, Settle, control, history, Parts, Status, Counts, Maps,
     Types
<1>24. ASSUME StepFinish PROVE Outside'
  BY <1>24 DEF StepFinish, Listening, durable, control, history, Publishers, Types
<1>25. ASSUME ProviderError PROVE Outside'
  BY <1>25 DEF ProviderError, Listening, FailStep, durable, history, Publishers, Types
<1>26. ASSUME Overflow PROVE Outside'
  BY <1>26 DEF Overflow, Listening, durable, control, history, Turns, Types
<1>27. ASSUME NEW exit \in {"success", "llm error", "defect"}, StreamEnd(exit) PROVE Outside'
  BY <1>27 DEF StreamEnd, Goto, NoEvent, durable, history, Events, Turns, Types
<1>28. ASSUME NEW c \in Call, Tool(c) PROVE Outside'
  BY <1>28 DEF Tool, OperationSucceeds, OperationFails, OperationDies, Operation, Fail, durable,
     control, Fibers, Types
<1>29. ASSUME NEW c \in Call, Bound(c) PROVE Outside'
  BY <1>29 DEF Bound, durable, control, history, Fibers, Types
<1>30. ASSUME NEW c \in Call, BoundFails(c) PROVE Outside'
  BY <1>30 DEF BoundFails, Fail, durable, control, Fibers, Types
<1>31. ASSUME NEW c \in Call, PublishResult(c) PROVE Outside'
  BY <1>31 DEF PublishResult, Settle, Fail, Locked, durable, control, history, Parts, Status,
     Counts, Maps, Fibers, Types
<1>32. ASSUME NEW c \in Call, PublishFails(c) PROVE Outside'
  BY <1>32 DEF PublishFails, Fail, Locked, durable, control, history, Maps, Fibers, Types
<1>33. ASSUME NEW c \in Call, FiberInterrupted(c) PROVE Outside'
  BY <1>33 DEF FiberInterrupted, durable, control, history, Fibers, Types
<1>34. ASSUME Interrupt PROVE Outside'
  BY <1>34 DEF Interrupt, durable, control, history, Types
<1>35. ASSUME Crash PROVE Outside'
  BY <1>35 DEF Crash, Reset, FreshPublisher, NoTools, FreshTurn, NoEvent, durable, history, Events,
     Publishers, Maps, Turns, Fibers, Types
<1>36. ASSUME UNCHANGED vars PROVE Outside'
  BY <1>36 DEF vars, durable, control, history, Types
<1> QED
  BY <1>1, <1>2, <1>3, <1>4, <1>5, <1>6, <1>7, <1>8, <1>9, <1>10, <1>11, <1>12, <1>13, <1>14,
     <1>15, <1>16, <1>17, <1>18, <1>19, <1>20, <1>21, <1>22, <1>23, <1>24, <1>25, <1>26, <1>27,
     <1>28, <1>29, <1>30, <1>31, <1>32, <1>33, <1>34, <1>35, <1>36 DEF Next, Runner, Provider,
     Settlement
LEMMA StepSeen ==
  ASSUME Base, [Next]_vars
  PROVE  Seen'
<1> USE DEF Base, Seen, Active
<1>1. ASSUME DrainStart PROVE Seen'
  BY <1>1 DEF DrainStart, durable, history, Types
<1>2. ASSUME RecoverNext PROVE Seen'
  BY <1>2 DEF RecoverNext, Settle, durable, history, Parts, Status, Counts, Types
<1>3. ASSUME NEW lastStep \in LastStep, TurnBegin(lastStep) PROVE Seen'
  <2>1. tools' = tools /\ fiber' = fiber /\ pc' = "stream" /\ tools = NoTools
    BY <1>3 DEF TurnBegin, Goto, Outside
  <2> QED
    BY <2>1 DEF NoTools
<1>4. ASSUME DrainStop PROVE Seen'
  BY <1>4 DEF DrainStop, Reset, Forget, FreshPublisher, NoTools, FreshTurn, NoEvent, durable,
     history, Events, Publishers, Maps, Turns, Fibers, Types, Outside
<1>5. ASSUME StepStarted PROVE Seen'
  BY <1>5 DEF StepStarted, Listening, control, history, Publishers, Types
<1>6. ASSUME InputStarted PROVE Seen'
  <2>1. /\ tools'.seen = tools.seen \cup {event.call} /\ tools'.called = tools.called
        /\ tools'.hosted = tools.hosted /\ tools'.settled = tools.settled
    BY <1>6 DEF InputStarted, Types, Maps
  <2>2. publisher' = publisher /\ publisher.started /\ fiber' = fiber /\ pc' # "fail tools"
    BY <1>6 DEF InputStarted, Goto, control
  <2> QED
    BY <2>1, <2>2
<1>7. ASSUME Called PROVE Seen'
  <2>1. /\ tools'.called = tools.called \cup {event.call} /\ tools'.seen = tools.seen
        /\ tools'.hosted \subseteq tools.hosted \cup {event.call} /\ tools'.settled = tools.settled
    BY <1>7, CallMarked DEF Called, Types, Event
  <2>2. publisher' = publisher /\ fiber' = fiber /\ pc' # "fail tools" /\ event.call \in tools.seen
    BY <1>7 DEF Called, Goto
  <2> QED
    BY <2>1, <2>2
<1>8. ASSUME Fork PROVE Seen'
  BY <1>8 DEF Fork, FailTools, Goto, NoEvent, Unsettled, durable, history, Events, Turns, Fibers,
     Maps, Types, Event
<1>9. ASSUME StreamInterrupted PROVE Seen'
  BY <1>9 DEF StreamInterrupted, NoEvent, durable, history, Events, Turns, Types
<1>10. ASSUME FailNext PROVE Seen'
  <2>1. PICK c \in failing : /\ tools' = [tools EXCEPT !.settled = @ \cup {c}]
                             /\ failing' = failing \ {c}
    BY <1>10 DEF FailNext
  <2>2. pc = "fail tools" /\ publisher' = publisher /\ fiber' = fiber
    BY <1>10 DEF FailNext
  <2>3. /\ tools'.settled = tools.settled \cup {c} /\ tools'.seen = tools.seen
        /\ tools'.called = tools.called /\ tools'.hosted = tools.hosted
    BY <2>1, CallSettled DEF Types
  <2> QED
    BY <2>1, <2>2, <2>3
<1>11. ASSUME StepFailed PROVE Seen'
  BY <1>11 DEF StepFailed, Goto, history, Publishers, Types, Then
<1>12. ASSUME Recovered PROVE Seen'
  BY <1>12 DEF Recovered, Recoverable, Goto, FreshTurn, durable, history, Turns, Types
<1>13. ASSUME RecoveryInterrupted PROVE Seen'
  BY <1>13 DEF RecoveryInterrupted, Recoverable, Goto, durable, history, Turns, Types
<1>14. ASSUME StreamSettle PROVE Seen'
  BY <1>14 DEF StreamSettle, FailStep, FailTools, Goto, Unsettled, durable, history, Publishers,
     Maps, Types
<1>15. ASSUME LlmFailure PROVE Seen'
  BY <1>15 DEF LlmFailure, FailStep, durable, history, Types
<1>16. ASSUME Await PROVE Seen'
  BY <1>16 DEF Await, FailTools, Goto, Unsettled, durable, history, Turns, Maps, Types
<1>17. ASSUME Cleared PROVE Seen'
  BY <1>17 DEF Cleared, FailTools, Goto, Unsettled, durable, history, Maps, Types
<1>18. ASSUME FailTurn PROVE Seen'
  BY <1>18 DEF FailTurn, FailStep, Goto, durable, history, Types
<1>19. ASSUME StepEnded PROVE Seen'
  BY <1>19 DEF StepEnded, Goto, history, Types
<1>20. ASSUME Leftovers PROVE Seen'
  BY <1>20 DEF Leftovers, FailTools, Goto, Unsettled, durable, history, Maps, Types
<1>21. ASSUME Close PROVE Seen'
  BY <1>21 DEF Close, Reset, Forget, FreshPublisher, NoTools, FreshTurn, NoEvent, durable, history,
     Events, Publishers, Maps, Turns, Fibers, Types
<1>22. ASSUME NEW type \in {"input", "call", "hosted call"}, NEW c \in Call, ToolEvent(type, c) PROVE Seen'
  BY <1>22 DEF ToolEvent, Listening, New, Goto, durable, history, Events, Types
<1>23. ASSUME NEW c \in Call, NEW status \in {"completed", "error"}, HostedResult(c, status) PROVE Seen'
  <2>1. tools' = [tools EXCEPT !.settled = @ \cup {c}] /\ c \in tools.called
        /\ pc' = pc /\ pc = "stream" /\ publisher' = publisher /\ fiber' = fiber
    BY <1>23 DEF HostedResult, Listening, control
  <2> QED
    BY <2>1, CallSettled DEF Types
<1>24. ASSUME StepFinish PROVE Seen'
  BY <1>24 DEF StepFinish, Listening, durable, control, history, Publishers, Types
<1>25. ASSUME ProviderError PROVE Seen'
  BY <1>25 DEF ProviderError, Listening, FailStep, durable, history, Publishers, Types
<1>26. ASSUME Overflow PROVE Seen'
  BY <1>26 DEF Overflow, Listening, durable, control, history, Turns, Types
<1>27. ASSUME NEW exit \in {"success", "llm error", "defect"}, StreamEnd(exit) PROVE Seen'
  BY <1>27 DEF StreamEnd, Goto, NoEvent, durable, history, Events, Turns, Types
<1>28. ASSUME NEW c \in Call, Tool(c) PROVE Seen'
  BY <1>28 DEF Tool, OperationSucceeds, OperationFails, OperationDies, Operation, Fail, durable,
     control, Fibers, Types
<1>29. ASSUME NEW c \in Call, Bound(c) PROVE Seen'
  BY <1>29 DEF Bound, durable, control, history, Fibers, Types
<1>30. ASSUME NEW c \in Call, BoundFails(c) PROVE Seen'
  BY <1>30 DEF BoundFails, Fail, durable, control, Fibers, Types
<1>31. ASSUME NEW c \in Call, PublishResult(c) PROVE Seen'
  <2>1. /\ tools' = [tools EXCEPT !.settled = @ \cup {c}] /\ c \in tools.called
        /\ pc' = pc /\ pc # "fail tools" /\ publisher' = publisher
        /\ \A d \in Call : Active(d)' => Active(d)
    BY <1>31 DEF PublishResult, Locked, control, Types, Fibers
  <2> QED
    BY <2>1, CallSettled DEF Types
<1>32. ASSUME NEW c \in Call, PublishFails(c) PROVE Seen'
  <2>1. /\ tools' = [tools EXCEPT !.settled = @ \cup {c}] /\ c \in tools.called
        /\ pc' = pc /\ pc # "fail tools" /\ publisher' = publisher
        /\ \A d \in Call : Active(d)' => Active(d)
    BY <1>32 DEF PublishFails, Locked, control, Types, Fibers
  <2> QED
    BY <2>1, CallSettled DEF Types
<1>33. ASSUME NEW c \in Call, FiberInterrupted(c) PROVE Seen'
  BY <1>33 DEF FiberInterrupted, durable, control, history, Fibers, Types
<1>34. ASSUME Interrupt PROVE Seen'
  BY <1>34 DEF Interrupt, durable, control, history, Types
<1>35. ASSUME Crash PROVE Seen'
  BY <1>35 DEF Crash, Reset, FreshPublisher, NoTools, FreshTurn, NoEvent, durable, history, Events,
     Publishers, Maps, Turns, Fibers, Types
<1>36. ASSUME UNCHANGED vars PROVE Seen'
  BY <1>36 DEF vars, durable, control, history, Types
<1> QED
  BY <1>1, <1>2, <1>3, <1>4, <1>5, <1>6, <1>7, <1>8, <1>9, <1>10, <1>11, <1>12, <1>13, <1>14,
     <1>15, <1>16, <1>17, <1>18, <1>19, <1>20, <1>21, <1>22, <1>23, <1>24, <1>25, <1>26, <1>27,
     <1>28, <1>29, <1>30, <1>31, <1>32, <1>33, <1>34, <1>35, <1>36 DEF Next, Runner, Provider,
     Settlement
LEMMA StepEvent ==
  ASSUME Base, [Next]_vars
  PROVE  (Event /\ Then)'
<1> USE DEF Base, Event, Then
<1>1. ASSUME DrainStart PROVE (Event /\ Then)'
  BY <1>1 DEF DrainStart, durable, history, Types
<1>2. ASSUME RecoverNext PROVE (Event /\ Then)'
  BY <1>2 DEF RecoverNext, Settle, durable, history, Parts, Status, Counts, Types
<1>3. ASSUME NEW lastStep \in LastStep, TurnBegin(lastStep) PROVE (Event /\ Then)'
  BY <1>3 DEF TurnBegin, Goto, FreshPublisher, history, Publishers, Turns, Types
<1>4. ASSUME DrainStop PROVE (Event /\ Then)'
  BY <1>4 DEF DrainStop, Reset, Forget, FreshPublisher, NoTools, FreshTurn, NoEvent, durable,
     history, Events, Publishers, Maps, Turns, Fibers, Types
<1>5. ASSUME StepStarted PROVE (Event /\ Then)'
  BY <1>5 DEF StepStarted, Listening, control, history, Publishers, Types
<1>6. ASSUME InputStarted PROVE (Event /\ Then)'
  BY <1>6 DEF InputStarted, Goto, NoEvent, control, history, Parts, Status, Events, Maps, Types
<1>7. ASSUME Called PROVE (Event /\ Then)'
  BY <1>7 DEF Called, Goto, NoEvent, history, Parts, Status, Events, Maps, Types
<1>8. ASSUME Fork PROVE (Event /\ Then)'
  BY <1>8 DEF Fork, FailTools, Goto, NoEvent, Unsettled, durable, history, Events, Turns, Fibers,
     Maps, Types
<1>9. ASSUME StreamInterrupted PROVE (Event /\ Then)'
  BY <1>9 DEF StreamInterrupted, NoEvent, durable, history, Events, Turns, Types
<1>10. ASSUME FailNext PROVE (Event /\ Then)'
  BY <1>10 DEF FailNext, Settle, history, Parts, Status, Counts, Maps, Types
<1>11. ASSUME StepFailed PROVE (Event /\ Then)'
  BY <1>11 DEF StepFailed, Goto, history, Publishers, Types
<1>12. ASSUME Recovered PROVE (Event /\ Then)'
  BY <1>12 DEF Recovered, Recoverable, Goto, FreshTurn, durable, history, Turns, Types
<1>13. ASSUME RecoveryInterrupted PROVE (Event /\ Then)'
  BY <1>13 DEF RecoveryInterrupted, Recoverable, Goto, durable, history, Turns, Types
<1>14. ASSUME StreamSettle PROVE (Event /\ Then)'
  BY <1>14 DEF StreamSettle, FailStep, FailTools, Goto, Unsettled, durable, history, Publishers,
     Maps, Types
<1>15. ASSUME LlmFailure PROVE (Event /\ Then)'
  BY <1>15 DEF LlmFailure, FailStep, durable, history, Types
<1>16. ASSUME Await PROVE (Event /\ Then)'
  BY <1>16 DEF Await, FailTools, Goto, Unsettled, durable, history, Turns, Maps, Types
<1>17. ASSUME Cleared PROVE (Event /\ Then)'
  BY <1>17 DEF Cleared, FailTools, Goto, Unsettled, durable, history, Maps, Types
<1>18. ASSUME FailTurn PROVE (Event /\ Then)'
  BY <1>18 DEF FailTurn, FailStep, Goto, durable, history, Types
<1>19. ASSUME StepEnded PROVE (Event /\ Then)'
  BY <1>19 DEF StepEnded, Goto, history, Types
<1>20. ASSUME Leftovers PROVE (Event /\ Then)'
  BY <1>20 DEF Leftovers, FailTools, Goto, Unsettled, durable, history, Maps, Types
<1>21. ASSUME Close PROVE (Event /\ Then)'
  BY <1>21 DEF Close, Reset, Forget, FreshPublisher, NoTools, FreshTurn, NoEvent, durable, history,
     Events, Publishers, Maps, Turns, Fibers, Types
<1>22. ASSUME NEW type \in {"input", "call", "hosted call"}, NEW c \in Call, ToolEvent(type, c) PROVE (Event /\ Then)'
  BY <1>22 DEF ToolEvent, Listening, New, Goto, durable, history, Events, Types, Seen
<1>23. ASSUME NEW c \in Call, NEW status \in {"completed", "error"}, HostedResult(c, status) PROVE (Event /\ Then)'
  BY <1>23 DEF HostedResult, Listening, Settle, control, history, Parts, Status, Counts, Maps,
     Types
<1>24. ASSUME StepFinish PROVE (Event /\ Then)'
  BY <1>24 DEF StepFinish, Listening, durable, control, history, Publishers, Types
<1>25. ASSUME ProviderError PROVE (Event /\ Then)'
  BY <1>25 DEF ProviderError, Listening, FailStep, durable, history, Publishers, Types
<1>26. ASSUME Overflow PROVE (Event /\ Then)'
  BY <1>26 DEF Overflow, Listening, durable, control, history, Turns, Types
<1>27. ASSUME NEW exit \in {"success", "llm error", "defect"}, StreamEnd(exit) PROVE (Event /\ Then)'
  BY <1>27 DEF StreamEnd, Goto, NoEvent, durable, history, Events, Turns, Types
<1>28. ASSUME NEW c \in Call, Tool(c) PROVE (Event /\ Then)'
  BY <1>28 DEF Tool, OperationSucceeds, OperationFails, OperationDies, Operation, Fail, durable,
     control, Fibers, Types
<1>29. ASSUME NEW c \in Call, Bound(c) PROVE (Event /\ Then)'
  BY <1>29 DEF Bound, durable, control, history, Fibers, Types
<1>30. ASSUME NEW c \in Call, BoundFails(c) PROVE (Event /\ Then)'
  BY <1>30 DEF BoundFails, Fail, durable, control, Fibers, Types
<1>31. ASSUME NEW c \in Call, PublishResult(c) PROVE (Event /\ Then)'
  BY <1>31 DEF PublishResult, Settle, Fail, Locked, durable, control, history, Parts, Status,
     Counts, Maps, Fibers, Types
<1>32. ASSUME NEW c \in Call, PublishFails(c) PROVE (Event /\ Then)'
  BY <1>32 DEF PublishFails, Fail, Locked, durable, control, history, Maps, Fibers, Types
<1>33. ASSUME NEW c \in Call, FiberInterrupted(c) PROVE (Event /\ Then)'
  BY <1>33 DEF FiberInterrupted, durable, control, history, Fibers, Types
<1>34. ASSUME Interrupt PROVE (Event /\ Then)'
  BY <1>34 DEF Interrupt, durable, control, history, Types
<1>35. ASSUME Crash PROVE (Event /\ Then)'
  BY <1>35 DEF Crash, Reset, FreshPublisher, NoTools, FreshTurn, NoEvent, durable, history, Events,
     Publishers, Maps, Turns, Fibers, Types
<1>36. ASSUME UNCHANGED vars PROVE (Event /\ Then)'
  BY <1>36 DEF vars, durable, control, history, Types
<1> QED
  BY <1>1, <1>2, <1>3, <1>4, <1>5, <1>6, <1>7, <1>8, <1>9, <1>10, <1>11, <1>12, <1>13, <1>14,
     <1>15, <1>16, <1>17, <1>18, <1>19, <1>20, <1>21, <1>22, <1>23, <1>24, <1>25, <1>26, <1>27,
     <1>28, <1>29, <1>30, <1>31, <1>32, <1>33, <1>34, <1>35, <1>36 DEF Next, Runner, Provider,
     Settlement

LEMMA InitBase == Init => Base
<1> SUFFICES ASSUME Init PROVE Base
  OBVIOUS
<1> USE DEF Init, FreshPublisher, NoTools, FreshTurn
<1>1. Types
  BY NoEventType DEF Types, Parts, Counts, Publishers, Maps, Turns, Fibers, Status
<1>2. Outside /\ Seen
  BY DEF Outside, Seen, Active
<1>3. Event /\ Then
  BY DEF Event, Then
<1> QED
  BY <1>1, <1>2, <1>3 DEF Base

LEMMA StepBase == Base /\ [Next]_vars => Base'
<1> SUFFICES ASSUME Base, [Next]_vars PROVE Base'
  OBVIOUS
<1>1. Types'
  BY StepTypes DEF Base, Event
<1> QED
  BY <1>1, StepOutside, StepSeen, StepEvent DEF Base

LEMMA BaseInvariant == Spec => []Base
BY InitBase, StepBase, PTL DEF Spec

(* The rest of the types.                                                  *)
Rest ==
  /\ step \in {"none", "started", "ended", "failed"}
  /\ pc \in {"off", "recover", "prepare", "stream", "event", "fork", "ended", "clear", "await",
             "fail tools", "fail step", "llm failure", "fail turn", "settle step", "leftovers", "close"}
  /\ fault \in {"none", "failed", "declined"}
  /\ interrupted \in BOOLEAN
  /\ succeeded \subseteq Call
  /\ unretained \subseteq Call

LEMMA StepRest ==
  ASSUME Base, Rest, [Next]_vars
  PROVE  Rest'
<1> USE DEF Base, Rest, Then
<1>1. ASSUME DrainStart PROVE Rest'
  BY <1>1 DEF DrainStart, durable, history
<1>2. ASSUME RecoverNext PROVE Rest'
  BY <1>2 DEF RecoverNext, Settle, durable, history
<1>3. ASSUME NEW lastStep \in LastStep, TurnBegin(lastStep) PROVE Rest'
  BY <1>3 DEF TurnBegin, Goto, FreshPublisher, history
<1>4. ASSUME DrainStop PROVE Rest'
  BY <1>4 DEF DrainStop, Reset, Forget, FreshPublisher, NoTools, FreshTurn, NoEvent, durable,
     history
<1>5. ASSUME StepStarted PROVE Rest'
  BY <1>5 DEF StepStarted, Listening, control, history
<1>6. ASSUME InputStarted PROVE Rest'
  BY <1>6 DEF InputStarted, Goto, NoEvent, control, history
<1>7. ASSUME Called PROVE Rest'
  BY <1>7 DEF Called, Goto, NoEvent, history
<1>8. ASSUME Fork PROVE Rest'
  BY <1>8 DEF Fork, FailTools, Goto, NoEvent, Unsettled, durable, history
<1>9. ASSUME StreamInterrupted PROVE Rest'
  BY <1>9 DEF StreamInterrupted, NoEvent, durable, history
<1>10. ASSUME FailNext PROVE Rest'
  BY <1>10 DEF FailNext, Settle, history
<1>11. ASSUME StepFailed PROVE Rest'
  BY <1>11 DEF StepFailed, Goto, history
<1>12. ASSUME Recovered PROVE Rest'
  BY <1>12 DEF Recovered, Recoverable, Goto, FreshTurn, durable, history
<1>13. ASSUME RecoveryInterrupted PROVE Rest'
  BY <1>13 DEF RecoveryInterrupted, Recoverable, Goto, durable, history
<1>14. ASSUME StreamSettle PROVE Rest'
  BY <1>14 DEF StreamSettle, FailStep, FailTools, Goto, Unsettled, durable, history
<1>15. ASSUME LlmFailure PROVE Rest'
  BY <1>15 DEF LlmFailure, FailStep, durable, history
<1>16. ASSUME Await PROVE Rest'
  BY <1>16 DEF Await, FailTools, Goto, Unsettled, durable, history
<1>17. ASSUME Cleared PROVE Rest'
  BY <1>17 DEF Cleared, FailTools, Goto, Unsettled, durable, history
<1>18. ASSUME FailTurn PROVE Rest'
  BY <1>18 DEF FailTurn, FailStep, Goto, durable, history
<1>19. ASSUME StepEnded PROVE Rest'
  BY <1>19 DEF StepEnded, Goto, history
<1>20. ASSUME Leftovers PROVE Rest'
  BY <1>20 DEF Leftovers, FailTools, Goto, Unsettled, durable, history
<1>21. ASSUME Close PROVE Rest'
  BY <1>21 DEF Close, Reset, Forget, FreshPublisher, NoTools, FreshTurn, NoEvent, durable, history
<1>22. ASSUME NEW type \in {"input", "call", "hosted call"}, NEW c \in Call, ToolEvent(type, c) PROVE Rest'
  BY <1>22 DEF ToolEvent, Listening, New, Goto, durable, history
<1>23. ASSUME NEW c \in Call, NEW status \in {"completed", "error"}, HostedResult(c, status) PROVE Rest'
  BY <1>23 DEF HostedResult, Listening, Settle, control, history
<1>24. ASSUME StepFinish PROVE Rest'
  BY <1>24 DEF StepFinish, Listening, durable, control, history
<1>25. ASSUME ProviderError PROVE Rest'
  BY <1>25 DEF ProviderError, Listening, FailStep, durable, history
<1>26. ASSUME Overflow PROVE Rest'
  BY <1>26 DEF Overflow, Listening, durable, control, history
<1>27. ASSUME NEW exit \in {"success", "llm error", "defect"}, StreamEnd(exit) PROVE Rest'
  BY <1>27 DEF StreamEnd, Goto, NoEvent, durable, history
<1>28. ASSUME NEW c \in Call, Tool(c) PROVE Rest'
  BY <1>28 DEF Tool, OperationSucceeds, OperationFails, OperationDies, Operation, Fail, durable,
     control
<1>29. ASSUME NEW c \in Call, Bound(c) PROVE Rest'
  BY <1>29 DEF Bound, durable, control, history
<1>30. ASSUME NEW c \in Call, BoundFails(c) PROVE Rest'
  BY <1>30 DEF BoundFails, Fail, durable, control
<1>31. ASSUME NEW c \in Call, PublishResult(c) PROVE Rest'
  BY <1>31 DEF PublishResult, Settle, Fail, Locked, durable, control, history
<1>32. ASSUME NEW c \in Call, PublishFails(c) PROVE Rest'
  BY <1>32 DEF PublishFails, Fail, Locked, durable, control, history
<1>33. ASSUME NEW c \in Call, FiberInterrupted(c) PROVE Rest'
  BY <1>33 DEF FiberInterrupted, durable, control, history
<1>34. ASSUME Interrupt PROVE Rest'
  BY <1>34 DEF Interrupt, durable, control, history
<1>35. ASSUME Crash PROVE Rest'
  BY <1>35 DEF Crash, Reset, FreshPublisher, NoTools, FreshTurn, NoEvent, durable, history
<1>36. ASSUME UNCHANGED vars PROVE Rest'
  BY <1>36 DEF vars, durable, control, history
<1> QED
  BY <1>1, <1>2, <1>3, <1>4, <1>5, <1>6, <1>7, <1>8, <1>9, <1>10, <1>11, <1>12, <1>13, <1>14,
     <1>15, <1>16, <1>17, <1>18, <1>19, <1>20, <1>21, <1>22, <1>23, <1>24, <1>25, <1>26, <1>27,
     <1>28, <1>29, <1>30, <1>31, <1>32, <1>33, <1>34, <1>35, <1>36 DEF Next, Runner, Provider,
     Settlement
(* Every variable keeps its type, through failures, interrupts and crashes. *)
THEOREM TypeCorrect == Spec => []TypeOK
<1>1. Init => Rest
  BY DEF Init, Rest
<1>2. Base /\ Rest /\ [Next]_vars => Rest'
  BY StepRest
<1>3. Base /\ Rest => TypeOK
  BY DEF Base, Then, Rest, Types, Parts, Counts, Events, Publishers, Maps, Turns, Fibers, TypeOK
<1> QED
  BY <1>1, <1>2, <1>3, BaseInvariant, PTL DEF Spec

(* Whatever fails and however a turn ends, no tool runs while the session is *)
(* idle or a request is built (the scope of `runTurnAttempt` in llm.ts).     *)
THEOREM NoneOutlives == Spec => []NoExecutionOutlivesTurn
<1>1. Base => NoExecutionOutlivesTurn
  BY DEF Base, Outside, NoExecutionOutlivesTurn
<1> QED
  BY <1>1, BaseInvariant, PTL

-----------------------------------------------------------------------------
\* A call is settled once.

Streaming == pc \in {"stream", "event", "fork"} \/ (pc = "fail step" /\ then = "stream")

(* As long as the stream is open only calls that were recorded have been   *)
(* settled; what is not seen has no part yet.                              *)
Stream ==
  /\ ~turn.lastStep
  /\ Streaming => turn.stream = "open" /\ turn.settled = "open" /\ tools.settled \subseteq tools.called
  /\ pc = "fail tools" => then # "stream"
  /\ pc = "event" /\ event.call \notin tools.seen => part[event.call] = "none"

(* An open part has not been settled, and a call that is not settled is    *)
(* open, whatever turn it belongs to.                                      *)
Settled(c) ==
  /\ settlements[c] \in {0, 1}
  /\ part[c] \in {"none", "pending", "running"} => settlements[c] = 0
  /\ c \in tools.seen \ tools.settled => Open(c)
  /\ c \in tools.called \ tools.settled => part[c] = "running"

Failing ==
  /\ pc = "recover" => \A c \in failing : Open(c)
  /\ pc = "fail tools" => failing \subseteq Unsettled

SettleInv == Stream /\ Failing /\ \A c \in Call : Settled(c)

LEMMA StepStream ==
  ASSUME Base, SettleInv, [Next]_vars, LastStep \subseteq {FALSE}
  PROVE  Stream'
<1> USE DEF Base, SettleInv, Stream, Streaming
<1>1. ASSUME DrainStart PROVE Stream'
  BY <1>1 DEF DrainStart, durable, history, Types
<1>2. ASSUME RecoverNext PROVE Stream'
  BY <1>2 DEF RecoverNext, Settle, durable, history, Types
<1>3. ASSUME NEW lastStep \in LastStep, TurnBegin(lastStep) PROVE Stream'
  <2>1. tools' = tools /\ tools.settled = {} /\ turn.stream = "open" /\ turn.settled = "open"
        /\ pc' = "stream"
    BY <1>3 DEF TurnBegin, Goto, Outside, NoTools
  <2>2. turn' = [turn EXCEPT !.lastStep = FALSE]
    <3>1. lastStep = FALSE
      BY Zenon
    <3> QED
      BY <1>3, <3>1, Zenon DEF TurnBegin
  <2>3. turn'.stream = turn.stream /\ turn'.settled = turn.settled /\ ~turn'.lastStep
    BY <2>2 DEF Types, Turns
  <2> QED
    BY <2>1, <2>3
<1>4. ASSUME DrainStop PROVE Stream'
  BY <1>4 DEF DrainStop, Reset, Forget, FreshPublisher, NoTools, FreshTurn, NoEvent, durable,
     history, Events, Maps, Turns, Types
<1>5. ASSUME StepStarted PROVE Stream'
  BY <1>5 DEF StepStarted, Listening, control, history, Types
<1>6. ASSUME InputStarted PROVE Stream'
  BY <1>6 DEF InputStarted, Goto, NoEvent, control, history, Events, Maps, Types
<1>7. ASSUME Called PROVE Stream'
  <2>1. /\ tools'.called = tools.called \cup {event.call} /\ tools'.seen = tools.seen
        /\ tools'.settled = tools.settled
    BY <1>7, CallMarked DEF Called, Types, Event
  <2>2. turn' = turn /\ pc' \in {"fork", "stream"} /\ pc = "event"
    BY <1>7 DEF Called, Goto
  <2> QED
    BY <2>1, <2>2
<1>8. ASSUME Fork PROVE Stream'
  BY <1>8 DEF Fork, FailTools, Goto, NoEvent, Unsettled, durable, history, Events, Turns, Maps,
     Types, Event
<1>9. ASSUME StreamInterrupted PROVE Stream'
  BY <1>9 DEF StreamInterrupted, NoEvent, durable, history, Events, Turns, Types
<1>10. ASSUME FailNext PROVE Stream'
  <2>1. turn' = turn /\ pc' \in {pc, then} /\ pc = "fail tools" /\ event' = event
        /\ then' \in {then, "none"}
    BY <1>10 DEF FailNext
  <2> QED
    BY <2>1 DEF Then
<1>11. ASSUME StepFailed PROVE Stream'
  BY <1>11 DEF StepFailed, Goto, history, Types, Then
<1>12. ASSUME Recovered PROVE Stream'
  BY <1>12 DEF Recovered, Recoverable, Goto, FreshTurn, durable, history, Turns, Types, Seen
<1>13. ASSUME RecoveryInterrupted PROVE Stream'
  BY <1>13 DEF RecoveryInterrupted, Recoverable, Goto, durable, history, Turns, Types
<1>14. ASSUME StreamSettle PROVE Stream'
  BY <1>14 DEF StreamSettle, FailStep, FailTools, Goto, Unsettled, durable, history, Maps, Types
<1>15. ASSUME LlmFailure PROVE Stream'
  BY <1>15 DEF LlmFailure, FailStep, durable, history, Types
<1>16. ASSUME Await PROVE Stream'
  BY <1>16 DEF Await, FailTools, Goto, Unsettled, durable, history, Turns, Maps, Types
<1>17. ASSUME Cleared PROVE Stream'
  BY <1>17 DEF Cleared, FailTools, Goto, Unsettled, durable, history, Maps, Types
<1>18. ASSUME FailTurn PROVE Stream'
  BY <1>18 DEF FailTurn, FailStep, Goto, durable, history, Types
<1>19. ASSUME StepEnded PROVE Stream'
  BY <1>19 DEF StepEnded, Goto, history, Types
<1>20. ASSUME Leftovers PROVE Stream'
  BY <1>20 DEF Leftovers, FailTools, Goto, Unsettled, durable, history, Maps, Types
<1>21. ASSUME Close PROVE Stream'
  BY <1>21 DEF Close, Reset, Forget, FreshPublisher, NoTools, FreshTurn, NoEvent, durable, history,
     Events, Maps, Turns, Types
<1>22. ASSUME NEW type \in {"input", "call", "hosted call"}, NEW c \in Call, ToolEvent(type, c) PROVE Stream'
  BY <1>22 DEF ToolEvent, Listening, New, Goto, durable, history, Events, Types
<1>23. ASSUME NEW c \in Call, NEW status \in {"completed", "error"}, HostedResult(c, status) PROVE Stream'
  <2>1. tools' = [tools EXCEPT !.settled = @ \cup {c}] /\ c \in tools.called
        /\ pc' = pc /\ pc = "stream" /\ turn' = turn
    BY <1>23 DEF HostedResult, Listening, control
  <2> QED
    BY <2>1, CallSettled DEF Types
<1>24. ASSUME StepFinish PROVE Stream'
  BY <1>24 DEF StepFinish, Listening, durable, control, history, Types
<1>25. ASSUME ProviderError PROVE Stream'
  BY <1>25 DEF ProviderError, Listening, FailStep, durable, history, Types
<1>26. ASSUME Overflow PROVE Stream'
  BY <1>26 DEF Overflow, Listening, durable, control, history, Turns, Types
<1>27. ASSUME NEW exit \in {"success", "llm error", "defect"}, StreamEnd(exit) PROVE Stream'
  BY <1>27 DEF StreamEnd, Goto, NoEvent, durable, history, Events, Turns, Types
<1>28. ASSUME NEW c \in Call, Tool(c) PROVE Stream'
  BY <1>28 DEF Tool, OperationSucceeds, OperationFails, OperationDies, Operation, Fail, durable,
     control, Types
<1>29. ASSUME NEW c \in Call, Bound(c) PROVE Stream'
  BY <1>29 DEF Bound, durable, control, history, Types
<1>30. ASSUME NEW c \in Call, BoundFails(c) PROVE Stream'
  BY <1>30 DEF BoundFails, Fail, durable, control, Types
<1>31. ASSUME NEW c \in Call, PublishResult(c) PROVE Stream'
  <2>1. tools' = [tools EXCEPT !.settled = @ \cup {c}] /\ c \in tools.called
        /\ pc' = pc /\ then' = then /\ pc \notin {"event", "fail tools"} /\ turn' = turn
    BY <1>31 DEF PublishResult, Locked, control, Seen, Active
  <2> QED
    BY <2>1, CallSettled DEF Types
<1>32. ASSUME NEW c \in Call, PublishFails(c) PROVE Stream'
  <2>1. tools' = [tools EXCEPT !.settled = @ \cup {c}] /\ c \in tools.called
        /\ pc' = pc /\ then' = then /\ pc \notin {"event", "fail tools"} /\ turn' = turn
    BY <1>32 DEF PublishFails, Locked, control, Seen, Active
  <2> QED
    BY <2>1, CallSettled DEF Types
<1>33. ASSUME NEW c \in Call, FiberInterrupted(c) PROVE Stream'
  BY <1>33 DEF FiberInterrupted, durable, control, history, Types
<1>34. ASSUME Interrupt PROVE Stream'
  BY <1>34 DEF Interrupt, durable, control, history, Types
<1>35. ASSUME Crash PROVE Stream'
  BY <1>35 DEF Crash, Reset, FreshPublisher, NoTools, FreshTurn, NoEvent, durable, history, Events,
     Maps, Turns, Types
<1>36. ASSUME UNCHANGED vars PROVE Stream'
  BY <1>36 DEF vars, durable, control, history, Types
<1> QED
  BY <1>1, <1>2, <1>3, <1>4, <1>5, <1>6, <1>7, <1>8, <1>9, <1>10, <1>11, <1>12, <1>13, <1>14,
     <1>15, <1>16, <1>17, <1>18, <1>19, <1>20, <1>21, <1>22, <1>23, <1>24, <1>25, <1>26, <1>27,
     <1>28, <1>29, <1>30, <1>31, <1>32, <1>33, <1>34, <1>35, <1>36 DEF Next, Runner, Provider,
     Settlement
LEMMA StepSettled ==
  ASSUME Base, SettleInv, [Next]_vars, NEW d \in Call
  PROVE  Settled(d)'
<1> USE DEF Base, SettleInv, Settled, Open
<1>1. ASSUME DrainStart PROVE Settled(d)'
  BY <1>1 DEF DrainStart, durable, history
<1>2. ASSUME RecoverNext PROVE Settled(d)'
  <2>1. CASE UNCHANGED durable
    BY <1>2, <2>1 DEF RecoverNext, durable
  <2>2. ASSUME NEW c \in failing, Settle(c, "error") PROVE Settled(d)'
    <3>1. c \in Call /\ Open(c) /\ tools' = tools /\ tools.seen = {} /\ tools.called \subseteq tools.seen
      BY <1>2 DEF RecoverNext, Failing, Types, Outside, Seen, NoTools
    <3> QED
      BY <2>2, <3>1, Settles DEF Types
  <2> QED
    BY <1>2, <2>1, <2>2 DEF RecoverNext, durable
<1>3. ASSUME NEW lastStep \in LastStep, TurnBegin(lastStep) PROVE Settled(d)'
  BY <1>3 DEF TurnBegin, Goto, FreshPublisher, history
<1>4. ASSUME DrainStop PROVE Settled(d)'
  BY <1>4 DEF DrainStop, Reset, Forget, FreshPublisher, NoTools, FreshTurn, NoEvent, durable,
     history
<1>5. ASSUME StepStarted PROVE Settled(d)'
  BY <1>5 DEF StepStarted, Listening, control, history
<1>6. ASSUME InputStarted PROVE Settled(d)'
  <2>1. /\ tools'.seen = tools.seen \cup {event.call} /\ tools'.called = tools.called
        /\ tools'.settled = tools.settled
    BY <1>6 DEF InputStarted, Types, Maps
  <2>2. /\ part' = [part EXCEPT ![event.call] = "pending"] /\ settlements' = settlements
        /\ event.call \in Call /\ part[event.call] = "none" /\ event.call \notin tools.called
    BY <1>6 DEF InputStarted, Event, Stream
  <2> QED
    BY <2>1, <2>2 DEF Types, Parts
<1>7. ASSUME Called PROVE Settled(d)'
  <2>1. /\ tools'.called = tools.called \cup {event.call} /\ tools'.seen = tools.seen
        /\ tools'.settled = tools.settled
    BY <1>7, CallMarked DEF Called, Types, Event
  <2>2. /\ part' = [part EXCEPT ![event.call] = "running"] /\ settlements' = settlements
        /\ event.call \in Call /\ event.call \in tools.seen \ tools.settled
    BY <1>7 DEF Called, Event, Stream, Streaming
  <2> QED
    BY <2>1, <2>2 DEF Types, Parts
<1>8. ASSUME Fork PROVE Settled(d)'
  BY <1>8 DEF Fork, FailTools, Goto, NoEvent, Unsettled, durable, history
<1>9. ASSUME StreamInterrupted PROVE Settled(d)'
  BY <1>9 DEF StreamInterrupted, NoEvent, durable, history
<1>10. ASSUME FailNext PROVE Settled(d)'
  <2>1. PICK c \in failing : Settle(c, "error") /\ tools' = [tools EXCEPT !.settled = @ \cup {c}]
    BY <1>10 DEF FailNext
  <2>2. c \in Call /\ c \in tools.seen \ tools.settled
    BY <1>10 DEF FailNext, Failing, Unsettled, Types
  <2>3. /\ tools'.settled = tools.settled \cup {c} /\ tools'.seen = tools.seen
        /\ tools'.called = tools.called
    BY <2>1, <2>2, CallSettled DEF Types
  <2> QED
    BY <2>1, <2>2, <2>3, Settles DEF Types
<1>11. ASSUME StepFailed PROVE Settled(d)'
  BY <1>11 DEF StepFailed, Goto, history
<1>12. ASSUME Recovered PROVE Settled(d)'
  BY <1>12 DEF Recovered, Recoverable, Goto, FreshTurn, durable, history
<1>13. ASSUME RecoveryInterrupted PROVE Settled(d)'
  BY <1>13 DEF RecoveryInterrupted, Recoverable, Goto, durable, history
<1>14. ASSUME StreamSettle PROVE Settled(d)'
  BY <1>14 DEF StreamSettle, FailStep, FailTools, Goto, Unsettled, durable, history
<1>15. ASSUME LlmFailure PROVE Settled(d)'
  BY <1>15 DEF LlmFailure, FailStep, durable, history
<1>16. ASSUME Await PROVE Settled(d)'
  BY <1>16 DEF Await, FailTools, Goto, Unsettled, durable, history
<1>17. ASSUME Cleared PROVE Settled(d)'
  BY <1>17 DEF Cleared, FailTools, Goto, Unsettled, durable, history
<1>18. ASSUME FailTurn PROVE Settled(d)'
  BY <1>18 DEF FailTurn, FailStep, Goto, durable, history
<1>19. ASSUME StepEnded PROVE Settled(d)'
  BY <1>19 DEF StepEnded, Goto, history
<1>20. ASSUME Leftovers PROVE Settled(d)'
  BY <1>20 DEF Leftovers, FailTools, Goto, Unsettled, durable, history
<1>21. ASSUME Close PROVE Settled(d)'
  BY <1>21 DEF Close, Reset, Forget, FreshPublisher, NoTools, FreshTurn, NoEvent, durable, history
<1>22. ASSUME NEW type \in {"input", "call", "hosted call"}, NEW c \in Call, ToolEvent(type, c) PROVE Settled(d)'
  BY <1>22 DEF ToolEvent, Listening, New, Goto, durable, history
<1>23. ASSUME NEW c \in Call, NEW status \in {"completed", "error"}, HostedResult(c, status) PROVE Settled(d)'
  <2>1. c \in tools.called \ tools.settled /\ tools' = [tools EXCEPT !.settled = @ \cup {c}]
        /\ Settle(c, status)
    BY <1>23 DEF HostedResult
  <2>2. /\ tools'.settled = tools.settled \cup {c} /\ tools'.seen = tools.seen
        /\ tools'.called = tools.called
    BY <2>1, CallSettled DEF Types
  <2> QED
    BY <2>1, <2>2, Settles DEF Types
<1>24. ASSUME StepFinish PROVE Settled(d)'
  BY <1>24 DEF StepFinish, Listening, durable, control, history
<1>25. ASSUME ProviderError PROVE Settled(d)'
  BY <1>25 DEF ProviderError, Listening, FailStep, durable, history
<1>26. ASSUME Overflow PROVE Settled(d)'
  BY <1>26 DEF Overflow, Listening, durable, control, history
<1>27. ASSUME NEW exit \in {"success", "llm error", "defect"}, StreamEnd(exit) PROVE Settled(d)'
  BY <1>27 DEF StreamEnd, Goto, NoEvent, durable, history
<1>28. ASSUME NEW c \in Call, Tool(c) PROVE Settled(d)'
  BY <1>28 DEF Tool, OperationSucceeds, OperationFails, OperationDies, Operation, Fail, durable,
     control
<1>29. ASSUME NEW c \in Call, Bound(c) PROVE Settled(d)'
  BY <1>29 DEF Bound, durable, control, history
<1>30. ASSUME NEW c \in Call, BoundFails(c) PROVE Settled(d)'
  BY <1>30 DEF BoundFails, Fail, durable, control
<1>31. ASSUME NEW c \in Call, PublishResult(c) PROVE Settled(d)'
  <2>1. c \in tools.called /\ tools' = [tools EXCEPT !.settled = @ \cup {c}]
    BY <1>31 DEF PublishResult, Seen, Active
  <2>2. /\ tools'.settled = tools.settled \cup {c} /\ tools'.seen = tools.seen
        /\ tools'.called = tools.called
    BY <2>1, CallSettled DEF Types
  <2>3. CASE c \in tools.settled
    BY <1>31, <2>2, <2>3 DEF PublishResult, durable
  <2>4. CASE c \notin tools.settled
    <3>1. PICK status \in {"completed", "error"} : Settle(c, status)
      BY <1>31, <2>4 DEF PublishResult
    <3> QED
      BY <2>1, <2>2, <2>4, <3>1, Settles DEF Types
  <2> QED
    BY <2>3, <2>4
<1>32. ASSUME NEW c \in Call, PublishFails(c) PROVE Settled(d)'
  <2>1. /\ tools'.settled = tools.settled \cup {c} /\ tools'.seen = tools.seen
        /\ tools'.called = tools.called
    BY <1>32, CallSettled DEF PublishFails, Types
  <2> QED
    BY <1>32, <2>1 DEF PublishFails, durable
<1>33. ASSUME NEW c \in Call, FiberInterrupted(c) PROVE Settled(d)'
  BY <1>33 DEF FiberInterrupted, durable, control, history
<1>34. ASSUME Interrupt PROVE Settled(d)'
  BY <1>34 DEF Interrupt, durable, control, history
<1>35. ASSUME Crash PROVE Settled(d)'
  BY <1>35 DEF Crash, Reset, FreshPublisher, NoTools, FreshTurn, NoEvent, durable, history
<1>36. ASSUME UNCHANGED vars PROVE Settled(d)'
  BY <1>36 DEF vars, durable, control, history
<1> QED
  BY <1>1, <1>2, <1>3, <1>4, <1>5, <1>6, <1>7, <1>8, <1>9, <1>10, <1>11, <1>12, <1>13, <1>14,
     <1>15, <1>16, <1>17, <1>18, <1>19, <1>20, <1>21, <1>22, <1>23, <1>24, <1>25, <1>26, <1>27,
     <1>28, <1>29, <1>30, <1>31, <1>32, <1>33, <1>34, <1>35, <1>36 DEF Next, Runner, Provider,
     Settlement
LEMMA StepFailing ==
  ASSUME Base, SettleInv, [Next]_vars
  PROVE  Failing'
<1> USE DEF Base, SettleInv, Failing
<1>1. ASSUME DrainStart PROVE Failing'
  BY <1>1 DEF DrainStart, durable, history, Open, Unsettled
<1>2. ASSUME RecoverNext PROVE Failing'
  <2>1. ASSUME NEW c \in failing, Settle(c, "error"), failing' = failing \ {c} PROVE Failing'
    <3>1. c \in Call /\ pc' = "recover" /\ failing \subseteq Call
      BY <1>2, <2>1 DEF RecoverNext, Types
    <3> QED
      BY <1>2, <2>1, <3>1, Settles DEF RecoverNext, Types, Open
  <2> QED
    BY <1>2, <2>1 DEF RecoverNext
<1>3. ASSUME NEW lastStep \in LastStep, TurnBegin(lastStep) PROVE Failing'
  BY <1>3 DEF TurnBegin, Goto, FreshPublisher, history, Open, Unsettled
<1>4. ASSUME DrainStop PROVE Failing'
  BY <1>4 DEF DrainStop, Reset, Forget, FreshPublisher, NoTools, FreshTurn, NoEvent, durable,
     history, Open, Unsettled
<1>5. ASSUME StepStarted PROVE Failing'
  BY <1>5 DEF StepStarted, Listening, control, history, Open, Unsettled
<1>6. ASSUME InputStarted PROVE Failing'
  BY <1>6 DEF InputStarted, Goto, NoEvent, control, history, Open, Unsettled
<1>7. ASSUME Called PROVE Failing'
  BY <1>7 DEF Called, Goto, NoEvent, history, Open, Unsettled
<1>8. ASSUME Fork PROVE Failing'
  BY <1>8 DEF Fork, FailTools, Goto, NoEvent, Unsettled, durable, history, Open
<1>9. ASSUME StreamInterrupted PROVE Failing'
  BY <1>9 DEF StreamInterrupted, NoEvent, durable, history, Open, Unsettled
<1>10. ASSUME FailNext PROVE Failing'
  <2>1. PICK c \in failing : tools' = [tools EXCEPT !.settled = @ \cup {c}] /\ failing' = failing \ {c}
    BY <1>10 DEF FailNext
  <2>2. tools'.settled = tools.settled \cup {c} /\ tools'.seen = tools.seen
    BY <2>1, CallSettled DEF Types
  <2>3. pc = "fail tools" /\ pc' # "recover"
    BY <1>10 DEF FailNext, Then
  <2> QED
    BY <2>1, <2>2, <2>3 DEF Unsettled
<1>11. ASSUME StepFailed PROVE Failing'
  BY <1>11 DEF StepFailed, Goto, history, Open, Unsettled, Then
<1>12. ASSUME Recovered PROVE Failing'
  BY <1>12 DEF Recovered, Recoverable, Goto, FreshTurn, durable, history, Open, Unsettled
<1>13. ASSUME RecoveryInterrupted PROVE Failing'
  BY <1>13 DEF RecoveryInterrupted, Recoverable, Goto, durable, history, Open, Unsettled
<1>14. ASSUME StreamSettle PROVE Failing'
  BY <1>14 DEF StreamSettle, FailStep, FailTools, Goto, Unsettled, durable, history, Open
<1>15. ASSUME LlmFailure PROVE Failing'
  BY <1>15 DEF LlmFailure, FailStep, durable, history, Open, Unsettled
<1>16. ASSUME Await PROVE Failing'
  BY <1>16 DEF Await, FailTools, Goto, Unsettled, durable, history, Open
<1>17. ASSUME Cleared PROVE Failing'
  BY <1>17 DEF Cleared, FailTools, Goto, Unsettled, durable, history, Open
<1>18. ASSUME FailTurn PROVE Failing'
  BY <1>18 DEF FailTurn, FailStep, Goto, durable, history, Open, Unsettled
<1>19. ASSUME StepEnded PROVE Failing'
  BY <1>19 DEF StepEnded, Goto, history, Open, Unsettled
<1>20. ASSUME Leftovers PROVE Failing'
  BY <1>20 DEF Leftovers, FailTools, Goto, Unsettled, durable, history, Open
<1>21. ASSUME Close PROVE Failing'
  BY <1>21 DEF Close, Reset, Forget, FreshPublisher, NoTools, FreshTurn, NoEvent, durable, history,
     Open, Unsettled
<1>22. ASSUME NEW type \in {"input", "call", "hosted call"}, NEW c \in Call, ToolEvent(type, c) PROVE Failing'
  BY <1>22 DEF ToolEvent, Listening, New, Goto, durable, history, Open, Unsettled
<1>23. ASSUME NEW c \in Call, NEW status \in {"completed", "error"}, HostedResult(c, status) PROVE Failing'
  BY <1>23 DEF HostedResult, Listening, Settle, control, history, Open, Unsettled
<1>24. ASSUME StepFinish PROVE Failing'
  BY <1>24 DEF StepFinish, Listening, durable, control, history, Open, Unsettled
<1>25. ASSUME ProviderError PROVE Failing'
  BY <1>25 DEF ProviderError, Listening, FailStep, durable, history, Open, Unsettled
<1>26. ASSUME Overflow PROVE Failing'
  BY <1>26 DEF Overflow, Listening, durable, control, history, Open, Unsettled
<1>27. ASSUME NEW exit \in {"success", "llm error", "defect"}, StreamEnd(exit) PROVE Failing'
  BY <1>27 DEF StreamEnd, Goto, NoEvent, durable, history, Open, Unsettled
<1>28. ASSUME NEW c \in Call, Tool(c) PROVE Failing'
  BY <1>28 DEF Tool, OperationSucceeds, OperationFails, OperationDies, Operation, Fail, durable,
     control, Open, Unsettled
<1>29. ASSUME NEW c \in Call, Bound(c) PROVE Failing'
  BY <1>29 DEF Bound, durable, control, history, Open, Unsettled
<1>30. ASSUME NEW c \in Call, BoundFails(c) PROVE Failing'
  BY <1>30 DEF BoundFails, Fail, durable, control, Open, Unsettled
<1>31. ASSUME NEW c \in Call, PublishResult(c) PROVE Failing'
  <2>1. pc' = pc /\ pc \notin {"recover", "fail tools"}
    BY <1>31 DEF PublishResult, Locked, control, Outside, Active
  <2> QED
    BY <2>1
<1>32. ASSUME NEW c \in Call, PublishFails(c) PROVE Failing'
  BY <1>32 DEF PublishFails, Fail, Locked, durable, control, history, Open, Unsettled
<1>33. ASSUME NEW c \in Call, FiberInterrupted(c) PROVE Failing'
  BY <1>33 DEF FiberInterrupted, durable, control, history, Open, Unsettled
<1>34. ASSUME Interrupt PROVE Failing'
  BY <1>34 DEF Interrupt, durable, control, history, Open, Unsettled
<1>35. ASSUME Crash PROVE Failing'
  BY <1>35 DEF Crash, Reset, FreshPublisher, NoTools, FreshTurn, NoEvent, durable, history, Open,
     Unsettled
<1>36. ASSUME UNCHANGED vars PROVE Failing'
  BY <1>36 DEF vars, durable, control, history, Open, Unsettled
<1> QED
  BY <1>1, <1>2, <1>3, <1>4, <1>5, <1>6, <1>7, <1>8, <1>9, <1>10, <1>11, <1>12, <1>13, <1>14,
     <1>15, <1>16, <1>17, <1>18, <1>19, <1>20, <1>21, <1>22, <1>23, <1>24, <1>25, <1>26, <1>27,
     <1>28, <1>29, <1>30, <1>31, <1>32, <1>33, <1>34, <1>35, <1>36 DEF Next, Runner, Provider,
     Settlement

LEMMA InitSettle == Init /\ LastStep \subseteq {FALSE} => SettleInv
BY DEF Init, SettleInv, Stream, Streaming, Failing, Settled, Open, FreshTurn, NoTools

LEMMA SettleInvariant ==
  ASSUME LastStep \subseteq {FALSE}
  PROVE  Spec => [](Base /\ SettleInv)
<1>1. Base /\ SettleInv /\ [Next]_vars => SettleInv'
  <2> SUFFICES ASSUME Base, SettleInv, [Next]_vars PROVE SettleInv'
    OBVIOUS
  <2> QED
    BY StepStream, StepSettled, StepFailing DEF SettleInv
<1>2. Init => SettleInv
  BY InitSettle
<1> QED
  BY <1>1, <1>2, BaseInvariant, PTL DEF Spec

(* Where no turn is an agent's last, one event settles a call, whoever gets *)
(* there first: its fiber, the provider, the runner that stops waiting or   *)
(* the drain that follows a crash, even if publications fail                *)
(* (`failUnsettledTools` and `settled` in publish-llm-event.ts).            *)
THEOREM SettledOnce ==
  ASSUME LastStep \subseteq {FALSE}
  PROVE  Spec => []OneSettlementPerCall
<1>1. SettleInv => OneSettlementPerCall
  BY DEF SettleInv, Settled, OneSettlementPerCall
<1> QED
  BY <1>1, SettleInvariant, PTL

-----------------------------------------------------------------------------
\* A request has its results.

(* What is settled is not open, and only what a crash left is running and  *)
(* belongs to no turn.                                                     *)
Recorded(c) ==
  /\ c \in tools.settled => ~Open(c)
  /\ c \in tools.seen \ tools.called => part[c] # "running"
  /\ c \notin tools.seen /\ part[c] = "running" => pc = "off" \/ (pc = "recover" /\ c \in failing)

(* The wait for the tools cannot come to its end without a word on a call: *)
(* its fiber is there, has failed, or is about to start.                   *)
Accounted(c) ==
  turn.settled = "open" /\ turn.stream # "interrupt" /\ c \in (tools.called \ tools.hosted) \ tools.settled =>
    Active(c) \/ fault # "none" \/ (pc = "fork" /\ event.call = c)

AllSettled == tools.seen \subseteq tools.settled

(* What has been settled at each stage of the end of a turn.               *)
Waiting ==
  /\ pc \in {"ended", "llm failure", "await"} => turn.settled = "open"
  /\ pc = "fail step" =>
       /\ then \in {"await", "clear"} => turn.settled = "open"
       /\ then = "clear" => turn.stream = "interrupt"
  /\ pc = "fail tools" /\ then = "llm failure" => turn.settled = "open"
  /\ pc = "clear" => turn.settled \in {"declined", "interrupt"} \/ (turn.settled = "open" /\ turn.stream = "interrupt")

Ending ==
  /\ pc = "fail turn" => turn.settled = "interrupt" /\ AllSettled
  /\ pc \in {"settle step", "leftovers"} \/ (pc = "fail step" /\ then = "settle step") =>
       /\ turn.settled \in {"success", "failed", "interrupt"}
       /\ turn.settled \in {"failed", "interrupt"} => AllSettled
       /\ turn.settled = "success" /\ turn.stream = "success" => tools.called \ tools.hosted \subseteq tools.settled
  /\ pc = "fail tools" =>
       /\ then = "fail turn" => turn.settled = "interrupt" /\ Unsettled \subseteq failing
       /\ then = "settle step" => turn.settled = "failed" /\ Unsettled \subseteq failing
       /\ then = "close" =>
            /\ turn.settled # "open"
            /\ turn.settled \in {"declined", "interrupt"} => Unsettled \subseteq failing
            /\ turn.stream = "success" => tools.called \ tools.settled \subseteq failing
  /\ pc = "close" =>
       /\ turn.settled # "open"
       /\ turn.settled \in {"declined", "interrupt"} => AllSettled
       /\ turn.stream = "success" => tools.called \subseteq tools.settled

RequestInv == Waiting /\ Ending /\ \A c \in Call : Recorded(c) /\ Accounted(c)

LEMMA StepRecorded ==
  ASSUME Base, SettleInv, RequestInv, [Next]_vars, "publication" \notin Failures, NEW d \in Call
  PROVE  Recorded(d)'
<1> USE DEF Base, SettleInv, RequestInv, Recorded, Open
<1>1. ASSUME DrainStart PROVE Recorded(d)'
  BY <1>1 DEF DrainStart, durable, history, Outside, NoTools
<1>2. ASSUME RecoverNext PROVE Recorded(d)'
  <2>1. tools' = tools /\ tools.seen = {} /\ tools.settled = {} /\ tools.called = {} /\ pc = "recover"
    BY <1>2 DEF RecoverNext, Outside, NoTools
  <2>2. CASE failing = {} /\ pc' = "prepare" /\ UNCHANGED <<failing, durable>>
    BY <2>1, <2>2 DEF durable
  <2>3. ASSUME NEW c \in failing, Settle(c, "error"), failing' = failing \ {c}, pc' = pc PROVE Recorded(d)'
    <3>1. c \in Call /\ Open(c)
      BY <2>1 DEF Failing, Types
    <3> QED
      BY <2>1, <2>3, <3>1, Settles DEF Types
  <2> QED
    BY <1>2, <2>2, <2>3 DEF RecoverNext
<1>3. ASSUME NEW lastStep \in LastStep, TurnBegin(lastStep) PROVE Recorded(d)'
  BY <1>3 DEF TurnBegin, Goto, FreshPublisher, history
<1>4. ASSUME DrainStop PROVE Recorded(d)'
  BY <1>4 DEF DrainStop, Reset, Forget, FreshPublisher, NoTools, FreshTurn, NoEvent, durable,
     history
<1>5. ASSUME StepStarted PROVE Recorded(d)'
  BY <1>5 DEF StepStarted, Listening, control, history
<1>6. ASSUME InputStarted PROVE Recorded(d)'
  <2>1. /\ tools'.seen = tools.seen \cup {event.call} /\ tools'.called = tools.called
        /\ tools'.settled = tools.settled
    BY <1>6 DEF InputStarted, Types, Maps
  <2>2. /\ part' = [part EXCEPT ![event.call] = "pending"] /\ settlements' = settlements
        /\ event.call \in Call /\ part[event.call] = "none" /\ event.call \notin tools.called
    BY <1>6 DEF InputStarted, Event, Stream
  <2>3. pc = "event" /\ event.call \notin tools.settled
    BY <1>6, <2>2 DEF InputStarted, Stream, Streaming
  <2> QED
    BY <2>1, <2>2, <2>3 DEF Types, Parts
<1>7. ASSUME Called PROVE Recorded(d)'
  <2>1. /\ tools'.called = tools.called \cup {event.call} /\ tools'.seen = tools.seen
        /\ tools'.settled = tools.settled
    BY <1>7, CallMarked DEF Called, Types, Event
  <2>2. /\ part' = [part EXCEPT ![event.call] = "running"] /\ settlements' = settlements
        /\ event.call \in Call /\ event.call \in tools.seen \ tools.settled
    BY <1>7 DEF Called, Event, Stream, Streaming
  <2>3. pc = "event" /\ pc' \in {"fork", "stream"}
    BY <1>7 DEF Called, Goto
  <2> QED
    BY <2>1, <2>2, <2>3 DEF Types, Parts
<1>8. ASSUME Fork PROVE Recorded(d)'
  BY <1>8 DEF Fork, FailTools, Goto, NoEvent, Unsettled, durable, history
<1>9. ASSUME StreamInterrupted PROVE Recorded(d)'
  BY <1>9 DEF StreamInterrupted, NoEvent, durable, history, Then
<1>10. ASSUME FailNext PROVE Recorded(d)'
  <2>1. PICK c \in failing : Settle(c, "error") /\ tools' = [tools EXCEPT !.settled = @ \cup {c}]
    BY <1>10 DEF FailNext
  <2>2. c \in Call /\ c \in tools.seen \ tools.settled
    BY <1>10 DEF FailNext, Failing, Unsettled, Types
  <2>3. /\ tools'.settled = tools.settled \cup {c} /\ tools'.seen = tools.seen
        /\ tools'.called = tools.called
    BY <2>1, <2>2, CallSettled DEF Types
  <2>4. pc = "fail tools" /\ Settled(c)
    BY <1>10, <2>2 DEF FailNext
  <2> QED
    BY <2>1, <2>2, <2>3, <2>4, Settles DEF Types
<1>11. ASSUME StepFailed PROVE Recorded(d)'
  BY <1>11 DEF StepFailed, Goto, history, Then
<1>12. ASSUME Recovered PROVE Recorded(d)'
  BY <1>12 DEF Recovered, Recoverable, Goto, FreshTurn, durable, history
<1>13. ASSUME RecoveryInterrupted PROVE Recorded(d)'
  BY <1>13 DEF RecoveryInterrupted, Recoverable, Goto, durable, history
<1>14. ASSUME StreamSettle PROVE Recorded(d)'
  BY <1>14 DEF StreamSettle, FailStep, FailTools, Goto, Unsettled, durable, history
<1>15. ASSUME LlmFailure PROVE Recorded(d)'
  BY <1>15 DEF LlmFailure, FailStep, durable, history
<1>16. ASSUME Await PROVE Recorded(d)'
  BY <1>16 DEF Await, FailTools, Goto, Unsettled, durable, history
<1>17. ASSUME Cleared PROVE Recorded(d)'
  BY <1>17 DEF Cleared, FailTools, Goto, Unsettled, durable, history
<1>18. ASSUME FailTurn PROVE Recorded(d)'
  BY <1>18 DEF FailTurn, FailStep, Goto, durable, history
<1>19. ASSUME StepEnded PROVE Recorded(d)'
  BY <1>19 DEF StepEnded, Goto, history
<1>20. ASSUME Leftovers PROVE Recorded(d)'
  BY <1>20 DEF Leftovers, FailTools, Goto, Unsettled, durable, history
<1>21. ASSUME Close PROVE Recorded(d)'
  <2>1. tools' = NoTools /\ part' = part
    BY <1>21 DEF Close, Reset, durable
  <2>2. CASE pc' = "off"
    BY <2>1, <2>2 DEF NoTools
  <2>3. CASE pc' # "off"
    <3>1. pc = "close" /\ turn.stream = "success"
      BY <1>21, <2>3 DEF Close
    <3>2. part[d] # "running"
      BY <3>1 DEF Ending
    <3> QED
      BY <2>1, <3>2 DEF NoTools
  <2> QED
    BY <2>2, <2>3
<1>22. ASSUME NEW type \in {"input", "call", "hosted call"}, NEW c \in Call, ToolEvent(type, c) PROVE Recorded(d)'
  BY <1>22 DEF ToolEvent, Listening, New, Goto, durable, history
<1>23. ASSUME NEW c \in Call, NEW status \in {"completed", "error"}, HostedResult(c, status) PROVE Recorded(d)'
  <2>1. c \in tools.called \ tools.settled /\ tools' = [tools EXCEPT !.settled = @ \cup {c}]
        /\ Settle(c, status)
    BY <1>23 DEF HostedResult
  <2>2. /\ tools'.settled = tools.settled \cup {c} /\ tools'.seen = tools.seen
        /\ tools'.called = tools.called
    BY <2>1, CallSettled DEF Types
  <2>3. Settled(c) /\ pc' = pc /\ pc = "stream" /\ failing' = failing
    BY <1>23 DEF HostedResult, Listening, control
  <2> QED
    BY <2>1, <2>2, <2>3, Settles DEF Types, Settled
<1>24. ASSUME StepFinish PROVE Recorded(d)'
  BY <1>24 DEF StepFinish, Listening, durable, control, history
<1>25. ASSUME ProviderError PROVE Recorded(d)'
  BY <1>25 DEF ProviderError, Listening, FailStep, durable, history
<1>26. ASSUME Overflow PROVE Recorded(d)'
  BY <1>26 DEF Overflow, Listening, durable, control, history
<1>27. ASSUME NEW exit \in {"success", "llm error", "defect"}, StreamEnd(exit) PROVE Recorded(d)'
  BY <1>27 DEF StreamEnd, Goto, NoEvent, durable, history
<1>28. ASSUME NEW c \in Call, Tool(c) PROVE Recorded(d)'
  BY <1>28 DEF Tool, OperationSucceeds, OperationFails, OperationDies, Operation, Fail, durable,
     control
<1>29. ASSUME NEW c \in Call, Bound(c) PROVE Recorded(d)'
  BY <1>29 DEF Bound, durable, control, history
<1>30. ASSUME NEW c \in Call, BoundFails(c) PROVE Recorded(d)'
  BY <1>30 DEF BoundFails, Fail, durable, control
<1>31. ASSUME NEW c \in Call, PublishResult(c) PROVE Recorded(d)'
  <2>1. /\ c \in tools.called /\ tools' = [tools EXCEPT !.settled = @ \cup {c}] /\ Settled(c)
        /\ pc' = pc /\ pc \notin {"off", "recover"} /\ c \in tools.seen
    BY <1>31 DEF PublishResult, control, Seen, Outside, Active
  <2>2. /\ tools'.settled = tools.settled \cup {c} /\ tools'.seen = tools.seen
        /\ tools'.called = tools.called
    BY <2>1, CallSettled DEF Types
  <2>3. CASE c \in tools.settled
    BY <1>31, <2>1, <2>2, <2>3 DEF PublishResult, durable
  <2>4. CASE c \notin tools.settled
    <3>1. PICK status \in {"completed", "error"} : Settle(c, status)
      BY <1>31, <2>4 DEF PublishResult
    <3> QED
      BY <2>1, <2>2, <2>4, <3>1, Settles DEF Types, Settled
  <2> QED
    BY <2>3, <2>4
<1>32. ASSUME NEW c \in Call, PublishFails(c) PROVE Recorded(d)'
  BY <1>32 DEF PublishFails
<1>33. ASSUME NEW c \in Call, FiberInterrupted(c) PROVE Recorded(d)'
  BY <1>33 DEF FiberInterrupted, durable, control, history
<1>34. ASSUME Interrupt PROVE Recorded(d)'
  BY <1>34 DEF Interrupt, durable, control, history
<1>35. ASSUME Crash PROVE Recorded(d)'
  BY <1>35 DEF Crash, Reset, FreshPublisher, NoTools, FreshTurn, NoEvent, durable, history
<1>36. ASSUME UNCHANGED vars PROVE Recorded(d)'
  BY <1>36 DEF vars, durable, control, history
<1> QED
  BY <1>1, <1>2, <1>3, <1>4, <1>5, <1>6, <1>7, <1>8, <1>9, <1>10, <1>11, <1>12, <1>13, <1>14,
     <1>15, <1>16, <1>17, <1>18, <1>19, <1>20, <1>21, <1>22, <1>23, <1>24, <1>25, <1>26, <1>27,
     <1>28, <1>29, <1>30, <1>31, <1>32, <1>33, <1>34, <1>35, <1>36 DEF Next, Runner, Provider,
     Settlement
LEMMA StepAccounted ==
  ASSUME Base, SettleInv, RequestInv, [Next]_vars, NEW d \in Call
  PROVE  Accounted(d)'
<1> USE DEF Base, SettleInv, RequestInv, Accounted, Active
<1>1. ASSUME DrainStart PROVE Accounted(d)'
  BY <1>1 DEF DrainStart, durable, history, Types
<1>2. ASSUME RecoverNext PROVE Accounted(d)'
  BY <1>2 DEF RecoverNext, Settle, durable, history, Types
<1>3. ASSUME NEW lastStep \in LastStep, TurnBegin(lastStep) PROVE Accounted(d)'
  BY <1>3 DEF TurnBegin, Goto, FreshPublisher, history, Turns, Types, Outside
<1>4. ASSUME DrainStop PROVE Accounted(d)'
  BY <1>4 DEF DrainStop, Reset, Forget, FreshPublisher, NoTools, FreshTurn, NoEvent, durable,
     history, Turns, Fibers, Types
<1>5. ASSUME StepStarted PROVE Accounted(d)'
  BY <1>5 DEF StepStarted, Listening, control, history, Types
<1>6. ASSUME InputStarted PROVE Accounted(d)'
  <2>1. /\ tools'.seen = tools.seen \cup {event.call} /\ tools'.called = tools.called
        /\ tools'.settled = tools.settled /\ tools'.hosted = tools.hosted
    BY <1>6 DEF InputStarted, Types, Maps
  <2> QED
    BY <1>6, <2>1 DEF InputStarted
<1>7. ASSUME Called PROVE Accounted(d)'
  <2>1. /\ tools'.called = tools.called \cup {event.call} /\ tools'.settled = tools.settled
        /\ tools'.hosted = IF event.type = "hosted call" THEN tools.hosted \cup {event.call} ELSE tools.hosted
    BY <1>7, CallMarked DEF Called, Types, Event
  <2>2. /\ turn' = turn /\ fiber' = fiber /\ fault' = fault /\ pc = "event"
        /\ event.type \in {"call", "hosted call"}
        /\ event.type = "call" => pc' = "fork" /\ event' = event
    BY <1>7 DEF Called, Goto, Types, Events, Event
  <2> QED
    BY <2>1, <2>2
<1>8. ASSUME Fork PROVE Accounted(d)'
  <2>1. /\ fiber' = [fiber EXCEPT ![event.call] = "run"] /\ tools' = tools /\ fault' = fault
        /\ turn' = [turn EXCEPT !.continue = TRUE]
    BY <1>8 DEF Fork, Stream
  <2>2. turn'.stream = turn.stream /\ turn'.settled = turn.settled
    BY <2>1 DEF Types, Turns
  <2> QED
    BY <2>1, <2>2 DEF Types, Fibers
<1>9. ASSUME StreamInterrupted PROVE Accounted(d)'
  BY <1>9 DEF StreamInterrupted, NoEvent, durable, history, Turns, Types
<1>10. ASSUME FailNext PROVE Accounted(d)'
  <2>1. PICK c \in failing : tools' = [tools EXCEPT !.settled = @ \cup {c}]
    BY <1>10 DEF FailNext
  <2>2. /\ tools'.settled = tools.settled \cup {c} /\ tools'.called = tools.called
        /\ tools'.hosted = tools.hosted
    BY <2>1, CallSettled DEF Types
  <2> QED
    BY <1>10, <2>2 DEF FailNext
<1>11. ASSUME StepFailed PROVE Accounted(d)'
  BY <1>11 DEF StepFailed, Goto, history, Types
<1>12. ASSUME Recovered PROVE Accounted(d)'
  <2>1. tools' = tools /\ tools.called = {}
    BY <1>12 DEF Recovered, Recoverable, Seen
  <2> QED
    BY <2>1
<1>13. ASSUME RecoveryInterrupted PROVE Accounted(d)'
  BY <1>13 DEF RecoveryInterrupted, Recoverable, Goto, durable, history, Turns, Types
<1>14. ASSUME StreamSettle PROVE Accounted(d)'
  BY <1>14 DEF StreamSettle, FailStep, FailTools, Goto, Unsettled, durable, history, Types
<1>15. ASSUME LlmFailure PROVE Accounted(d)'
  BY <1>15 DEF LlmFailure, FailStep, durable, history, Types
<1>16. ASSUME Await PROVE Accounted(d)'
  BY <1>16 DEF Await, FailTools, Goto, Unsettled, durable, history, Turns, Types
<1>17. ASSUME Cleared PROVE Accounted(d)'
  BY <1>17 DEF Cleared, FailTools, Goto, Unsettled, durable, history, Types
<1>18. ASSUME FailTurn PROVE Accounted(d)'
  BY <1>18 DEF FailTurn, FailStep, Goto, durable, history, Types
<1>19. ASSUME StepEnded PROVE Accounted(d)'
  BY <1>19 DEF StepEnded, Goto, history, Types
<1>20. ASSUME Leftovers PROVE Accounted(d)'
  BY <1>20 DEF Leftovers, FailTools, Goto, Unsettled, durable, history, Types
<1>21. ASSUME Close PROVE Accounted(d)'
  BY <1>21 DEF Close, Reset, Forget, FreshPublisher, NoTools, FreshTurn, NoEvent, durable, history,
     Turns, Fibers, Types
<1>22. ASSUME NEW type \in {"input", "call", "hosted call"}, NEW c \in Call, ToolEvent(type, c) PROVE Accounted(d)'
  BY <1>22 DEF ToolEvent, Listening, New, Goto, durable, history, Types
<1>23. ASSUME NEW c \in Call, NEW status \in {"completed", "error"}, HostedResult(c, status) PROVE Accounted(d)'
  <2>1. /\ tools'.settled = tools.settled \cup {c} /\ tools'.called = tools.called
        /\ tools'.hosted = tools.hosted
    BY <1>23, CallSettled DEF HostedResult, Types
  <2> QED
    BY <1>23, <2>1 DEF HostedResult, control
<1>24. ASSUME StepFinish PROVE Accounted(d)'
  BY <1>24 DEF StepFinish, Listening, durable, control, history, Types
<1>25. ASSUME ProviderError PROVE Accounted(d)'
  BY <1>25 DEF ProviderError, Listening, FailStep, durable, history, Types
<1>26. ASSUME Overflow PROVE Accounted(d)'
  BY <1>26 DEF Overflow, Listening, durable, control, history, Turns, Types
<1>27. ASSUME NEW exit \in {"success", "llm error", "defect"}, StreamEnd(exit) PROVE Accounted(d)'
  <2>1. /\ tools' = tools /\ fiber' = fiber /\ fault' = fault /\ pc \in {"stream", "event"}
        /\ turn' = [turn EXCEPT !.stream = exit]
    BY <1>27 DEF StreamEnd
  <2>2. turn'.settled = turn.settled /\ turn.stream # "interrupt"
    BY <2>1 DEF Types, Turns, Stream, Streaming
  <2> QED
    BY <2>1, <2>2
<1>28. ASSUME NEW c \in Call, Tool(c) PROVE Accounted(d)'
  BY <1>28 DEF Tool, OperationSucceeds, OperationFails, OperationDies, Operation, Fail, durable,
     control, Fibers, Types
<1>29. ASSUME NEW c \in Call, Bound(c) PROVE Accounted(d)'
  BY <1>29 DEF Bound, durable, control, history, Fibers, Types
<1>30. ASSUME NEW c \in Call, BoundFails(c) PROVE Accounted(d)'
  BY <1>30 DEF BoundFails, Fail, durable, control, Fibers, Types
<1>31. ASSUME NEW c \in Call, PublishResult(c) PROVE Accounted(d)'
  <2>1. /\ tools'.settled = tools.settled \cup {c} /\ tools'.called = tools.called
        /\ tools'.hosted = tools.hosted
    BY <1>31, CallSettled DEF PublishResult, Types
  <2>2. /\ turn' = turn /\ pc' = pc /\ event' = event /\ (fault # "none" => fault' # "none")
        /\ fiber' = [fiber EXCEPT ![c] = "gone"]
    BY <1>31 DEF PublishResult, control, Fail
  <2> QED
    BY <2>1, <2>2 DEF Types, Fibers
<1>32. ASSUME NEW c \in Call, PublishFails(c) PROVE Accounted(d)'
  <2>1. turn' = turn /\ fault' # "none"
    BY <1>32 DEF PublishFails, Fail
  <2> QED
    BY <2>1
<1>33. ASSUME NEW c \in Call, FiberInterrupted(c) PROVE Accounted(d)'
  BY <1>33 DEF FiberInterrupted, durable, control, history, Fibers, Types, Waiting, Ending
<1>34. ASSUME Interrupt PROVE Accounted(d)'
  BY <1>34 DEF Interrupt, durable, control, history, Types
<1>35. ASSUME Crash PROVE Accounted(d)'
  BY <1>35 DEF Crash, Reset, FreshPublisher, NoTools, FreshTurn, NoEvent, durable, history, Turns,
     Fibers, Types
<1>36. ASSUME UNCHANGED vars PROVE Accounted(d)'
  BY <1>36 DEF vars, durable, control, history, Types
<1> QED
  BY <1>1, <1>2, <1>3, <1>4, <1>5, <1>6, <1>7, <1>8, <1>9, <1>10, <1>11, <1>12, <1>13, <1>14,
     <1>15, <1>16, <1>17, <1>18, <1>19, <1>20, <1>21, <1>22, <1>23, <1>24, <1>25, <1>26, <1>27,
     <1>28, <1>29, <1>30, <1>31, <1>32, <1>33, <1>34, <1>35, <1>36 DEF Next, Runner, Provider,
     Settlement
LEMMA StepWaiting ==
  ASSUME Base, SettleInv, RequestInv, [Next]_vars
  PROVE  Waiting'
<1> USE DEF Base, SettleInv, RequestInv, Waiting
<1>1. ASSUME DrainStart PROVE Waiting'
  BY <1>1 DEF DrainStart, durable, history, Types
<1>2. ASSUME RecoverNext PROVE Waiting'
  BY <1>2 DEF RecoverNext, Settle, durable, history, Types
<1>3. ASSUME NEW lastStep \in LastStep, TurnBegin(lastStep) PROVE Waiting'
  BY <1>3 DEF TurnBegin, Goto, FreshPublisher, history, Turns, Types
<1>4. ASSUME DrainStop PROVE Waiting'
  BY <1>4 DEF DrainStop, Reset, Forget, FreshPublisher, NoTools, FreshTurn, NoEvent, durable,
     history, Events, Maps, Turns, Types
<1>5. ASSUME StepStarted PROVE Waiting'
  BY <1>5 DEF StepStarted, Listening, control, history, Types
<1>6. ASSUME InputStarted PROVE Waiting'
  BY <1>6 DEF InputStarted, Goto, NoEvent, control, history, Events, Maps, Types
<1>7. ASSUME Called PROVE Waiting'
  BY <1>7 DEF Called, Goto, NoEvent, history, Events, Maps, Types
<1>8. ASSUME Fork PROVE Waiting'
  BY <1>8 DEF Fork, FailTools, Goto, NoEvent, Unsettled, durable, history, Events, Turns, Maps,
     Types
<1>9. ASSUME StreamInterrupted PROVE Waiting'
  BY <1>9 DEF StreamInterrupted, NoEvent, durable, history, Events, Turns, Types, Then, Stream,
     Streaming
<1>10. ASSUME FailNext PROVE Waiting'
  BY <1>10 DEF FailNext, Settle, history, Maps, Types, Then
<1>11. ASSUME StepFailed PROVE Waiting'
  BY <1>11 DEF StepFailed, Goto, history, Types, Then
<1>12. ASSUME Recovered PROVE Waiting'
  BY <1>12 DEF Recovered, Recoverable, Goto, FreshTurn, durable, history, Turns, Types
<1>13. ASSUME RecoveryInterrupted PROVE Waiting'
  BY <1>13 DEF RecoveryInterrupted, Recoverable, Goto, durable, history, Turns, Types
<1>14. ASSUME StreamSettle PROVE Waiting'
  BY <1>14 DEF StreamSettle, FailStep, FailTools, Goto, Unsettled, durable, history, Maps, Types
<1>15. ASSUME LlmFailure PROVE Waiting'
  BY <1>15 DEF LlmFailure, FailStep, durable, history, Types
<1>16. ASSUME Await PROVE Waiting'
  BY <1>16 DEF Await, FailTools, Goto, Unsettled, durable, history, Turns, Maps, Types
<1>17. ASSUME Cleared PROVE Waiting'
  BY <1>17 DEF Cleared, FailTools, Goto, Unsettled, durable, history, Maps, Types
<1>18. ASSUME FailTurn PROVE Waiting'
  BY <1>18 DEF FailTurn, FailStep, Goto, durable, history, Types
<1>19. ASSUME StepEnded PROVE Waiting'
  BY <1>19 DEF StepEnded, Goto, history, Types
<1>20. ASSUME Leftovers PROVE Waiting'
  BY <1>20 DEF Leftovers, FailTools, Goto, Unsettled, durable, history, Maps, Types
<1>21. ASSUME Close PROVE Waiting'
  BY <1>21 DEF Close, Reset, Forget, FreshPublisher, NoTools, FreshTurn, NoEvent, durable, history,
     Events, Maps, Turns, Types
<1>22. ASSUME NEW type \in {"input", "call", "hosted call"}, NEW c \in Call, ToolEvent(type, c) PROVE Waiting'
  BY <1>22 DEF ToolEvent, Listening, New, Goto, durable, history, Events, Types
<1>23. ASSUME NEW c \in Call, NEW status \in {"completed", "error"}, HostedResult(c, status) PROVE Waiting'
  BY <1>23 DEF HostedResult, Listening, Settle, control, history, Maps, Types
<1>24. ASSUME StepFinish PROVE Waiting'
  BY <1>24 DEF StepFinish, Listening, durable, control, history, Types
<1>25. ASSUME ProviderError PROVE Waiting'
  BY <1>25 DEF ProviderError, Listening, FailStep, durable, history, Types
<1>26. ASSUME Overflow PROVE Waiting'
  BY <1>26 DEF Overflow, Listening, durable, control, history, Turns, Types
<1>27. ASSUME NEW exit \in {"success", "llm error", "defect"}, StreamEnd(exit) PROVE Waiting'
  BY <1>27 DEF StreamEnd, Goto, NoEvent, durable, history, Events, Turns, Types, Stream, Streaming
<1>28. ASSUME NEW c \in Call, Tool(c) PROVE Waiting'
  BY <1>28 DEF Tool, OperationSucceeds, OperationFails, OperationDies, Operation, Fail, durable,
     control, Types
<1>29. ASSUME NEW c \in Call, Bound(c) PROVE Waiting'
  BY <1>29 DEF Bound, durable, control, history, Types
<1>30. ASSUME NEW c \in Call, BoundFails(c) PROVE Waiting'
  BY <1>30 DEF BoundFails, Fail, durable, control, Types
<1>31. ASSUME NEW c \in Call, PublishResult(c) PROVE Waiting'
  BY <1>31 DEF PublishResult, Settle, Fail, Locked, durable, control, history, Maps, Types
<1>32. ASSUME NEW c \in Call, PublishFails(c) PROVE Waiting'
  BY <1>32 DEF PublishFails, Fail, Locked, durable, control, history, Maps, Types
<1>33. ASSUME NEW c \in Call, FiberInterrupted(c) PROVE Waiting'
  BY <1>33 DEF FiberInterrupted, durable, control, history, Types
<1>34. ASSUME Interrupt PROVE Waiting'
  BY <1>34 DEF Interrupt, durable, control, history, Types
<1>35. ASSUME Crash PROVE Waiting'
  BY <1>35 DEF Crash, Reset, FreshPublisher, NoTools, FreshTurn, NoEvent, durable, history, Events,
     Maps, Turns, Types
<1>36. ASSUME UNCHANGED vars PROVE Waiting'
  BY <1>36 DEF vars, durable, control, history, Types
<1> QED
  BY <1>1, <1>2, <1>3, <1>4, <1>5, <1>6, <1>7, <1>8, <1>9, <1>10, <1>11, <1>12, <1>13, <1>14,
     <1>15, <1>16, <1>17, <1>18, <1>19, <1>20, <1>21, <1>22, <1>23, <1>24, <1>25, <1>26, <1>27,
     <1>28, <1>29, <1>30, <1>31, <1>32, <1>33, <1>34, <1>35, <1>36 DEF Next, Runner, Provider,
     Settlement
LEMMA StepEnding ==
  ASSUME Base, SettleInv, RequestInv, [Next]_vars
  PROVE  Ending'
<1> USE DEF Base, SettleInv, RequestInv, Ending, AllSettled
<1>1. ASSUME DrainStart PROVE Ending'
  BY <1>1 DEF DrainStart, durable, history, Types, Waiting, Unsettled
<1>2. ASSUME RecoverNext PROVE Ending'
  BY <1>2 DEF RecoverNext, Settle, durable, history, Types, Waiting, Unsettled
<1>3. ASSUME NEW lastStep \in LastStep, TurnBegin(lastStep) PROVE Ending'
  BY <1>3 DEF TurnBegin, Goto, FreshPublisher, history, Turns, Types, Waiting, Unsettled
<1>4. ASSUME DrainStop PROVE Ending'
  BY <1>4 DEF DrainStop, Reset, Forget, FreshPublisher, NoTools, FreshTurn, NoEvent, durable,
     history, Events, Maps, Turns, Types, Waiting, Unsettled
<1>5. ASSUME StepStarted PROVE Ending'
  BY <1>5 DEF StepStarted, Listening, control, history, Types, Waiting, Unsettled
<1>6. ASSUME InputStarted PROVE Ending'
  BY <1>6 DEF InputStarted, Goto, NoEvent, control, history, Events, Maps, Types, Waiting,
     Unsettled
<1>7. ASSUME Called PROVE Ending'
  BY <1>7 DEF Called, Goto, NoEvent, history, Events, Maps, Types, Waiting, Unsettled
<1>8. ASSUME Fork PROVE Ending'
  BY <1>8 DEF Fork, FailTools, Goto, NoEvent, Unsettled, durable, history, Events, Turns, Maps,
     Types, Waiting
<1>9. ASSUME StreamInterrupted PROVE Ending'
  BY <1>9 DEF StreamInterrupted, NoEvent, durable, history, Events, Turns, Types, Waiting,
     Unsettled
<1>10. ASSUME FailNext PROVE Ending'
  <2>1. PICK c \in failing : tools' = [tools EXCEPT !.settled = @ \cup {c}] /\ failing' = failing \ {c}
    BY <1>10 DEF FailNext
  <2>2. /\ tools'.settled = tools.settled \cup {c} /\ tools'.seen = tools.seen
        /\ tools'.called = tools.called /\ tools'.hosted = tools.hosted
    BY <2>1, CallSettled DEF Types
  <2>3. pc = "fail tools" /\ turn' = turn
    BY <1>10 DEF FailNext
  <2>4. CASE failing' = {}
    <3>1. pc' = then /\ then' = "none"
      BY <1>10, <2>4 DEF FailNext
    <3>2. failing = {c}
      BY <2>1, <2>4
    <3> QED
      BY <2>2, <2>3, <3>1, <3>2 DEF Then, Unsettled
  <2>5. CASE failing' # {}
    <3>1. pc' = pc /\ then' = then
      BY <1>10, <2>5 DEF FailNext
    <3> QED
      BY <2>1, <2>2, <2>3, <3>1 DEF Unsettled
  <2> QED
    BY <2>4, <2>5
<1>11. ASSUME StepFailed PROVE Ending'
  BY <1>11 DEF StepFailed, Goto, history, Types, Waiting, Unsettled, Then
<1>12. ASSUME Recovered PROVE Ending'
  BY <1>12 DEF Recovered, Recoverable, Goto, FreshTurn, durable, history, Turns, Types, Waiting,
     Unsettled
<1>13. ASSUME RecoveryInterrupted PROVE Ending'
  BY <1>13 DEF RecoveryInterrupted, Recoverable, Goto, durable, history, Turns, Types, Waiting,
     Unsettled, Seen
<1>14. ASSUME StreamSettle PROVE Ending'
  BY <1>14 DEF StreamSettle, FailStep, FailTools, Goto, Unsettled, durable, history, Maps, Types,
     Waiting
<1>15. ASSUME LlmFailure PROVE Ending'
  BY <1>15 DEF LlmFailure, FailStep, durable, history, Types, Waiting, Unsettled
<1>16. ASSUME Await PROVE Ending'
  <2>1. pc = "await" /\ tools' = tools /\ Unsettled' = Unsettled
    BY <1>16 DEF Await, Unsettled
  <2>2. CASE ~interrupted /\ fault = "none"
    <3>1. /\ \A c \in Call : ~Active(c)
          /\ turn' = [turn EXCEPT !.settled = "success"] /\ pc' = "settle step"
      BY <1>16, <2>2 DEF Await, Goto
    <3>2. turn'.settled = "success" /\ turn'.stream = turn.stream /\ turn.settled = "open"
      BY <2>1, <3>1 DEF Types, Turns, Waiting
    <3>3. turn.stream = "success" => tools.called \ tools.hosted \subseteq tools.settled
      BY <2>1, <2>2, <3>1, <3>2 DEF Accounted, Types, Maps
    <3> QED
      BY <2>1, <3>1, <3>2, <3>3
  <2>3. CASE ~interrupted /\ fault = "failed"
    <3>1. turn' = [turn EXCEPT !.settled = "failed"] /\ FailTools(Unsettled, "settle step")
      BY <1>16, <2>3 DEF Await
    <3>2. turn'.settled = "failed"
      BY <3>1 DEF Types, Turns
    <3> QED
      BY <2>1, <3>1, <3>2 DEF FailTools, Unsettled
  <2>4. CASE pc' = "clear"
    BY <2>4
  <2> QED
    BY <1>16, <2>2, <2>3, <2>4 DEF Await, Goto
<1>17. ASSUME Cleared PROVE Ending'
  <2>1. pc = "clear" /\ tools' = tools /\ turn' = turn /\ Unsettled' = Unsettled
    BY <1>17 DEF Cleared, Unsettled
  <2>2. CASE turn.settled = "open"
    BY <1>17, <2>1, <2>2 DEF Cleared, Goto
  <2>3. CASE turn.settled = "declined"
    BY <1>17, <2>1, <2>3 DEF Cleared, FailTools, Unsettled, Seen
  <2>4. CASE turn.settled = "interrupt"
    BY <1>17, <2>1, <2>4 DEF Cleared, FailTools, Unsettled
  <2> QED
    BY <2>1, <2>2, <2>3, <2>4 DEF Waiting
<1>18. ASSUME FailTurn PROVE Ending'
  BY <1>18 DEF FailTurn, FailStep, Goto, durable, history, Types, Waiting, Unsettled
<1>19. ASSUME StepEnded PROVE Ending'
  BY <1>19 DEF StepEnded, Goto, history, Types, Waiting, Unsettled
<1>20. ASSUME Leftovers PROVE Ending'
  <2>1. pc = "leftovers" /\ tools' = tools /\ turn' = turn /\ Unsettled' = Unsettled
    BY <1>20 DEF Leftovers, Unsettled
  <2>2. CASE publisher.providerFailed
    BY <1>20, <2>1, <2>2 DEF Leftovers, FailTools, Unsettled, Seen
  <2>3. CASE ~publisher.providerFailed /\ turn.stream = "success"
    <3>1. tools.called \ tools.settled \subseteq Unsettled \cap tools.hosted
      BY <2>1, <2>3 DEF Unsettled, Seen
    <3>2. FailTools(Unsettled \cap tools.hosted, "close")
      BY <1>20, <2>3 DEF Leftovers
    <3>3. turn.settled # "open" /\ turn.settled # "declined"
      BY <2>1
    <3>4. turn.settled = "interrupt" => Unsettled = {}
      BY <2>1 DEF Unsettled
    <3> QED
      BY <2>1, <3>1, <3>2, <3>3, <3>4 DEF FailTools, Unsettled
  <2>4. CASE ~publisher.providerFailed /\ turn.stream # "success"
    BY <1>20, <2>1, <2>4 DEF Leftovers, Goto
  <2> QED
    BY <2>2, <2>3, <2>4
<1>21. ASSUME Close PROVE Ending'
  BY <1>21 DEF Close, Reset, Forget, FreshPublisher, NoTools, FreshTurn, NoEvent, durable, history,
     Events, Maps, Turns, Types, Waiting, Unsettled
<1>22. ASSUME NEW type \in {"input", "call", "hosted call"}, NEW c \in Call, ToolEvent(type, c) PROVE Ending'
  BY <1>22 DEF ToolEvent, Listening, New, Goto, durable, history, Events, Types, Waiting, Unsettled
<1>23. ASSUME NEW c \in Call, NEW status \in {"completed", "error"}, HostedResult(c, status) PROVE Ending'
  BY <1>23 DEF HostedResult, Listening, Settle, control, history, Maps, Types, Waiting, Unsettled
<1>24. ASSUME StepFinish PROVE Ending'
  BY <1>24 DEF StepFinish, Listening, durable, control, history, Types, Waiting, Unsettled
<1>25. ASSUME ProviderError PROVE Ending'
  BY <1>25 DEF ProviderError, Listening, FailStep, durable, history, Types, Waiting, Unsettled
<1>26. ASSUME Overflow PROVE Ending'
  BY <1>26 DEF Overflow, Listening, durable, control, history, Turns, Types, Waiting, Unsettled
<1>27. ASSUME NEW exit \in {"success", "llm error", "defect"}, StreamEnd(exit) PROVE Ending'
  BY <1>27 DEF StreamEnd, Goto, NoEvent, durable, history, Events, Turns, Types, Waiting, Unsettled
<1>28. ASSUME NEW c \in Call, Tool(c) PROVE Ending'
  BY <1>28 DEF Tool, OperationSucceeds, OperationFails, OperationDies, Operation, Fail, durable,
     control, Types, Waiting, Unsettled
<1>29. ASSUME NEW c \in Call, Bound(c) PROVE Ending'
  BY <1>29 DEF Bound, durable, control, history, Types, Waiting, Unsettled
<1>30. ASSUME NEW c \in Call, BoundFails(c) PROVE Ending'
  BY <1>30 DEF BoundFails, Fail, durable, control, Types, Waiting, Unsettled
<1>31. ASSUME NEW c \in Call, PublishResult(c) PROVE Ending'
  BY <1>31 DEF PublishResult, Settle, Fail, Locked, durable, control, history, Maps, Types,
     Waiting, Unsettled
<1>32. ASSUME NEW c \in Call, PublishFails(c) PROVE Ending'
  BY <1>32 DEF PublishFails, Fail, Locked, durable, control, history, Maps, Types, Waiting,
     Unsettled
<1>33. ASSUME NEW c \in Call, FiberInterrupted(c) PROVE Ending'
  BY <1>33 DEF FiberInterrupted, durable, control, history, Types, Waiting, Unsettled
<1>34. ASSUME Interrupt PROVE Ending'
  BY <1>34 DEF Interrupt, durable, control, history, Types, Waiting, Unsettled
<1>35. ASSUME Crash PROVE Ending'
  BY <1>35 DEF Crash, Reset, FreshPublisher, NoTools, FreshTurn, NoEvent, durable, history, Events,
     Maps, Turns, Types, Waiting, Unsettled
<1>36. ASSUME UNCHANGED vars PROVE Ending'
  BY <1>36 DEF vars, durable, control, history, Types, Waiting, Unsettled
<1> QED
  BY <1>1, <1>2, <1>3, <1>4, <1>5, <1>6, <1>7, <1>8, <1>9, <1>10, <1>11, <1>12, <1>13, <1>14,
     <1>15, <1>16, <1>17, <1>18, <1>19, <1>20, <1>21, <1>22, <1>23, <1>24, <1>25, <1>26, <1>27,
     <1>28, <1>29, <1>30, <1>31, <1>32, <1>33, <1>34, <1>35, <1>36 DEF Next, Runner, Provider,
     Settlement

LEMMA InitRequest == Init => RequestInv
BY DEF Init, RequestInv, Waiting, Ending, Recorded, Accounted, Open, NoTools, FreshTurn

LEMMA RequestInvariant ==
  ASSUME LastStep \subseteq {FALSE}, "publication" \notin Failures
  PROVE  Spec => [](Base /\ SettleInv /\ RequestInv)
<1>1. Base /\ SettleInv /\ RequestInv /\ [Next]_vars => RequestInv'
  <2> SUFFICES ASSUME Base, SettleInv, RequestInv, [Next]_vars PROVE RequestInv'
    OBVIOUS
  <2> QED
    BY StepWaiting, StepEnding, StepRecorded, StepAccounted DEF RequestInv
<1>2. Init => RequestInv
  BY InitRequest
<1> QED
  BY <1>1, <1>2, SettleInvariant, PTL DEF Spec

(* Where no turn is an agent's last and no publication fails, a request has *)
(* no recorded call without its result: a turn settles its calls before the *)
(* next (the end of `runTurnAttempt`), a drain what a crash left behind     *)
(* (`failInterruptedTools`).                                               *)
THEOREM ResultsBeforeRequest ==
  ASSUME LastStep \subseteq {FALSE}, "publication" \notin Failures
  PROVE  Spec => []RequestHasResults
<1>1. Base /\ RequestInv => RequestHasResults
  <2> SUFFICES ASSUME Base, RequestInv, pc = "prepare", NEW c \in Call PROVE part[c] # "running"
    BY DEF RequestHasResults
  <2> QED
    BY DEF Base, Outside, NoTools, RequestInv, Recorded
<1> QED
  BY <1>1, RequestInvariant, PTL

(* Under the same conditions a drain that is interrupted, or that the user  *)
(* declined, leaves no call of its turn open (`failUnsettledTools` after    *)
(* `FiberSet.clear`).                                                      *)
THEOREM NothingLeftOpen ==
  ASSUME LastStep \subseteq {FALSE}, "publication" \notin Failures
  PROVE  Spec => []StopSettlesTools
<1>1. Base /\ RequestInv => StopSettlesTools
  BY DEF Base, Types, Maps, RequestInv, Ending, AllSettled, Recorded, StopSettlesTools
<1> QED
  BY <1>1, RequestInvariant, PTL

=============================================================================
