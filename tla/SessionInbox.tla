---------------------------- MODULE SessionInbox ----------------------------
(***************************************************************************)
(* The durable prompt inbox of one session (session/input.ts and the       *)
(* projectors of PromptAdmitted, Prompted and Revert.Committed): the rows  *)
(* of session_input, the user messages of session_message and the latest   *)
(* sequence of the session's events.                                       *)
(*                                                                         *)
(* Publishing an event is one database transaction, so every operator here *)
(* is atomic.  Events whose sequence nothing compares are not numbered.    *)
(***************************************************************************)
EXTENDS Naturals

CONSTANTS
  Msg,       \* message IDs, globally unique and chosen by the client
  NoMsg

ASSUME NoMsgAssumption == NoMsg \notin Msg

VARIABLES
  seq,         \* the latest durable sequence of the session
  delivery,    \* delivery[m]: "steer" or "queue", "none" where m has no row
  admitted,    \* admitted_seq, 0 where m has no row
  promoted,    \* promoted_seq, 0 for null
  transcript,  \* the sequence of the user message m, 0 where there is none
  staged       \* the boundary of the staged revert

inbox == <<delivery, admitted, promoted>>
durable == <<seq, inbox, transcript, staged>>

Delivery == {"steer", "queue"}

Row == [id : Msg, delivery : Delivery, admitted : Nat]

InboxTypeOK ==
  /\ seq \in Nat
  /\ delivery \in [Msg -> Delivery \cup {"none"}]
  /\ admitted \in [Msg -> Nat]
  /\ promoted \in [Msg -> Nat]
  /\ transcript \in [Msg -> Nat]
  /\ staged \in Msg \cup {NoMsg}

InboxInit ==
  /\ seq = 0
  /\ delivery = [m \in Msg |-> "none"]
  /\ admitted = [m \in Msg |-> 0]
  /\ promoted = [m \in Msg |-> 0]
  /\ transcript = [m \in Msg |-> 0]
  /\ staged = NoMsg

Stored(m) == delivery[m] # "none"

Pending(m, d) == delivery[m] = d /\ promoted[m] = 0

HasPending(d) == \E m \in Msg : Pending(m, d)

RowOf(m) == [id |-> m, delivery |-> delivery[m], admitted |-> admitted[m]]

\* What `promoteSteers` selects.
PendingSteers(cutoff) == {RowOf(m) : m \in {n \in Msg : Pending(n, "steer") /\ admitted[n] <= cutoff}}

\* What `promoteNextQueued` selects: the first queued row, if there is one.
NextQueued ==
  {RowOf(m) : m \in {n \in Msg : /\ Pending(n, "queue")
                                 /\ \A o \in Msg : Pending(o, "queue") => admitted[n] <= admitted[o]}}

\* Mutant of IsFirst: the rows are selected without ORDER BY.
IsAny(r, rows) == r \in rows

\* Rows are published in admission order.
IsFirst(r, rows) == r \in rows /\ \A s \in rows : r.admitted <= s.admitted

\* `projectAdmitted` accepts an ID without a row and without a message.
Admissible(m) == ~Stored(m) /\ transcript[m] = 0

\* PromptAdmitted.
Admit(m, d) ==
  /\ Admissible(m)
  /\ seq' = seq + 1
  /\ delivery' = [delivery EXCEPT ![m] = d]
  /\ admitted' = [admitted EXCEPT ![m] = seq + 1]
  /\ UNCHANGED <<promoted, transcript, staged>>

\* The row that was selected is the row that is stored: the projector compares
\* prompt, delivery and creation time, which the admission determines.
Matches(r) == delivery[r.id] = r.delivery /\ admitted[r.id] = r.admitted

\* Prompted, when the row is still pending: it is marked promoted and its user
\* message is written in the same transaction.
Consume(r) ==
  /\ Matches(r)
  /\ promoted[r.id] = 0
  /\ seq' = seq + 1
  /\ promoted' = [promoted EXCEPT ![r.id] = seq + 1]
  /\ transcript' = [transcript EXCEPT ![r.id] = seq + 1]
  /\ UNCHANGED <<delivery, admitted, staged>>

\* Prompted, when there is no row any more: the projector takes the event for
\* one of the releases that had no inbox and inserts the row as promoted.
Reinsert(r) ==
  /\ ~Stored(r.id)
  /\ seq' = seq + 1
  /\ delivery' = [delivery EXCEPT ![r.id] = r.delivery]
  /\ admitted' = [admitted EXCEPT ![r.id] = seq + 1]
  /\ promoted' = [promoted EXCEPT ![r.id] = seq + 1]
  /\ transcript' = [transcript EXCEPT ![r.id] = seq + 1]
  /\ UNCHANGED staged

\* The row has been promoted meanwhile: the conflict is tolerated, nothing is
\* published.
AlreadyPromoted(r) ==
  /\ promoted[r.id] # 0
  /\ UNCHANGED durable

\* Mutant of Dropped: only inputs admitted after the boundary go.
DroppedByAdmission(boundary) == {m \in Msg : Stored(m) /\ admitted[m] > transcript[boundary]}

\* Revert.Committed: messages after the boundary go, and with them every input
\* admitted or promoted after it.
Dropped(boundary) ==
  {m \in Msg : Stored(m) /\ (admitted[m] > transcript[boundary] \/ promoted[m] > transcript[boundary])}

CommitRevert(boundary) ==
  /\ transcript[boundary] # 0
  /\ seq' = seq + 1
  /\ delivery' = [m \in Msg |-> IF m \in Dropped(boundary) THEN "none" ELSE delivery[m]]
  /\ admitted' = [m \in Msg |-> IF m \in Dropped(boundary) THEN 0 ELSE admitted[m]]
  /\ promoted' = [m \in Msg |-> IF m \in Dropped(boundary) THEN 0 ELSE promoted[m]]
  /\ transcript' = [m \in Msg |-> IF transcript[m] > transcript[boundary] THEN 0 ELSE transcript[m]]
  /\ staged' = NoMsg

StageRevert(m) ==
  /\ transcript[m] # 0
  /\ staged' = m
  /\ UNCHANGED <<seq, inbox, transcript>>

ClearRevert ==
  /\ staged # NoMsg
  /\ staged' = NoMsg
  /\ UNCHANGED <<seq, inbox, transcript>>
=============================================================================
