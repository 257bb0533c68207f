------------------------------ MODULE FileEdits ------------------------------
(***************************************************************************)
(* Tool calls that change files of one Location: edit, write and           *)
(* apply_patch (tool/*.ts) over the permission requests of                 *)
(* PermissionRequests and the locks of KeyedMutex, one lock per target     *)
(* (file-mutation.ts).  A call asserts its permission, reads the sources   *)
(* of its updates without any lock, and then makes its changes one after   *)
(* another, each under the lock of its file.                               *)
(*                                                                         *)
(* A file's content is the set of changes whose text it holds.  A write to *)
(* a file truncates it before the new content is there, and whoever reads  *)
(* it in between reads a torn file.                                        *)
(***************************************************************************)
EXTENDS PermissionRequests, KeyedMutex

CONSTANTS
  Changes,     \* [Call -> the changes it makes: a sequence of [kind, file]]
  Present      \* the files there are at the start

VARIABLES
  content,     \* [Key -> what the file holds]
  tool,        \* [Call -> how far the tool is]
  next,        \* [Call -> the position of the change it is at]
  sources      \* [Call -> what it read, one content per change]

fileVars == <<content, tool, next, sources>>
vars == <<permVars, mutexVars, fileVars>>

Kind == {"update", "overwrite", "add", "delete"}

Missing == "missing"
Torn == "torn"

ASSUME FileConstants ==
  /\ Fiber = Call
  /\ Changes \in [Call -> Seq([kind : Kind, file : Key])]
  /\ Present \subseteq Key

Init ==
  /\ PermInit
  /\ MutexInit
  /\ content = [k \in Key |-> [text |-> IF k \in Present THEN "whole" ELSE Missing, holds |-> {}]]
  /\ tool = [c \in Call |-> "reading"]
  /\ next = [c \in Call |-> 1]
  /\ sources = [c \in Call |-> <<>>]

Change(c) == Changes[c][next[c]]
File(c) == Change(c).file
More(c) == next[c] <= Len(Changes[c])

IsFile(k) == content[k].text # Missing

NoSource == [text |-> Missing, holds |-> {}]

(* The call is over; what it had read and where it was is gone.            *)
End(c, how) ==
  /\ tool' = [tool EXCEPT ![c] = how]
  /\ next' = [next EXCEPT ![c] = 1]
  /\ sources' = [sources EXCEPT ![c] = <<>>]

(***************************************************************************)
(* Before the first change.  The files are not read before the call is     *)
(* allowed to go on; a read that fails, or a source in which the text to   *)
(* replace is not found, fails the call.                                   *)
(***************************************************************************)
GiveUp(c) ==
  /\ tool[c] = "reading"
  /\ asks[c] \in {"refused", "blocked", "stopped"}
  /\ End(c, IF asks[c] = "stopped" THEN "stopped" ELSE "failed")
  /\ UNCHANGED <<permVars, mutexVars, content>>

Unread(c) == Len(sources[c]) < Len(Changes[c])
ToRead(c) == Changes[c][Len(sources[c]) + 1]

Reading(c) == /\ tool[c] = "reading"
              /\ asks[c] = "allowed"
              /\ Unread(c)

(* Only an update keeps what it read.                                      *)
Read(c) ==
  /\ Reading(c)
  /\ ToRead(c).kind \in {"update", "delete"} => IsFile(ToRead(c).file)
  /\ sources' = [sources EXCEPT ![c] = Append(@, IF ToRead(c).kind = "update"
                                                 THEN content[ToRead(c).file] ELSE NoSource)]
  /\ UNCHANGED <<permVars, mutexVars, content, tool, next>>

FailRead(c) ==
  /\ Reading(c)
  /\ \/ ToRead(c).kind = "update"
     \/ ToRead(c).kind = "delete" /\ ~IsFile(ToRead(c).file)
  /\ End(c, "failed")
  /\ UNCHANGED <<permVars, mutexVars, content>>

(***************************************************************************)
(* One change after another.  withTargetLock: the wait for the lock can be *)
(* interrupted, what runs under it cannot.                                 *)
(***************************************************************************)
Ready(c) == /\ tool[c] = "reading"
            /\ asks[c] = "allowed"
            /\ ~Unread(c)

Queue(c) ==
  /\ Ready(c)
  /\ More(c)
  /\ Enter(c, File(c))
  /\ tool' = [tool EXCEPT ![c] = "queueing"]
  /\ UNCHANGED <<permVars, content, next, sources>>

Lockup(c) ==
  /\ tool[c] = "queueing"
  /\ Acquire(c)
  /\ tool' = [tool EXCEPT ![c] = "locked"]
  /\ UNCHANGED <<permVars, content, next, sources>>

(* What a mutant has of Fits: the content is not compared again.           *)
FitsUnlooked(c) == IsFile(File(c))

(* The condition each operation sees when it looks at the target under the *)
(* lock: the bytes it was derived from, no file, or none at all.           *)
Fits(c) ==
  CASE Change(c).kind = "update" -> content[File(c)] = sources[c][next[c]] /\ IsFile(File(c))
    [] Change(c).kind = "add" -> ~IsFile(File(c))
    [] OTHER -> TRUE

Look(c) ==
  /\ tool[c] = "locked"
  /\ Fits(c)
  /\ tool' = [tool EXCEPT ![c] = "writing"]
  /\ UNCHANGED <<permVars, mutexVars, content, next, sources>>

Reject(c) ==
  /\ tool[c] = "locked"
  /\ ~Fits(c)
  /\ Leave(c)
  /\ End(c, "failed")
  /\ UNCHANGED <<permVars, content>>

Truncate(c) ==
  /\ tool[c] = "writing"
  /\ Change(c).kind # "delete"
  /\ content' = [content EXCEPT ![File(c)].text = Torn]
  /\ tool' = [tool EXCEPT ![c] = "truncated"]
  /\ UNCHANGED <<permVars, mutexVars, next, sources>>

Text(c) == <<c, next[c]>>

(* What the file holds afterwards: an update is derived from what was      *)
(* read, the other kinds from nothing.                                     *)
Written(c) ==
  CASE Change(c).kind = "update" -> [text |-> "whole", holds |-> sources[c][next[c]].holds \cup {Text(c)}]
    [] Change(c).kind = "delete" -> [text |-> Missing, holds |-> {}]
    [] OTHER -> [text |-> "whole", holds |-> {Text(c)}]

Write(c) ==
  /\ \/ tool[c] = "truncated"
     \/ tool[c] = "writing" /\ Change(c).kind = "delete"
  /\ content' = [content EXCEPT ![File(c)] = Written(c)]
  /\ Leave(c)
  /\ next' = [next EXCEPT ![c] = @ + 1]
  /\ tool' = [tool EXCEPT ![c] = "reading"]
  /\ UNCHANGED <<permVars, sources>>

Finish(c) ==
  /\ Ready(c)
  /\ ~More(c)
  /\ End(c, "done")
  /\ UNCHANGED <<permVars, mutexVars, content>>

(* The turn is stopped: the call ends wherever it can be interrupted.      *)
StopTool(c) ==
  /\ tool[c] \in {"reading", "queueing"}
  /\ asks[c] = "allowed"
  /\ IF tool[c] = "queueing" THEN Leave(c) ELSE UNCHANGED mutexVars
  /\ End(c, "stopped")
  /\ UNCHANGED <<permVars, content>>

(***************************************************************************)
(* The next-state relation.                                                *)
(***************************************************************************)
AssertStep(c) == Evaluate(c) \/ Register(c) \/ Wake(c)

ReplyStep(r) == Refuse(r) \/ Remember(r) \/ Grant(r) \/ ReadRules(r) \/ Recheck(r)

ToolStep(c) ==
  \/ GiveUp(c) \/ Read(c) \/ FailRead(c)
  \/ Queue(c) \/ Lockup(c) \/ Look(c) \/ Reject(c) \/ Truncate(c) \/ Write(c) \/ Finish(c)

PermStep ==
  \/ \E c \in Call : AssertStep(c) \/ StopAsking(c)
  \/ \E r \in Client : ReplyStep(r) \/ \E c \in Call, say \in Reply : Lookup(r, c, say)
  \/ Close

Next ==
  \/ PermStep /\ UNCHANGED <<mutexVars, fileVars>>
  \/ \E c \in Call : ToolStep(c) \/ StopTool(c)

(* What the fiber of a call, and the one of a reply, does on its own,      *)
(* without a user, a stop or the end of the Location.                      *)
CallStep(c) == \/ (Register(c) \/ Wake(c)) /\ UNCHANGED <<mutexVars, fileVars>>
               \/ ToolStep(c)

ReplyGoes(r) == ReplyStep(r) /\ UNCHANGED <<mutexVars, fileVars>>

Spec == Init /\ [][Next]_vars

(***************************************************************************)
(* Properties.                                                             *)
(***************************************************************************)

Ended(c) == tool[c] \in {"done", "failed", "stopped"}

(* No file is read or changed by a call nobody allowed: neither by a user  *)
(* who answered its request, nor by a rule, saved ones only as far as they *)
(* cover it, and never against a rule that denies it.                      *)
OnlyAuthorised ==
  \A c \in Call : asks[c] = "allowed" => Authorised(c)

(* An update keeps what the file held at the moment it is written: changes *)
(* of cooperating calls that were made from the same content do not        *)
(* overwrite each other, although each was computed outside the lock.      *)
UpdatesPreserve ==
  [][\A c \in Call : Write(c) /\ Change(c).kind = "update" =>
       /\ content[File(c)].holds \subseteq content'[File(c)].holds
       /\ sources[c][next[c]].text = "whole"]_vars

(* The conditions under which the next step of a call, and of a reply, is  *)
(* possible, action by action.                                             *)
Moves(c) ==
  \/ asks[c] = "asking"
  \/ asks[c] = "waiting" /\ verdict[c] # "open"
  \/ tool[c] = "reading" /\ asks[c] \in {"refused", "blocked", "stopped"}
  \/ Reading(c)
  \/ Ready(c) /\ (More(c) => entry[c] = NoLock /\ Found(File(c)) # {})
  \/ tool[c] = "queueing" /\ entry[c] # NoLock /\ holder[entry[c]] = Nobody
  \/ tool[c] \in {"locked", "writing", "truncated"} /\ entry[c] # NoLock

ReplyMoves(r) ==
  \/ replies[r].at \in {"published", "saved", "granted"}
  \/ replies[r].at = "looping" /\ replies[r].say # "once"

GuardsEnable ==
  /\ \A c \in Call : Moves(c) => ENABLED CallStep(c)
  /\ \A r \in Client : ReplyMoves(r) => ENABLED ReplyGoes(r)

(* It has ended, has not begun, or asks what nobody has answered and can   *)
(* still be answered, because it is listed.                                *)
Rests(c) ==
  \/ Ended(c)
  \/ asks[c] = "new"
  \/ asks[c] = "waiting" /\ verdict[c] = "open" /\ c \in ToSet(pending)

InTheWay(d, c) == Holds(d) /\ entry[d] = entry[c]

(* A call that neither moves nor rests queues for a lock whose holder      *)
(* moves: the queue of a lock never stands, also when those ahead were     *)
(* stopped, replies that crossed leave nobody behind, and a reply that was *)
(* sent never waits.  No step can be taken twice, so that a call that is   *)
(* answered ends whenever its fibers run.                                  *)
NothingStuck ==
  /\ GuardsEnable
  /\ \A c \in Call : Rests(c) \/ \E d \in Call : Moves(d) /\ (d = c \/ InTheWay(d, c))
  /\ \A r \in Client : replies[r].at \in {"idle", "done"} \/ ReplyMoves(r)
=============================================================================
