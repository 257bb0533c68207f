------------------------- MODULE PermissionRequests -------------------------
(***************************************************************************)
(* The permission requests of one Location (permission.ts).  A tool's call *)
(* evaluates the rules; when they say "ask" it registers a request and     *)
(* waits for its verdict, a deferred that takes the first value it is      *)
(* given.  A reply is a handler of its own that publishes before it        *)
(* settles, so that several replies, calls that are stopped, requests that *)
(* are just being registered and the end of the Location meet half way.    *)
(* The pending questions of question.ts are the same registry with         *)
(* neither rules nor the two loops.                                        *)
(***************************************************************************)
EXTENDS Naturals, Sequences, SequencesExt, FiniteSetsExt

CONSTANTS
  Call,        \* the tool calls that assert a permission, one request each
  Client,      \* the replies that users may send
  SessionOf,   \* [Call -> the session of its request]
  Rule,        \* [Call -> what the agent's rules say of it: "allow", "deny" or "ask"]
  Covers,      \* [Call -> the calls that the rule saved by an "always" to it allows]
  NoCall

ASSUME PermConstants == NoCall \notin Call

VARIABLES
  asks,        \* [Call -> how far its assert is]
  pending,     \* the map of requests, in the order of their insertion
  verdict,     \* [Call -> what the deferred of its request holds]
  saved,       \* the calls whose "always" was stored as a rule of the project
  replies,     \* [Client -> its reply: how far, to which request, at which entry now]
  closed       \* the finalizer of the Location's layer has run

permVars == <<asks, pending, verdict, saved, replies, closed>>

Reply == {"once", "always", "reject"}

PermInit ==
  /\ asks = [c \in Call |-> "new"]
  /\ pending = <<>>
  /\ verdict = [c \in Call |-> "open"]
  /\ saved = {}
  /\ replies = [r \in Client |-> [at |-> "idle", asked |-> NoCall, say |-> "once", on |-> NoCall,
                                  seen |-> {}, remembered |-> {}, before |-> {}]]
  /\ closed = FALSE

(* A call is in the map of requests once.                                  *)
Without(map, c) == IF c \in ToSet(map)
                   THEN RemoveAt(map, CHOOSE i \in DOMAIN map : map[i] = c)
                   ELSE map

(***************************************************************************)
(* assert: a rule that denies comes first, then one that allows, of the    *)
(* agent or saved; what no rule settles is asked.                          *)
(***************************************************************************)
Allowed(c, rules) == Rule[c] = "allow" \/ \E d \in rules : c \in Covers[d]

Evaluate(c) ==
  /\ asks[c] = "new"
  /\ ~closed
  /\ asks' = [asks EXCEPT ![c] = CASE Rule[c] = "deny" -> "blocked"
                                   [] Rule[c] # "deny" /\ Allowed(c, saved) -> "allowed"
                                   [] OTHER -> "asking"]
  /\ UNCHANGED <<pending, verdict, saved, replies, closed>>

(* create: the request is pending before the event that shows it is out.   *)
Register(c) ==
  /\ asks[c] = "asking"
  /\ asks' = [asks EXCEPT ![c] = "waiting"]
  /\ pending' = Append(pending, c)
  /\ UNCHANGED <<verdict, saved, replies, closed>>

(* The finalizer of assert's wait takes the request out, however it ends.  *)
Withdraw(c) == Without(pending, c)

Wake(c) ==
  /\ asks[c] = "waiting"
  /\ verdict[c] # "open"
  /\ asks' = [asks EXCEPT ![c] = IF verdict[c] = "granted" THEN "allowed" ELSE "refused"]
  /\ pending' = Withdraw(c)
  /\ UNCHANGED <<verdict, saved, replies, closed>>

(* A call that is stopped ends where it waits: the rest of assert is       *)
(* uninterruptible.                                                        *)
StopAsking(c) ==
  /\ asks[c] = "waiting"
  /\ asks' = [asks EXCEPT ![c] = "stopped"]
  /\ pending' = Withdraw(c)
  /\ UNCHANGED <<verdict, saved, replies, closed>>

(***************************************************************************)
(* reply: the request is looked up and the reply is published, which       *)
(* suspends; what follows acts on the entry found then.  `before` only     *)
(* tells RejectReachesSession which requests there were.                   *)
(***************************************************************************)
Lookup(r, c, say) ==
  /\ replies[r].at = "idle"
  /\ ~closed
  /\ c \in ToSet(pending)
  /\ replies' = [replies EXCEPT ![r] = [@ EXCEPT !.at = "published", !.asked = c, !.say = say,
                                                 !.on = c, !.seen = {c},
                                                 !.before = IF say = "reject" THEN ToSet(pending)
                                                            ELSE {}]]
  /\ UNCHANGED <<asks, pending, verdict, saved, closed>>

(* A deferred keeps the first value it is completed with.                  *)
Complete(c, value) == [verdict EXCEPT ![c] = IF @ = "open" THEN value ELSE @]

(* What a mutant has of Concerns: the loop passes over everything.         *)
ConcernsNothing(r, c) == FALSE

(* The loop after an "always" rechecks every request, the one after a      *)
(* rejection those of the rejected request's session.                      *)
Concerns(r, c) ==
  replies[r].say = "always" \/ SessionOf[c] = SessionOf[replies[r].asked]

(* The iterator of a map is live: it goes on to what was inserted since.   *)
Later(r, seen, left) == {i \in DOMAIN left : left[i] \notin seen /\ Concerns(r, left[i])}

Over(r) == [replies[r] EXCEPT !.at = "done", !.on = NoCall, !.seen = {}, !.remembered = {}]

GoOn(r, seen, left) ==
  IF Later(r, seen, left) = {} THEN Over(r)
  ELSE LET on == left[Min(Later(r, seen, left))]
       IN [replies[r] EXCEPT !.at = "looping", !.on = on, !.seen = seen \cup {on}]

(* A rejection settles its own request, and then one by one the others.    *)
Refuse(r) ==
  /\ replies[r].at \in {"published", "looping"}
  /\ replies[r].say = "reject"
  /\ verdict' = Complete(replies[r].on, "declined")
  /\ pending' = Without(pending, replies[r].on)
  /\ replies' = [replies EXCEPT ![r] = GoOn(r, replies[r].seen, Without(pending, replies[r].on))]
  /\ UNCHANGED <<asks, saved, closed>>

(* "always" stores the rule before the request is granted.                 *)
Remember(r) ==
  /\ replies[r].at = "published"
  /\ replies[r].say = "always"
  /\ saved' = saved \cup {replies[r].asked}
  /\ replies' = [replies EXCEPT ![r].at = "saved"]
  /\ UNCHANGED <<asks, pending, verdict, closed>>

Grant(r) ==
  /\ \/ replies[r].at = "published" /\ replies[r].say = "once"
     \/ replies[r].at = "saved"
  /\ verdict' = Complete(replies[r].on, "granted")
  /\ pending' = Without(pending, replies[r].on)
  /\ replies' = [replies EXCEPT ![r] = IF @.say = "always" THEN [@ EXCEPT !.at = "granted"] ELSE Over(r)]
  /\ UNCHANGED <<asks, saved, closed>>

(* The saved rules are read once, for all the requests that follow.        *)
ReadRules(r) ==
  /\ replies[r].at = "granted"
  /\ replies' = [replies EXCEPT ![r] = IF Later(r, {}, pending) = {} THEN Over(r)
                                   ELSE [GoOn(r, {}, pending) EXCEPT !.remembered = saved]]
  /\ UNCHANGED <<asks, pending, verdict, saved, closed>>

(* What a mutant has of Redeemed: whatever still waits is granted.         *)
RedeemAll(r) == TRUE

(* A request is granted by the remembered rules unless the agent's deny it.*)
Redeemed(r) == /\ Rule[replies[r].on] # "deny"
               /\ Allowed(replies[r].on, replies[r].remembered)

Recheck(r) ==
  /\ replies[r].at = "looping"
  /\ replies[r].say = "always"
  /\ LET on == replies[r].on
         left == IF Redeemed(r) THEN Without(pending, on) ELSE pending
     IN /\ verdict' = IF Redeemed(r) THEN Complete(on, "granted") ELSE verdict
        /\ pending' = left
        /\ replies' = [replies EXCEPT ![r] = GoOn(r, replies[r].seen, left)]
  /\ UNCHANGED <<asks, saved, closed>>

(* The Location's layer is closed: whoever waits is declined.              *)
Close ==
  /\ ~closed
  /\ closed' = TRUE
  /\ verdict' = [c \in Call |-> IF c \in ToSet(pending) /\ verdict[c] = "open"
                                THEN "declined" ELSE verdict[c]]
  /\ pending' = <<>>
  /\ UNCHANGED <<asks, saved, replies>>

(***************************************************************************)
(* Properties.                                                             *)
(***************************************************************************)

(* When a rejection is over, no call of the session that was asking when   *)
(* it was sent still waits for a verdict, whatever came, went and was      *)
(* answered while its loop was publishing.                                 *)
RejectReachesSession ==
  \A r \in Client : replies[r].at = "done" /\ replies[r].say = "reject" =>
    \A c \in replies[r].before :
      SessionOf[c] = SessionOf[replies[r].asked] => ~(asks[c] = "waiting" /\ verdict[c] = "open")

(* Who said that the call may go on: a rule of the agent, a saved rule, or *)
(* a user about this very request.                                         *)
Authorised(c) ==
  /\ Rule[c] # "deny"
  /\ \/ Allowed(c, saved)
     \/ \E r \in Client : replies[r].asked = c /\ replies[r].say # "reject"
=============================================================================
