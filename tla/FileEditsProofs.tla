--------------------------- MODULE FileEditsProofs ---------------------------
(***************************************************************************)
(* Theorems of FileEdits, for any number of calls, replies, files and      *)
(* locks: what a permission rests on, whom a rejection reaches, and what   *)
(* becomes of updates that were computed from the same content.  The tools *)
(* take and leave locks as KeyedMutex says, so that its invariant holds    *)
(* here; what a call has read stays true of its file from the comparison   *)
(* under the lock to the write, because only the holder changes the file.  *)
(***************************************************************************)
EXTENDS FileEdits, KeyedMutexProofs, SequenceTheorems, WellFoundedInduction

-----------------------------------------------------------------------------
(* Facts about sequences and numbers.                                      *)

LEMMA WithoutFacts ==
  ASSUME NEW S, NEW s \in Seq(S), NEW e
  PROVE  /\ Without(s, e) \in Seq(S)
         /\ ToSet(Without(s, e)) \subseteq ToSet(s)
         /\ ToSet(s) \ {e} \subseteq ToSet(Without(s, e))
<1>1. CASE e \notin ToSet(s)
  BY <1>1 DEF Without
<1>2. CASE e \in ToSet(s)
  <2>1. PICK i \in DOMAIN s : s[i] = e /\ Without(s, e) = RemoveAt(s, i)
    <3>1. \E i \in DOMAIN s : s[i] = e
      BY <1>2 DEF ToSet
    <3> QED
      BY <1>2, <3>1 DEF Without
  <2> DEFINE t == RemoveAt(s, i)
  <2>2. /\ SubSeq(s, 1, i - 1) \in Seq(S) /\ Len(SubSeq(s, 1, i - 1)) = i - 1
        /\ \A j \in 1..(i - 1) : SubSeq(s, 1, i - 1)[j] = s[j]
    BY <2>1, LenProperties, SubSeqProperties
  <2>3. /\ SubSeq(s, i + 1, Len(s)) \in Seq(S) /\ Len(SubSeq(s, i + 1, Len(s))) = Len(s) - i
        /\ \A j \in 1..(Len(s) - i) : SubSeq(s, i + 1, Len(s))[j] = s[j + i]
    BY <2>1, LenProperties, SubSeqProperties
  <2>4. /\ t \in Seq(S) /\ Len(t) = Len(s) - 1
        /\ \A j \in 1..(Len(s) - 1) : t[j] = IF j < i THEN s[j] ELSE s[j + 1]
    <3> DEFINE a == SubSeq(s, 1, i - 1)
               b == SubSeq(s, i + 1, Len(s))
    <3> HIDE DEF a, b
    <3>1. /\ a \in Seq(S) /\ Len(a) = i - 1 /\ \A j \in 1..(i - 1) : a[j] = s[j]
          /\ b \in Seq(S) /\ Len(b) = Len(s) - i /\ \A j \in 1..(Len(s) - i) : b[j] = s[j + i]
          /\ t = a \o b
      BY <2>2, <2>3 DEF a, b, RemoveAt
    <3>2. /\ t \in Seq(S) /\ Len(t) = Len(a) + Len(b)
          /\ \A j \in 1..(Len(a) + Len(b)) : t[j] = IF j <= Len(a) THEN a[j] ELSE b[j - Len(a)]
      BY <3>1, ConcatProperties
    <3> HIDE DEF t
    <3>3. Len(s) \in Nat /\ i \in 1..Len(s)
      BY <2>1, LenProperties
    <3>4. ASSUME NEW j \in 1..(Len(s) - 1) PROVE t[j] = IF j < i THEN s[j] ELSE s[j + 1]
      <4>1. CASE j < i
        BY <3>1, <3>2, <3>3, <4>1
      <4>2. CASE ~(j < i)
        <5>1. j - (i - 1) \in 1..(Len(s) - i) /\ (j - (i - 1)) + i = j + 1
          BY <3>3, <4>2
        <5>2. t[j] = b[j - (i - 1)]
          <6>1. j \in 1..(Len(a) + Len(b)) /\ ~(j <= Len(a)) /\ Len(a) = i - 1
            BY <3>1, <3>3, <4>2
          <6> QED
            BY <3>2, <6>1
        <5>3. b[j - (i - 1)] = s[(j - (i - 1)) + i]
          BY <3>1, <5>1
        <5> QED
          BY <4>2, <5>1, <5>2, <5>3
      <4> QED
        BY <4>1, <4>2
    <3> QED
      BY <3>1, <3>2, <3>3, <3>4
  <2> HIDE DEF t
  <2>5. ToSet(t) \subseteq ToSet(s)
    BY <2>1, <2>4, LenProperties DEF ToSet
  <2>6. ASSUME NEW x \in ToSet(s) \ {e} PROVE x \in ToSet(t)
    <3>1. PICK j \in 1..Len(s) : s[j] = x /\ j # i
      BY <2>1, <2>6, LenProperties DEF ToSet
    <3>2. CASE j < i
      BY <3>1, <3>2, <2>1, <2>4, LenProperties DEF ToSet
    <3>3. CASE j > i
      <4>1. j - 1 \in 1..(Len(s) - 1) /\ t[j - 1] = x
        BY <3>1, <3>3, <2>1, <2>4, LenProperties
      <4> QED
        BY <4>1, <2>4, LenProperties DEF ToSet
    <3> QED
      BY <3>1, <3>2, <3>3, <2>1, LenProperties
  <2> QED
    BY <2>1, <2>4, <2>5, <2>6 DEF t
<1> QED
  BY <1>1, <1>2

LEMMA AppendFacts ==
  ASSUME NEW S, NEW s \in Seq(S), NEW e \in S
  PROVE  Append(s, e) \in Seq(S) /\ ToSet(Append(s, e)) = ToSet(s) \cup {e}
BY AppendProperties, LenProperties DEF ToSet

Less == {p \in Nat \X Nat : p[1] < p[2]}

LEMMA MinIsMember ==
  ASSUME NEW T, T \subseteq Nat, T # {}
  PROVE  Min(T) \in T
<1>1. IsWellFoundedOn(Less, Nat)
  BY NatLessThanWellFounded DEF OpToRel, Less
<1>2. PICK x \in T : \A y \in T : ~(<<y, x>> \in Less)
  BY <1>1, WFMin
<1>3. ASSUME NEW y \in T PROVE x =< y
  <2>1. y < x => <<y, x>> \in Less
    BY DEF Less
  <2> QED
    BY <2>1, <1>2
<1> QED
  BY <1>3 DEF Min

-----------------------------------------------------------------------------
(* Permissions: the inductive invariant.                                   *)

ReplyState == [at : {"idle", "published", "saved", "granted", "looping", "done"},
               asked : Call \cup {NoCall}, say : Reply, on : Call \cup {NoCall},
               seen : SUBSET Call, remembered : SUBSET Call, before : SUBSET Call]

PermTypeOK ==
  /\ asks \in [Call -> {"new", "asking", "waiting", "allowed", "refused", "blocked", "stopped"}]
  /\ pending \in Seq(Call)
  /\ verdict \in [Call -> {"open", "granted", "declined"}]
  /\ saved \in SUBSET Call
  /\ replies \in [Client -> ReplyState]
  /\ closed \in BOOLEAN

(* What a call and a request were allowed by.                              *)
GrantsAuthorised ==
  \A c \in Call : asks[c] = "allowed" \/ verdict[c] = "granted" => Authorised(c)

Registered(c) == asks[c] \notin {"new", "asking"}

(* A call the agent's rules deny never asks.                               *)
AskersUndenied ==
  \A c \in Call : /\ asks[c] \in {"asking", "waiting"} => Rule[c] # "deny"
                  /\ c \in ToSet(pending) => Rule[c] # "deny" /\ Registered(c)

(* What a reply that is under way is about.                                *)
ReplyAbout(r) ==
  /\ replies[r].at = "idle" => replies[r].asked = NoCall
  /\ replies[r].at \in {"published", "saved"} => /\ replies[r].on = replies[r].asked
                                                /\ replies[r].asked \in Call
                                                /\ Rule[replies[r].asked] # "deny"
  /\ replies[r].at \in {"saved", "granted"} => replies[r].say = "always"
  /\ replies[r].at = "looping" => replies[r].say # "once"
  /\ replies[r].remembered \subseteq saved

Unanswered(c) == asks[c] = "waiting" /\ verdict[c] = "open"

(* Who waits for an answer is listed.                                      *)
UnansweredListed == \A c \in Call : Unanswered(c) => c \in ToSet(pending)

(* A rejection has yet to come to those it must reach.                     *)
ToReach(r, c) == SessionOf[c] = SessionOf[replies[r].asked] /\ Unanswered(c)

Reaches(r) ==
  replies[r].say = "reject" => \A c \in replies[r].before :
    /\ Registered(c)
    /\ replies[r].at \in {"published", "looping"} /\ ToReach(r, c) =>
         c \notin replies[r].seen \ {replies[r].on}
    /\ replies[r].at = "done" => ~ToReach(r, c)

PermInv == /\ PermTypeOK
           /\ GrantsAuthorised
           /\ AskersUndenied
           /\ UnansweredListed
           /\ \A r \in Client : ReplyAbout(r) /\ Reaches(r)

-----------------------------------------------------------------------------

LEMMA InitPerm == PermInit => PermInv
<1> SUFFICES ASSUME PermInit PROVE PermInv
  OBVIOUS
<1>1. PermTypeOK
  BY EmptySeq DEF PermInit, PermTypeOK, ReplyState, Reply
<1>2. ToSet(pending) = {}
  BY DEF PermInit, ToSet
<1> QED
  BY <1>1, <1>2 DEF PermInit, PermInv, GrantsAuthorised, AskersUndenied, UnansweredListed,
     ReplyAbout, Reaches, Unanswered

LEMMA GoOnFacts ==
  ASSUME PermTypeOK, NEW r \in Client, NEW seen \in SUBSET Call, NEW left \in Seq(Call)
  PROVE  /\ GoOn(r, seen, left) \in ReplyState
         /\ GoOn(r, seen, left).asked = replies[r].asked
         /\ GoOn(r, seen, left).say = replies[r].say
         /\ GoOn(r, seen, left).before = replies[r].before
         /\ \/ /\ GoOn(r, seen, left).at = "done"
               /\ GoOn(r, seen, left).remembered = {}
               /\ \A c \in ToSet(left) : c \in seen \/ ~Concerns(r, c)
            \/ /\ GoOn(r, seen, left).at = "looping"
               /\ GoOn(r, seen, left).remembered = replies[r].remembered
               /\ GoOn(r, seen, left).seen = seen \cup {GoOn(r, seen, left).on}
<1> DEFINE later == Later(r, seen, left)
<1>1. replies[r] \in ReplyState
  BY DEF PermTypeOK
<1>2. CASE later = {}
  <2>1. GoOn(r, seen, left) = Over(r)
    BY <1>2 DEF GoOn
  <2>2. \A c \in ToSet(left) : c \in seen \/ ~Concerns(r, c)
    BY <1>2 DEF Later, ToSet
  <2> QED
    BY <1>1, <2>1, <2>2 DEF Over, ReplyState
<1>3. CASE later # {}
  <2>1. Min(later) \in later
    <3>1. later \subseteq Nat
      BY LenProperties DEF Later
    <3> QED
      BY <1>3, <3>1, MinIsMember
  <2> DEFINE on == left[Min(later)]
  <2>2. on \in Call
    BY <2>1, ElementOfSeq, LenProperties DEF Later
  <2>3. GoOn(r, seen, left) = [replies[r] EXCEPT !.at = "looping", !.on = on, !.seen = seen \cup {on}]
    BY <1>3 DEF GoOn
  <2> DEFINE g == GoOn(r, seen, left)
  <2> HIDE DEF on, g
  <2>4. g = [at |-> "looping", asked |-> replies[r].asked, say |-> replies[r].say, on |-> on,
             seen |-> seen \cup {on}, remembered |-> replies[r].remembered,
             before |-> replies[r].before]
    BY <1>1, <2>3 DEF ReplyState, g
  <2>5. g \in ReplyState
    BY <1>1, <2>2, <2>4 DEF ReplyState
  <2> QED
    BY <2>4, <2>5 DEF g
<1> QED
  BY <1>2, <1>3

(* A rule that was saved and a reply that was sent stay.                   *)
LEMMA AuthorityStays ==
  ASSUME NEW c \in Call, Authorised(c), saved \subseteq saved',
         \A r \in Client : replies[r].at # "idle" =>
           replies'[r].asked = replies[r].asked /\ replies'[r].say = replies[r].say,
         \A r \in Client : ReplyAbout(r)
  PROVE  Authorised(c)'
<1>1. Rule[c] # "deny"
  BY DEF Authorised
<1>2. CASE Allowed(c, saved)
  BY <1>1, <1>2 DEF Authorised, Allowed
<1>3. CASE \E r \in Client : replies[r].asked = c /\ replies[r].say # "reject"
  <2>1. PICK r \in Client : replies[r].asked = c /\ replies[r].say # "reject"
    BY <1>3
  <2>2. replies[r].at # "idle"
    BY <2>1, PermConstants DEF PermConstants, ReplyAbout
  <2> QED
    BY <1>1, <2>1, <2>2 DEF Authorised
<1> QED
  BY <1>2, <1>3 DEF Authorised

(* What happens to a reply while others act.                               *)
LEMMA ReplyStays ==
  ASSUME NEW r \in Client, ReplyAbout(r), Reaches(r),
         replies'[r] = replies[r], saved \subseteq saved',
         \A c \in replies[r].before : Registered(c) =>
           Registered(c)' /\ (Unanswered(c)' => Unanswered(c))
  PROVE  ReplyAbout(r)' /\ Reaches(r)'
<1>1. ReplyAbout(r)'
  BY DEF ReplyAbout
<1>2. \A c : ToReach(r, c)' <=> SessionOf[c] = SessionOf[replies[r].asked] /\ Unanswered(c)'
  BY DEF ToReach
<1>3. Reaches(r)'
  <2> SUFFICES ASSUME replies[r].say = "reject", NEW c \in replies[r].before
               PROVE  /\ Registered(c)'
                      /\ replies[r].at \in {"published", "looping"} /\ ToReach(r, c)' =>
                           c \notin replies[r].seen \ {replies[r].on}
                      /\ replies[r].at = "done" => ~ToReach(r, c)'
    BY DEF Reaches
  <2>1. Registered(c)' /\ (Unanswered(c)' => Unanswered(c))
    BY DEF Reaches
  <2>2. ToReach(r, c)' => ToReach(r, c)
    BY <1>2, <2>1 DEF ToReach
  <2> QED
    BY <2>1, <2>2 DEF Reaches
<1> QED
  BY <1>1, <1>3

LEMMA EvaluatePerm == ASSUME PermInv, NEW c \in Call, Evaluate(c) PROVE PermInv'
<1> USE DEF PermInv
<1>1. /\ asks[c] = "new" /\ \E s \in {"blocked", "allowed", "asking"} :
           /\ asks' = [asks EXCEPT ![c] = s]
           /\ s = "allowed" => Rule[c] # "deny" /\ Allowed(c, saved)
           /\ s = "asking" => Rule[c] # "deny"
      /\ UNCHANGED <<pending, verdict, saved, replies, closed>>
  BY DEF Evaluate
<1>2. PermTypeOK'
  BY <1>1 DEF PermTypeOK
<1>3. \A d \in Call : Authorised(d)' <=> Authorised(d)
  BY <1>1 DEF Authorised, Allowed
<1>4. Authorised(c) \/ asks'[c] # "allowed"
  BY <1>1 DEF Authorised, PermTypeOK
<1>5. \A d \in Call : d # c => asks'[d] = asks[d]
  BY <1>1 DEF PermTypeOK
<1>6. GrantsAuthorised'
  BY <1>1, <1>3, <1>4, <1>5 DEF GrantsAuthorised
<1>7. AskersUndenied'
  BY <1>1 DEF AskersUndenied, Registered, PermTypeOK
<1>8. UnansweredListed'
  BY <1>1 DEF UnansweredListed, Unanswered, PermTypeOK
<1>9. ASSUME NEW r \in Client PROVE ReplyAbout(r)' /\ Reaches(r)'
  <2>1. \A d \in replies[r].before : d \in Call
    BY DEF PermTypeOK, ReplyState
  <2>2. \A d \in Call : Registered(d) => Registered(d)' /\ (Unanswered(d)' => Unanswered(d))
    BY <1>1, <1>5 DEF Registered, Unanswered
  <2> QED
    BY <1>1, <2>1, <2>2, ReplyStays
<1> QED
  BY <1>2, <1>6, <1>7, <1>8, <1>9

LEMMA RegisterPerm == ASSUME PermInv, NEW c \in Call, Register(c) PROVE PermInv'
<1> USE DEF PermInv
<1>1. /\ asks[c] = "asking" /\ asks' = [asks EXCEPT ![c] = "waiting"]
      /\ pending' = Append(pending, c)
      /\ UNCHANGED <<verdict, saved, replies, closed>>
  BY DEF Register
<1>2. pending' \in Seq(Call) /\ ToSet(pending)' = ToSet(pending) \cup {c}
  BY <1>1, AppendFacts DEF PermTypeOK
<1>3. PermTypeOK'
  BY <1>1, <1>2 DEF PermTypeOK
<1>4. \A d \in Call : Authorised(d)' <=> Authorised(d)
  BY <1>1 DEF Authorised, Allowed
<1>5. \A d \in Call : d # c => asks'[d] = asks[d]
  BY <1>1 DEF PermTypeOK
<1>6. asks'[c] = "waiting"
  BY <1>1 DEF PermTypeOK
<1>7. GrantsAuthorised'
  BY <1>1, <1>4, <1>5, <1>6 DEF GrantsAuthorised
<1>8. AskersUndenied'
  BY <1>1, <1>2, <1>5, <1>6 DEF AskersUndenied, Registered
<1>9. UnansweredListed'
  BY <1>1, <1>2, <1>5 DEF UnansweredListed, Unanswered
<1>10. ASSUME NEW r \in Client PROVE ReplyAbout(r)' /\ Reaches(r)'
  <2>1. \A d \in replies[r].before : d \in Call
    BY DEF PermTypeOK, ReplyState
  <2>2. \A d \in Call : Registered(d) => Registered(d)' /\ (Unanswered(d)' => Unanswered(d))
    BY <1>1, <1>5 DEF Registered, Unanswered
  <2> QED
    BY <1>1, <2>1, <2>2, ReplyStays
<1> QED
  BY <1>3, <1>7, <1>8, <1>9, <1>10

(* A call that waited goes on, or is stopped.                              *)
LEMMA WakePerm ==
  ASSUME PermInv, NEW c \in Call, Wake(c) \/ StopAsking(c)
  PROVE  PermInv'
<1> USE DEF PermInv
<1>1. /\ asks[c] = "waiting" /\ \E s \in {"allowed", "refused", "stopped"} :
           /\ asks' = [asks EXCEPT ![c] = s]
           /\ s = "allowed" => verdict[c] = "granted"
      /\ pending' = Without(pending, c)
      /\ UNCHANGED <<verdict, saved, replies, closed>>
  BY DEF Wake, StopAsking, Withdraw
<1>2. /\ pending' \in Seq(Call) /\ ToSet(pending)' \subseteq ToSet(pending)
      /\ ToSet(pending) \ {c} \subseteq ToSet(pending)'
  BY <1>1, WithoutFacts DEF PermTypeOK
<1>3. PermTypeOK'
  BY <1>1, <1>2 DEF PermTypeOK
<1>4. \A d \in Call : Authorised(d)' <=> Authorised(d)
  BY <1>1 DEF Authorised, Allowed
<1>5. \A d \in Call : d # c => asks'[d] = asks[d]
  BY <1>1 DEF PermTypeOK
<1>6. asks'[c] \in {"allowed", "refused", "stopped"} /\ (asks'[c] = "allowed" => verdict[c] = "granted")
  BY <1>1 DEF PermTypeOK
<1>7. GrantsAuthorised'
  BY <1>1, <1>4, <1>5, <1>6 DEF GrantsAuthorised
<1>8. AskersUndenied'
  BY <1>1, <1>2, <1>5, <1>6 DEF AskersUndenied, Registered
<1>9. UnansweredListed'
  BY <1>1, <1>2, <1>5, <1>6 DEF UnansweredListed, Unanswered
<1>10. ASSUME NEW r \in Client PROVE ReplyAbout(r)' /\ Reaches(r)'
  <2>1. \A d \in replies[r].before : d \in Call
    BY DEF PermTypeOK, ReplyState
  <2>2. \A d \in Call : Registered(d) => Registered(d)' /\ (Unanswered(d)' => Unanswered(d))
    BY <1>1, <1>5, <1>6 DEF Registered, Unanswered
  <2> QED
    BY <1>1, <2>1, <2>2, ReplyStays
<1> QED
  BY <1>3, <1>7, <1>8, <1>9, <1>10

LEMMA LookupPerm ==
  ASSUME PermInv, NEW r \in Client, NEW c \in Call, NEW say \in Reply, Lookup(r, c, say)
  PROVE  PermInv'
<1> USE DEF PermInv
<1>1. /\ replies[r].at = "idle" /\ c \in ToSet(pending)
      /\ replies' = [replies EXCEPT ![r] = [@ EXCEPT !.at = "published", !.asked = c, !.say = say,
                                                    !.on = c, !.seen = {c},
                                                    !.before = IF say = "reject" THEN ToSet(pending)
                                                               ELSE {}]]
      /\ UNCHANGED <<asks, pending, verdict, saved, closed>>
  BY DEF Lookup
<1>2. replies[r] \in ReplyState
  BY DEF PermTypeOK
<1>3. replies'[r] = [at |-> "published", asked |-> c, say |-> say, on |-> c, seen |-> {c},
                     remembered |-> replies[r].remembered,
                     before |-> IF say = "reject" THEN ToSet(pending) ELSE {}]
  BY <1>1, <1>2 DEF PermTypeOK, ReplyState
<1>4. ToSet(pending) \subseteq Call
  BY ElementOfSeq, LenProperties DEF ToSet, PermTypeOK
<1>5. replies'[r] \in ReplyState
  BY <1>2, <1>3, <1>4 DEF ReplyState
<1>6. \A q \in Client : q # r => replies'[q] = replies[q]
  BY <1>1 DEF PermTypeOK
<1>7. PermTypeOK'
  BY <1>1, <1>5 DEF PermTypeOK
<1>8. \A d \in Call : Authorised(d) => Authorised(d)'
  <2>1. \A q \in Client : replies[q].at # "idle" =>
          replies'[q].asked = replies[q].asked /\ replies'[q].say = replies[q].say
    BY <1>1, <1>6
  <2> QED
    BY <1>1, <2>1, AuthorityStays
<1>9. GrantsAuthorised' /\ AskersUndenied' /\ UnansweredListed'
  BY <1>1, <1>8 DEF GrantsAuthorised, AskersUndenied, UnansweredListed, Unanswered, Registered
<1>10. ASSUME NEW q \in Client PROVE ReplyAbout(q)' /\ Reaches(q)'
  <2>1. CASE q = r
    <3>1. ReplyAbout(r)'
      BY <1>1, <1>3, <1>4 DEF ReplyAbout, AskersUndenied
    <3>2. Reaches(r)'
      BY <1>1, <1>3, <1>4 DEF Reaches, AskersUndenied, Registered
    <3> QED
      BY <2>1, <3>1, <3>2
  <2>2. CASE q # r
    <3>1. \A d \in Call : /\ Registered(d) => Registered(d)'
                          /\ Unanswered(d)' => Unanswered(d)
      BY <1>1 DEF Registered, Unanswered
    <3>2. replies[q].before \subseteq Call
      BY DEF PermTypeOK, ReplyState
    <3> QED
      BY <1>1, <1>6, <2>2, <3>1, <3>2, ReplyStays
  <2> QED
    BY <2>1, <2>2
<1> QED
  BY <1>7, <1>9, <1>10

(* A reply that settles its request, or the one its loop is at: whoever is *)
(* granted is authorised, and only `on` may have left the list.            *)
LEMMA SettlePerm ==
  ASSUME PermInv, NEW r \in Client, NEW on \in Call \cup {NoCall}, NEW value \in {"granted", "declined"},
         verdict' = Complete(on, value), pending' = Without(pending, on),
         value = "granted" => \A c \in Call : c = on => Authorised(c),
         replies' = [replies EXCEPT ![r] = replies'[r]], replies'[r] \in ReplyState,
         replies'[r].asked = replies[r].asked, replies'[r].say = replies[r].say,
         UNCHANGED <<asks, saved, closed>>,
         ReplyAbout(r)', Reaches(r)'
  PROVE  PermInv'
<1> USE DEF PermInv
<1>1. /\ pending' \in Seq(Call) /\ ToSet(pending)' \subseteq ToSet(pending)
      /\ ToSet(pending) \ {on} \subseteq ToSet(pending)'
  BY WithoutFacts DEF PermTypeOK
<1>2. /\ verdict' \in [Call -> {"open", "granted", "declined"}]
      /\ \A c \in Call : c # on => verdict'[c] = verdict[c]
      /\ \A c \in Call : c = on => verdict'[c] = IF verdict[c] = "open" THEN value ELSE verdict[c]
  BY DEF Complete, PermTypeOK
<1>3. \A q \in Client : q # r => replies'[q] = replies[q]
  BY DEF PermTypeOK
<1>4. PermTypeOK'
  BY <1>1, <1>2, <1>3 DEF PermTypeOK
<1>5. \A c \in Call : Authorised(c) => Authorised(c)'
  BY <1>3, AuthorityStays
<1>6. GrantsAuthorised'
  BY <1>2, <1>5 DEF GrantsAuthorised
<1>7. AskersUndenied'
  BY <1>1 DEF AskersUndenied, Registered
<1>8. \A c \in Call : Unanswered(c)' => Unanswered(c) /\ c # on
  BY <1>2 DEF Unanswered
<1>9. UnansweredListed'
  BY <1>1, <1>8 DEF UnansweredListed
<1>10. ASSUME NEW q \in Client PROVE ReplyAbout(q)' /\ Reaches(q)'
  <2>1. CASE q = r
    BY <2>1
  <2>2. CASE q # r
    <3>1. \A d \in Call : Registered(d) => Registered(d)'
      BY DEF Registered
    <3>2. replies[q].before \subseteq Call
      BY DEF PermTypeOK, ReplyState
    <3> QED
      BY <1>3, <1>8, <2>2, <3>1, <3>2, ReplyStays
  <2> QED
    BY <2>1, <2>2
<1> QED
  BY <1>4, <1>6, <1>7, <1>9, <1>10

(* A reply that goes on without settling anything.                         *)
LEMMA MovePerm ==
  ASSUME PermInv, NEW r \in Client, saved \subseteq saved', saved' \in SUBSET Call,
         replies' = [replies EXCEPT ![r] = replies'[r]], replies'[r] \in ReplyState,
         replies'[r].asked = replies[r].asked, replies'[r].say = replies[r].say,
         UNCHANGED <<asks, pending, verdict, closed>>,
         ReplyAbout(r)', Reaches(r)'
  PROVE  PermInv'
<1> USE DEF PermInv
<1>1. \A q \in Client : q # r => replies'[q] = replies[q]
  BY DEF PermTypeOK
<1>2. PermTypeOK'
  BY <1>1 DEF PermTypeOK
<1>3. \A c \in Call : Authorised(c) => Authorised(c)'
  BY <1>1, AuthorityStays
<1>4. GrantsAuthorised' /\ AskersUndenied' /\ UnansweredListed'
  BY <1>3 DEF GrantsAuthorised, AskersUndenied, UnansweredListed, Unanswered, Registered
<1>5. ASSUME NEW q \in Client PROVE ReplyAbout(q)' /\ Reaches(q)'
  <2>1. CASE q = r
    BY <2>1
  <2>2. CASE q # r
    <3>1. \A d \in Call : /\ Registered(d) => Registered(d)'
                          /\ Unanswered(d)' => Unanswered(d)
      BY DEF Registered, Unanswered
    <3>2. replies[q].before \subseteq Call
      BY DEF PermTypeOK, ReplyState
    <3> QED
      BY <1>1, <2>2, <3>1, <3>2, ReplyStays
  <2> QED
    BY <2>1, <2>2
<1> QED
  BY <1>2, <1>4, <1>5

LEMMA RefusePerm == ASSUME PermInv, NEW r \in Client, Refuse(r) PROVE PermInv'
<1> USE DEF PermInv
<1> DEFINE on == replies[r].on
           left == Without(pending, on)
           g == GoOn(r, replies[r].seen, left)
<1>1. /\ replies[r].at \in {"published", "looping"} /\ replies[r].say = "reject"
      /\ verdict' = Complete(on, "declined") /\ pending' = left
      /\ replies' = [replies EXCEPT ![r] = g]
      /\ UNCHANGED <<asks, saved, closed>>
  BY DEF Refuse
<1>2. replies[r] \in ReplyState
  BY DEF PermTypeOK
<1>3. on \in Call \cup {NoCall} /\ replies[r].seen \in SUBSET Call /\ replies[r].before \in SUBSET Call
  BY <1>2 DEF ReplyState
<1>4. /\ left \in Seq(Call) /\ ToSet(left) \subseteq ToSet(pending)
      /\ ToSet(pending) \ {on} \subseteq ToSet(left)
  BY WithoutFacts DEF PermTypeOK
<1>5. replies'[r] = g
  BY <1>1 DEF PermTypeOK
<1> HIDE DEF on, left, g
<1>6. /\ g \in ReplyState /\ g.asked = replies[r].asked /\ g.say = "reject"
      /\ g.before = replies[r].before
      /\ \/ /\ g.at = "done" /\ g.remembered = {}
            /\ \A c \in ToSet(left) : c \in replies[r].seen \/ ~Concerns(r, c)
         \/ /\ g.at = "looping" /\ g.remembered = replies[r].remembered
            /\ g.seen = replies[r].seen \cup {g.on}
  BY <1>1, <1>3, <1>4, GoOnFacts DEF g
<1>7. ReplyAbout(r)'
  BY <1>1, <1>5, <1>6 DEF ReplyAbout
<1>8. \A c \in Call : Unanswered(c)' => Unanswered(c) /\ c # on
  BY <1>1 DEF Unanswered, Complete, PermTypeOK
<1>9. Reaches(r)'
  <2> SUFFICES ASSUME NEW c \in replies[r].before
               PROVE  /\ Registered(c)'
                      /\ g.at \in {"published", "looping"} /\ ToReach(r, c)' => c \notin g.seen \ {g.on}
                      /\ g.at = "done" => ~ToReach(r, c)'
    BY <1>5, <1>6 DEF Reaches
  <2>1. c \in Call
    BY <1>3
  <2>2. Registered(c)'
    BY <1>1 DEF Reaches, Registered
  <2>3. ToReach(r, c)' => ToReach(r, c) /\ c # on
    BY <1>5, <1>6, <1>8, <2>1 DEF ToReach
  <2>4. ToReach(r, c)' => c \notin replies[r].seen
    BY <1>1, <2>3 DEF Reaches, on
  <2>5. ToReach(r, c)' => c \in ToSet(left)
    BY <1>4, <2>1, <2>3 DEF ToReach, UnansweredListed
  <2>6. ToReach(r, c)' => Concerns(r, c)
    BY <2>3 DEF ToReach, Concerns
  <2> QED
    BY <1>6, <2>2, <2>4, <2>5, <2>6
<1> QED
  BY <1>1, <1>3, <1>5, <1>6, <1>7, <1>9, SettlePerm DEF left

LEMMA RememberPerm == ASSUME PermInv, NEW r \in Client, Remember(r) PROVE PermInv'
<1> USE DEF PermInv
<1>1. /\ replies[r].at = "published" /\ replies[r].say = "always"
      /\ saved' = saved \cup {replies[r].asked}
      /\ replies' = [replies EXCEPT ![r].at = "saved"]
      /\ UNCHANGED <<asks, pending, verdict, closed>>
  BY DEF Remember
<1>2. replies[r] \in ReplyState
  BY DEF PermTypeOK
<1>3. /\ replies'[r] \in ReplyState /\ replies'[r] = [replies[r] EXCEPT !.at = "saved"]
      /\ replies'[r].at = "saved" /\ replies'[r].say = "always" /\ replies'[r].asked = replies[r].asked
      /\ replies'[r].on = replies[r].on /\ replies'[r].remembered = replies[r].remembered
  BY <1>1, <1>2 DEF PermTypeOK, ReplyState
<1>4. replies[r].asked \in Call
  BY <1>1 DEF ReplyAbout
<1>5. saved \subseteq saved' /\ saved' \in SUBSET Call
  BY <1>1, <1>4 DEF PermTypeOK
<1>6. ReplyAbout(r)' /\ Reaches(r)'
  BY <1>1, <1>3, <1>5 DEF ReplyAbout, Reaches
<1>7. replies' = [replies EXCEPT ![r] = replies'[r]]
  BY <1>1, <1>3 DEF PermTypeOK
<1> QED
  BY <1>1, <1>3, <1>5, <1>6, <1>7, MovePerm

LEMMA GrantPerm == ASSUME PermInv, NEW r \in Client, Grant(r) PROVE PermInv'
<1> USE DEF PermInv
<1> DEFINE on == replies[r].on
<1>1. /\ \/ replies[r].at = "published" /\ replies[r].say = "once"
         \/ replies[r].at = "saved"
      /\ verdict' = Complete(on, "granted") /\ pending' = Without(pending, on)
      /\ replies' = [replies EXCEPT ![r] = IF @.say = "always" THEN [@ EXCEPT !.at = "granted"] ELSE Over(r)]
      /\ UNCHANGED <<asks, saved, closed>>
  BY DEF Grant
<1>2. replies[r] \in ReplyState
  BY DEF PermTypeOK
<1>3. /\ replies'[r] \in ReplyState /\ replies'[r].at \in {"granted", "done"}
      /\ replies'[r].at = "granted" => replies[r].say = "always"
      /\ replies'[r].say = replies[r].say /\ replies'[r].asked = replies[r].asked
      /\ replies'[r].remembered \subseteq replies[r].remembered
  BY <1>1, <1>2 DEF PermTypeOK, ReplyState, Over
<1>4. replies[r].say # "reject" /\ on = replies[r].asked /\ on \in Call /\ Rule[on] # "deny"
  BY <1>1 DEF ReplyAbout
<1>5. Authorised(on)
  BY <1>4 DEF Authorised
<1>6. ReplyAbout(r)' /\ Reaches(r)'
  BY <1>1, <1>3, <1>4 DEF ReplyAbout, Reaches
<1>7. replies' = [replies EXCEPT ![r] = replies'[r]]
  BY <1>1, <1>3 DEF PermTypeOK
<1> QED
  BY <1>1, <1>3, <1>4, <1>5, <1>6, <1>7, SettlePerm

LEMMA ReadRulesPerm == ASSUME PermInv, NEW r \in Client, ReadRules(r) PROVE PermInv'
<1> USE DEF PermInv
<1> DEFINE g == GoOn(r, {}, pending)
<1>1. /\ replies[r].at = "granted"
      /\ replies' = [replies EXCEPT ![r] = IF Later(r, {}, pending) = {} THEN Over(r)
                                         ELSE [g EXCEPT !.remembered = saved]]
      /\ UNCHANGED <<asks, pending, verdict, saved, closed>>
  BY DEF ReadRules
<1>2. replies[r] \in ReplyState
  BY DEF PermTypeOK
<1>3. g \in ReplyState /\ g.asked = replies[r].asked /\ g.say = replies[r].say /\ g.at \in {"done", "looping"}
  <2>1. pending \in Seq(Call) /\ {} \in SUBSET Call
    BY DEF PermTypeOK
  <2> QED
    BY <2>1, GoOnFacts
<1> HIDE DEF g
<1>4. /\ replies'[r] \in ReplyState /\ replies'[r].at \in {"done", "looping"}
      /\ replies'[r].say = replies[r].say /\ replies'[r].asked = replies[r].asked
      /\ replies'[r].remembered \subseteq saved
  BY <1>1, <1>2, <1>3 DEF PermTypeOK, ReplyState, Over
<1>5. ReplyAbout(r)' /\ Reaches(r)'
  BY <1>1, <1>4 DEF ReplyAbout, Reaches
<1>6. replies' = [replies EXCEPT ![r] = replies'[r]]
  BY <1>1 DEF PermTypeOK
<1>7. saved \subseteq saved' /\ saved' \in SUBSET Call
  BY <1>1 DEF PermTypeOK
<1> QED
  BY <1>1, <1>4, <1>5, <1>6, <1>7, MovePerm

LEMMA RecheckPerm == ASSUME PermInv, NEW r \in Client, Recheck(r) PROVE PermInv'
<1> USE DEF PermInv
<1> DEFINE on == replies[r].on
           left == IF Redeemed(r) THEN Without(pending, on) ELSE pending
           g == GoOn(r, replies[r].seen, left)
<1>1. /\ replies[r].at = "looping" /\ replies[r].say = "always"
      /\ verdict' = IF Redeemed(r) THEN Complete(on, "granted") ELSE verdict
      /\ pending' = left
      /\ replies' = [replies EXCEPT ![r] = g]
      /\ UNCHANGED <<asks, saved, closed>>
  BY DEF Recheck
<1>2. replies[r] \in ReplyState
  BY DEF PermTypeOK
<1>3. on \in Call \cup {NoCall} /\ replies[r].seen \in SUBSET Call
  BY <1>2 DEF ReplyState
<1>4. left \in Seq(Call)
  BY WithoutFacts DEF PermTypeOK
<1>5. replies'[r] = g
  BY <1>1 DEF PermTypeOK
<1> HIDE DEF on, left, g
<1>6. /\ g \in ReplyState /\ g.asked = replies[r].asked /\ g.say = "always"
      /\ g.at \in {"done", "looping"} /\ g.remembered \subseteq replies[r].remembered
  BY <1>1, <1>3, <1>4, GoOnFacts DEF g
<1>7. ReplyAbout(r)' /\ Reaches(r)'
  BY <1>1, <1>5, <1>6 DEF ReplyAbout, Reaches
<1>8. replies' = [replies EXCEPT ![r] = replies'[r]]
  BY <1>1, <1>5
<1>9. CASE Redeemed(r)
  <2>1. \A c \in Call : c = on => Authorised(c)
    BY <1>9 DEF Redeemed, Authorised, Allowed, ReplyAbout, on
  <2> QED
    BY <1>1, <1>3, <1>5, <1>6, <1>7, <1>8, <1>9, <2>1, SettlePerm DEF left
<1>10. CASE ~Redeemed(r)
  <2>1. saved \subseteq saved' /\ saved' \in SUBSET Call
    BY <1>1 DEF PermTypeOK
  <2> QED
    BY <1>1, <1>5, <1>6, <1>7, <1>8, <1>10, <2>1, MovePerm DEF left
<1> QED
  BY <1>9, <1>10

LEMMA ClosePerm == ASSUME PermInv, Close PROVE PermInv'
<1> USE DEF PermInv
<1>1. /\ closed' = TRUE /\ pending' = <<>>
      /\ verdict' = [c \in Call |-> IF c \in ToSet(pending) /\ verdict[c] = "open"
                                   THEN "declined" ELSE verdict[c]]
      /\ UNCHANGED <<asks, saved, replies>>
  BY DEF Close
<1>2. PermTypeOK'
  BY <1>1, EmptySeq DEF PermTypeOK
<1>3. ToSet(pending)' = {}
  BY <1>1 DEF ToSet
<1>4. \A c \in Call : Authorised(c)' <=> Authorised(c)
  BY <1>1 DEF Authorised, Allowed
<1>5. GrantsAuthorised' /\ AskersUndenied'
  BY <1>1, <1>3, <1>4 DEF GrantsAuthorised, AskersUndenied, Registered
<1>6. \A c \in Call : ~Unanswered(c)'
  BY <1>1 DEF Unanswered, UnansweredListed
<1>7. ASSUME NEW r \in Client PROVE ReplyAbout(r)' /\ Reaches(r)'
  <2>1. replies[r].before \subseteq Call
    BY DEF PermTypeOK, ReplyState
  <2>2. \A c \in Call : Registered(c) => Registered(c)'
    BY <1>1 DEF Registered
  <2> QED
    BY <1>1, <1>6, <2>1, <2>2, ReplyStays
<1> QED
  BY <1>2, <1>5, <1>6, <1>7 DEF UnansweredListed

LEMMA StepPerm == PermInv /\ [PermStep]_permVars => PermInv'
<1> SUFFICES ASSUME PermInv, [PermStep]_permVars PROVE PermInv'
  OBVIOUS
<1>1. ASSUME NEW c \in Call, AssertStep(c) \/ StopAsking(c) PROVE PermInv'
  BY <1>1, EvaluatePerm, RegisterPerm, WakePerm DEF AssertStep
<1>2. ASSUME NEW r \in Client, ReplyStep(r) PROVE PermInv'
  BY <1>2, RefusePerm, RememberPerm, GrantPerm, ReadRulesPerm, RecheckPerm DEF ReplyStep
<1>3. ASSUME NEW r \in Client, NEW c \in Call, NEW say \in Reply, Lookup(r, c, say) PROVE PermInv'
  BY <1>3, LookupPerm
<1>4. ASSUME Close PROVE PermInv'
  BY <1>4, ClosePerm
<1>5. CASE UNCHANGED permVars
  <2> USE <1>5 DEF permVars, PermInv
  <2>1. PermTypeOK'
    BY DEF PermTypeOK
  <2>2. GrantsAuthorised' /\ AskersUndenied' /\ UnansweredListed'
    BY DEF GrantsAuthorised, AskersUndenied, UnansweredListed, Authorised, Allowed, Registered, Unanswered
  <2>3. \A r \in Client : ReplyAbout(r)' /\ Reaches(r)'
    BY DEF ReplyAbout, Reaches, ToReach, Registered, Unanswered
  <2> QED
    BY <2>1, <2>2, <2>3
<1> QED
  BY <1>1, <1>2, <1>3, <1>4, <1>5 DEF PermStep

(* A step of a tool leaves the permissions alone.                          *)
LEMMA NextPerm == [Next]_vars => [PermStep]_permVars
BY DEF Next, ToolStep, vars, GiveUp, Read, FailRead, Queue, Lockup, Look, Reject, Truncate, Write,
       Finish, StopTool

LEMMA PermInvariant == Spec => []PermInv
<1>1. Init => PermInv
  BY InitPerm DEF Init
<1>2. PermInv /\ [Next]_vars => PermInv'
  BY StepPerm, NextPerm
<1> QED
  BY <1>1, <1>2, PTL DEF Spec

(* A call goes on only when a rule or a user allowed it (permission.ts,    *)
(* assert and reply), for any number of calls, requests and replies.       *)
THEOREM Authorisation == Spec => []OnlyAuthorised
<1>1. PermInv => OnlyAuthorised
  BY DEF PermInv, GrantsAuthorised, OnlyAuthorised
<1> QED
  BY <1>1, PermInvariant, PTL

(* When a rejection is over it has reached every request of the session    *)
(* that there was when it was sent (permission.ts, the loop of reply),     *)
(* whatever the other replies, stops and new requests did to the map.      *)
THEOREM RejectionReaches == Spec => []RejectReachesSession
<1>1. PermInv => RejectReachesSession
  BY DEF PermInv, Reaches, ToReach, Unanswered, RejectReachesSession
<1> QED
  BY <1>1, PermInvariant, PTL

-----------------------------------------------------------------------------
(* Files: the inductive invariant.                                         *)

Content == [text : {"whole", Missing, Torn}, holds : SUBSET (Call \X Nat)]

FileTypeOK ==
  /\ content \in [Key -> Content]
  /\ tool \in [Call -> {"reading", "queueing", "locked", "writing", "truncated",
                       "done", "failed", "stopped"}]
  /\ next \in [Call -> Nat \ {0}]
  /\ sources \in [Call -> Seq(Content)]

UnderLock(c) == tool[c] \in {"locked", "writing", "truncated"}

(* A call queues for, and holds, the lock of the file it is about to       *)
(* change, and has read what it needs; it is in no other's way.            *)
Placed(c) ==
  /\ tool[c] = "queueing" \/ UnderLock(c) => /\ More(c) /\ ~Unread(c)
                                           /\ entry[c] # NoLock /\ wants[c] = File(c)
  /\ entry[c] # NoLock => tool[c] = "queueing" \/ UnderLock(c)
  /\ UnderLock(c) <=> Holds(c)

(* A file is torn only under its lock.                                     *)
TornUnderLock == \A k \in Key : content[k].text = Torn =>
                   \E c \in Call : tool[c] = "truncated" /\ File(c) = k

(* What an update was derived from is what the file holds.                 *)
Derived(c) ==
  tool[c] \in {"writing", "truncated"} /\ Change(c).kind = "update" =>
    /\ sources[c][next[c]].text = "whole"
    /\ sources[c][next[c]].holds = content[File(c)].holds

FileInv == /\ MutexInv
           /\ FileTypeOK
           /\ TornUnderLock
           /\ \A c \in Call : Placed(c) /\ Derived(c)

-----------------------------------------------------------------------------

LEMMA ChangeType ==
  ASSUME FileTypeOK, NEW c \in Call, More(c)
  PROVE  /\ next[c] \in DOMAIN Changes[c]
         /\ Change(c).kind \in Kind /\ File(c) \in Key
<1>1. Changes[c] \in Seq([kind : Kind, file : Key]) /\ next[c] \in Nat \ {0}
  BY FileConstants DEF FileConstants, FileTypeOK
<1>2. next[c] \in 1..Len(Changes[c])
  BY <1>1, LenProperties DEF More
<1>3. Changes[c][next[c]] \in [kind : Kind, file : Key]
  BY <1>1, <1>2, ElementOfSeq
<1> QED
  BY <1>1, <1>2, <1>3, LenProperties DEF Change, File

(* What the steps of others leave a call that has its lock.                *)
LEMMA LockKept ==
  ASSUME MutexTypeOK, NEW c \in Call, NEW d \in Call, c # d,
         \/ \E k \in Key : Enter(d, k)
         \/ Acquire(d) \/ Leave(d) \/ UNCHANGED mutexVars
  PROVE  /\ entry'[c] = entry[c] /\ wants'[c] = wants[c]
         /\ Holds(c) <=> Holds(c)'
<1> USE FileConstants, MutexConstants DEF FileConstants, MutexConstants, MutexTypeOK
<1>1. CASE \E k \in Key : Enter(d, k)
  BY <1>1 DEF Enter, Holds
<1>2. CASE Acquire(d)
  BY <1>2 DEF Acquire, Holds
<1>3. CASE Leave(d)
  BY <1>3 DEF Leave, Released, Holds
<1>4. CASE UNCHANGED mutexVars
  BY <1>4 DEF mutexVars, Holds
<1> QED
  BY <1>1, <1>2, <1>3, <1>4

(* Two calls under the lock of one file are one.                           *)
LEMMA Exclusive ==
  ASSUME FileInv, NEW c \in Call, NEW d \in Call, UnderLock(c), UnderLock(d), File(c) = File(d)
  PROVE  c = d
<1>1. Holds(c) /\ Holds(d) /\ wants[c] = wants[d]
  BY DEF FileInv, Placed
<1> QED
  BY <1>1, InvExcludes, FileConstants DEF FileInv, MutualExclusion, FileConstants

LEMMA InitFile == Init => FileInv
<1> SUFFICES ASSUME Init PROVE FileInv
  OBVIOUS
<1>1. MutexInv
  BY InitMutexInv DEF Init
<1>2. FileTypeOK
  BY EmptySeq DEF Init, FileTypeOK, Content, Missing
<1>3. TornUnderLock
  BY DEF Init, TornUnderLock, Missing, Torn
<1> QED
  BY <1>1, <1>2, <1>3, FileConstants
     DEF Init, MutexInit, FileInv, Placed, Derived, UnderLock, Holds, FileConstants

(* The step of one call, seen by the others: they stay as they are, the    *)
(* step is one of the mutex, and only who has a file's lock changes it.    *)
OthersStay(d) ==
  \A c \in Call \ {d} : tool'[c] = tool[c] /\ next'[c] = next[c] /\ sources'[c] = sources[c]

MutexStep(d) == (\E k \in Key : Enter(d, k)) \/ Acquire(d) \/ Leave(d) \/ UNCHANGED mutexVars

OnlyOwn(d) ==
  \/ content' = content
  \/ UnderLock(d) /\ \A k \in Key : k # File(d) => content'[k] = content[k]

LEMMA OthersKeep ==
  ASSUME FileInv, NEW d \in Call, OthersStay(d), MutexStep(d), OnlyOwn(d), NEW c \in Call, c # d
  PROVE  Placed(c)' /\ Derived(c)'
<1> USE DEF FileInv
<1>1. tool'[c] = tool[c] /\ next'[c] = next[c] /\ sources'[c] = sources[c]
  BY DEF OthersStay
<1>2. /\ entry'[c] = entry[c] /\ wants'[c] = wants[c]
      /\ Holds(c) <=> Holds(c)'
  BY LockKept DEF MutexStep, MutexInv
<1>3. Placed(c)'
  BY <1>1, <1>2 DEF Placed, UnderLock, More, Unread, File, Change
<1>4. ASSUME UnderLock(c) PROVE content'[File(c)] = content[File(c)]
  <2>1. File(c) \in Key
    BY <1>4, ChangeType DEF Placed
  <2>2. UnderLock(d) => File(c) # File(d)
    BY <1>4, Exclusive
  <2> QED
    BY <2>1, <2>2 DEF OnlyOwn
<1>5. Derived(c)'
  BY <1>1, <1>4 DEF Derived, UnderLock, File, Change
<1> QED
  BY <1>3, <1>5

LEMMA StepOf ==
  ASSUME FileInv, NEW d \in Call, OthersStay(d), MutexStep(d), OnlyOwn(d),
         FileTypeOK', TornUnderLock', Placed(d)', Derived(d)'
  PROVE  FileInv'
<1>1. [MutexNext]_mutexVars
  BY FileConstants DEF MutexStep, MutexNext, FileConstants
<1>2. MutexInv'
  BY <1>1, NextMutexInv DEF FileInv
<1>3. \A c \in Call : Placed(c)' /\ Derived(c)'
  BY OthersKeep
<1> QED
  BY <1>2, <1>3 DEF FileInv

LEMMA TornKept ==
  ASSUME TornUnderLock, NEW d \in Call, OthersStay(d), content' = content, tool[d] # "truncated"
  PROVE  TornUnderLock'
BY DEF TornUnderLock, OthersStay, File, Change

(* A call that ends or goes on reading holds no lock afterwards.           *)
LEMMA EndFile ==
  ASSUME FileInv, NEW d \in Call, NEW how \in {"done", "failed", "stopped"}, End(d, how),
         MutexStep(d), entry'[d] = NoLock, content' = content, tool[d] # "truncated"
  PROVE  FileInv'
<1>1. FileTypeOK'
  BY EmptySeq DEF FileInv, FileTypeOK, End
<1>2. OthersStay(d) /\ tool'[d] = how
  BY DEF FileInv, FileTypeOK, End, OthersStay
<1>3. Placed(d)' /\ Derived(d)'
  BY <1>2 DEF Placed, Derived, UnderLock, Holds
<1>4. TornUnderLock'
  BY <1>2, TornKept DEF FileInv
<1> QED
  BY <1>1, <1>2, <1>3, <1>4, StepOf DEF OnlyOwn

(* A call that reads has no lock.                                          *)
LEMMA ReaderUnlocked ==
  ASSUME FileInv, NEW d \in Call, tool[d] = "reading"
  PROVE  entry[d] = NoLock
BY DEF FileInv, Placed, UnderLock

(* Who leaves has no lock any more.                                        *)
LEMMA LeaverUnlocked ==
  ASSUME MutexInv, NEW d \in Call, Leave(d)
  PROVE  entry'[d] = NoLock
BY FileConstants DEF MutexInv, MutexTypeOK, Leave, FileConstants

LEMMA ReadFile == ASSUME FileInv, NEW d \in Call, Read(d) PROVE FileInv'
<1> USE DEF FileInv
<1> DEFINE x == IF ToRead(d).kind = "update" THEN content[ToRead(d).file] ELSE NoSource
<1>1. /\ tool[d] = "reading" /\ Unread(d)
      /\ sources' = [sources EXCEPT ![d] = Append(@, x)]
      /\ UNCHANGED <<mutexVars, content, tool, next>>
  BY DEF Read, Reading
<1>2. x \in Content
  <2>1. Changes[d] \in Seq([kind : Kind, file : Key]) /\ sources[d] \in Seq(Content)
    BY FileConstants DEF FileConstants, FileTypeOK
  <2>2. Len(sources[d]) + 1 \in 1..Len(Changes[d])
    BY <1>1, <2>1, LenProperties DEF Unread
  <2>3. ToRead(d).file \in Key
    <3>1. Changes[d][Len(sources[d]) + 1] \in [kind : Kind, file : Key]
      BY <2>1, <2>2, ElementOfSeq
    <3> QED
      BY <3>1 DEF ToRead
  <2> QED
    BY <2>3 DEF FileTypeOK, Content, NoSource, Missing
<1> HIDE DEF x
<1>3. FileTypeOK'
  <2>1. Append(sources[d], x) \in Seq(Content)
    BY <1>2, AppendProperties DEF FileTypeOK
  <2> QED
    BY <1>1, <2>1 DEF FileTypeOK
<1>4. OthersStay(d) /\ tool'[d] = "reading"
  BY <1>1 DEF FileTypeOK, OthersStay
<1>5. entry'[d] = NoLock
  BY <1>1, ReaderUnlocked DEF mutexVars
<1>6. Placed(d)' /\ Derived(d)'
  BY <1>4, <1>5 DEF Placed, Derived, UnderLock, Holds
<1>7. TornUnderLock'
  BY <1>1, <1>4, TornKept
<1> QED
  BY <1>1, <1>3, <1>4, <1>6, <1>7, StepOf DEF OnlyOwn, MutexStep

LEMMA QueueFile == ASSUME FileInv, NEW d \in Call, Queue(d) PROVE FileInv'
<1> USE DEF FileInv
<1>1. /\ tool[d] = "reading" /\ ~Unread(d) /\ More(d) /\ Enter(d, File(d))
      /\ tool' = [tool EXCEPT ![d] = "queueing"]
      /\ UNCHANGED <<content, next, sources>>
  BY DEF Queue, Ready
<1>2. File(d) \in Key
  BY <1>1, ChangeType
<1>3. MutexStep(d)
  BY <1>1, <1>2 DEF MutexStep
<1>4. FileTypeOK' /\ OthersStay(d) /\ tool'[d] = "queueing"
  BY <1>1 DEF FileTypeOK, OthersStay
<1>5. entry'[d] # NoLock /\ wants'[d] = File(d) /\ ~Holds(d)'
  <2>1. PICK l \in Found(File(d)) : entry' = [entry EXCEPT ![d] = l]
    BY <1>1 DEF Enter
  <2>2. Found(File(d)) \subseteq Lock
    <3>1. New # {} => (CHOOSE free \in New : TRUE) \in New
      OBVIOUS
    <3> QED
      BY <1>2, <3>1 DEF Found, New, MutexInv, MutexTypeOK
  <2>3. entry'[d] = l /\ l \in Lock /\ l # NoLock /\ wants'[d] = File(d) /\ holder' = holder
    BY <1>1, <2>1, <2>2, FileConstants, MutexConstants
       DEF Enter, MutexInv, MutexTypeOK, FileConstants, MutexConstants
  <2>4. holder[l] # d
    BY <1>1, <2>3, FileConstants, MutexConstants
       DEF Enter, MutexInv, HoldersInside, FileConstants, MutexConstants
  <2> QED
    BY <2>3, <2>4 DEF Holds
<1>6. Placed(d)' /\ Derived(d)'
  BY <1>1, <1>4, <1>5 DEF Placed, Derived, UnderLock, More, Unread, File, Change
<1>7. TornUnderLock'
  BY <1>1, <1>4, TornKept
<1> QED
  BY <1>1, <1>3, <1>4, <1>6, <1>7, StepOf DEF OnlyOwn

LEMMA LockupFile == ASSUME FileInv, NEW d \in Call, Lockup(d) PROVE FileInv'
<1> USE DEF FileInv
<1>1. /\ tool[d] = "queueing" /\ Acquire(d)
      /\ tool' = [tool EXCEPT ![d] = "locked"]
      /\ UNCHANGED <<content, next, sources>>
  BY DEF Lockup
<1>2. FileTypeOK' /\ OthersStay(d) /\ tool'[d] = "locked"
  BY <1>1 DEF FileTypeOK, OthersStay
<1>3. Holds(d)' /\ entry'[d] = entry[d] /\ wants'[d] = wants[d]
  BY <1>1, FileConstants, MutexConstants
     DEF Acquire, Holds, MutexInv, MutexTypeOK, FileConstants, MutexConstants
<1>4. Placed(d)' /\ Derived(d)'
  BY <1>1, <1>2, <1>3 DEF Placed, Derived, UnderLock, More, Unread, File, Change
<1>5. TornUnderLock'
  BY <1>1, <1>2, TornKept
<1> QED
  BY <1>1, <1>2, <1>4, <1>5, StepOf DEF OnlyOwn, MutexStep

(* Under the lock the content is compared with what was read: nobody is    *)
(* writing the file, so that what was read was not torn either.            *)
LEMMA LookFile == ASSUME FileInv, NEW d \in Call, Look(d) PROVE FileInv'
<1> USE DEF FileInv
<1>1. /\ tool[d] = "locked" /\ Fits(d)
      /\ tool' = [tool EXCEPT ![d] = "writing"]
      /\ UNCHANGED <<mutexVars, content, next, sources>>
  BY DEF Look
<1>2. FileTypeOK' /\ OthersStay(d) /\ tool'[d] = "writing"
  BY <1>1 DEF FileTypeOK, OthersStay
<1>3. Placed(d)'
  BY <1>1, <1>2 DEF Placed, UnderLock, More, Unread, File, Change, Holds, mutexVars
<1>4. UnderLock(d) /\ File(d) \in Key
  BY <1>1, ChangeType DEF Placed, UnderLock
<1>5. content[File(d)].text # Torn
  <2> SUFFICES ASSUME content[File(d)].text = Torn PROVE FALSE
    OBVIOUS
  <2>1. PICK c \in Call : tool[c] = "truncated" /\ File(c) = File(d)
    BY <1>4 DEF TornUnderLock
  <2>2. c = d
    BY <1>4, <2>1, Exclusive DEF UnderLock
  <2> QED
    BY <1>1, <2>1, <2>2
<1>6. Change(d).kind = "update" =>
        content[File(d)] = sources[d][next[d]] /\ content[File(d)].text = "whole"
  <2>1. content[File(d)].text \in {"whole", Missing, Torn}
    BY <1>4 DEF FileTypeOK, Content
  <2>2. Change(d).kind = "update" => content[File(d)] = sources[d][next[d]] /\ IsFile(File(d))
    BY <1>1 DEF Fits
  <2> QED
    BY <1>5, <2>1, <2>2 DEF IsFile
<1>7. Derived(d)'
  BY <1>1, <1>6 DEF Derived, File, Change
<1>8. TornUnderLock'
  BY <1>1, <1>2, TornKept
<1> QED
  BY <1>1, <1>2, <1>3, <1>7, <1>8, StepOf DEF OnlyOwn, MutexStep

LEMMA TruncateFile == ASSUME FileInv, NEW d \in Call, Truncate(d) PROVE FileInv'
<1> USE DEF FileInv
<1>1. /\ tool[d] = "writing"
      /\ content' = [content EXCEPT ![File(d)].text = Torn]
      /\ tool' = [tool EXCEPT ![d] = "truncated"]
      /\ UNCHANGED <<mutexVars, next, sources>>
  BY DEF Truncate
<1>2. UnderLock(d) /\ File(d) \in Key
  BY <1>1, ChangeType DEF Placed, UnderLock
<1>3. content[File(d)] \in Content
  BY <1>2 DEF FileTypeOK
<1>4. /\ content'[File(d)] \in Content /\ content'[File(d)].text = Torn
      /\ content'[File(d)].holds = content[File(d)].holds
      /\ \A k \in Key : k # File(d) => content'[k] = content[k]
  BY <1>1, <1>2, <1>3 DEF FileTypeOK, Content
<1>5. FileTypeOK' /\ OthersStay(d) /\ tool'[d] = "truncated"
  BY <1>1, <1>4 DEF FileTypeOK, OthersStay
<1>6. File(d)' = File(d) /\ Change(d)' = Change(d)
  BY <1>1 DEF File, Change
<1>7. Placed(d)'
  BY <1>1, <1>2, <1>5, <1>6 DEF Placed, UnderLock, More, Unread, Holds, mutexVars
<1>8. Derived(d)'
  BY <1>1, <1>4, <1>6 DEF Derived
<1>9. TornUnderLock'
  <2> SUFFICES ASSUME NEW k \in Key, content'[k].text = Torn
               PROVE  \E c \in Call : tool'[c] = "truncated" /\ File(c)' = k
    BY DEF TornUnderLock
  <2>1. CASE k = File(d)
    BY <1>5, <1>6, <2>1
  <2>2. CASE k # File(d)
    <3>1. PICK c \in Call : tool[c] = "truncated" /\ File(c) = k
      BY <1>4, <2>2 DEF TornUnderLock
    <3>2. c # d
      BY <1>1, <3>1
    <3> QED
      BY <1>5, <3>1, <3>2 DEF OthersStay, File, Change
  <2> QED
    BY <2>1, <2>2
<1> QED
  BY <1>1, <1>2, <1>4, <1>5, <1>7, <1>8, <1>9, StepOf DEF OnlyOwn, MutexStep

LEMMA WriteFile == ASSUME FileInv, NEW d \in Call, Write(d) PROVE FileInv'
<1> USE DEF FileInv
<1>1. /\ tool[d] = "truncated" \/ (tool[d] = "writing" /\ Change(d).kind = "delete")
      /\ content' = [content EXCEPT ![File(d)] = Written(d)]
      /\ Leave(d)
      /\ next' = [next EXCEPT ![d] = @ + 1]
      /\ tool' = [tool EXCEPT ![d] = "reading"]
      /\ UNCHANGED sources
  BY DEF Write
<1>2. UnderLock(d) /\ File(d) \in Key /\ More(d) /\ ~Unread(d)
  BY <1>1, ChangeType DEF Placed, UnderLock
<1>3. Written(d) \in Content /\ Written(d).text # Torn
  <2>1. next[d] \in 1..Len(sources[d]) /\ sources[d] \in Seq(Content)
    BY <1>2, FileConstants, LenProperties DEF More, Unread, FileTypeOK, FileConstants
  <2>2. sources[d][next[d]] \in Content
    BY <2>1, ElementOfSeq
  <2>3. Text(d) \in Call \X Nat
    BY DEF Text, FileTypeOK
  <2> QED
    BY <2>2, <2>3 DEF Written, Content, Missing, Torn
<1>4. FileTypeOK' /\ OthersStay(d) /\ tool'[d] = "reading"
  <2>1. next[d] + 1 \in Nat \ {0}
    BY DEF FileTypeOK
  <2>2. content' \in [Key -> Content] /\ next' \in [Call -> Nat \ {0}]
    BY <1>1, <1>2, <1>3, <2>1 DEF FileTypeOK
  <2> QED
    BY <1>1, <2>2 DEF FileTypeOK, OthersStay
<1>5. \A k \in Key : content'[k] = IF k = File(d) THEN Written(d) ELSE content[k]
  BY <1>1 DEF FileTypeOK
<1>6. Placed(d)' /\ Derived(d)'
  <2>1. entry'[d] = NoLock
    BY <1>1, LeaverUnlocked
  <2> QED
    BY <1>4, <2>1 DEF Placed, Derived, UnderLock, Holds
<1>7. TornUnderLock'
  <2> SUFFICES ASSUME NEW k \in Key, content'[k].text = Torn
               PROVE  \E c \in Call : tool'[c] = "truncated" /\ File(c)' = k
    BY DEF TornUnderLock
  <2>1. k # File(d) /\ content[k].text = Torn
    BY <1>3, <1>5
  <2>2. PICK c \in Call : tool[c] = "truncated" /\ File(c) = k
    BY <2>1 DEF TornUnderLock
  <2> QED
    BY <1>4, <2>1, <2>2 DEF OthersStay, File, Change
<1> QED
  BY <1>1, <1>2, <1>4, <1>5, <1>6, <1>7, StepOf DEF OnlyOwn, MutexStep

LEMMA StepFile == FileInv /\ [Next]_vars => FileInv'
<1> SUFFICES ASSUME FileInv, [Next]_vars PROVE FileInv'
  OBVIOUS
<1>1. ASSUME NEW c \in Call, ToolStep(c) PROVE FileInv'
  <2>1. CASE GiveUp(c)
    <3>1. entry'[c] = NoLock
      BY <2>1, ReaderUnlocked DEF GiveUp, mutexVars
    <3> QED
      BY <2>1, <3>1, EndFile DEF GiveUp, MutexStep
  <2>2. CASE FailRead(c)
    <3>1. entry'[c] = NoLock
      BY <2>2, ReaderUnlocked DEF FailRead, Reading, mutexVars
    <3> QED
      BY <2>2, <3>1, EndFile DEF FailRead, Reading, MutexStep
  <2>3. CASE Reject(c)
    <3>1. entry'[c] = NoLock
      BY <2>3, LeaverUnlocked DEF Reject, FileInv
    <3> QED
      BY <2>3, <3>1, EndFile DEF Reject, MutexStep
  <2>4. CASE Finish(c)
    <3>1. entry'[c] = NoLock
      BY <2>4, ReaderUnlocked DEF Finish, Ready, mutexVars
    <3> QED
      BY <2>4, <3>1, EndFile DEF Finish, Ready, MutexStep
  <2> QED
    BY <1>1, <2>1, <2>2, <2>3, <2>4, ReadFile, QueueFile, LockupFile, LookFile, TruncateFile, WriteFile
       DEF ToolStep
<1>2. ASSUME NEW c \in Call, StopTool(c) PROVE FileInv'
  <2>1. Leave(c) \/ (tool[c] = "reading" /\ UNCHANGED mutexVars)
    BY <1>2 DEF StopTool
  <2>2. entry'[c] = NoLock
    BY <2>1, LeaverUnlocked, ReaderUnlocked DEF FileInv, mutexVars
  <2> QED
    BY <1>2, <2>1, <2>2, EndFile DEF StopTool, MutexStep
<1>3. ASSUME UNCHANGED <<mutexVars, fileVars>> PROVE FileInv'
  <2>1. MutexInv'
    BY <1>3, NextMutexInv DEF FileInv
  <2>2. FileTypeOK' /\ TornUnderLock'
    BY <1>3 DEF FileInv, FileTypeOK, TornUnderLock, fileVars, File, Change
  <2>3. \A c \in Call : Placed(c)' /\ Derived(c)'
    BY <1>3 DEF FileInv, Placed, Derived, UnderLock, More, Unread, Holds, File, Change, fileVars, mutexVars
  <2> QED
    BY <2>1, <2>2, <2>3 DEF FileInv
<1> QED
  BY <1>1, <1>2, <1>3 DEF Next, vars

LEMMA FileInvariant == Spec => []FileInv
BY InitFile, StepFile, PTL DEF Spec

(* The tools are fibers of the mutex: every step of theirs enters, gets a  *)
(* permit, leaves or does not touch the locks (file-mutation.ts,           *)
(* withTargetLock, over keyed-mutex.ts), so that what KeyedMutex promises  *)
(* of any fibers holds of them.                                            *)
THEOREM ToolsUseTheMutex == Spec => MutexSpec
<1>1. Init => MutexInit
  BY DEF Init
<1>2. FileInv /\ [Next]_vars => [MutexNext]_mutexVars
  <2> SUFFICES ASSUME FileInv, [Next]_vars, ~UNCHANGED mutexVars PROVE MutexNext
    OBVIOUS
  <2>1. PICK c \in Call : ToolStep(c) \/ StopTool(c)
    BY DEF Next, PermStep, vars
  <2>2. CASE Queue(c)
    <3>1. File(c) \in Key
      BY <2>2, ChangeType DEF Queue, FileInv
    <3> QED
      BY <2>2, <3>1, FileConstants DEF Queue, MutexNext, FileConstants
  <2>3. CASE Lockup(c) \/ Reject(c) \/ Write(c) \/ StopTool(c)
    BY <2>3, FileConstants DEF Lockup, Reject, Write, StopTool, MutexNext, FileConstants
  <2> QED
    BY <2>1, <2>2, <2>3 DEF ToolStep, GiveUp, Read, FailRead, Look, Truncate, Finish
<1> QED
  BY <1>1, <1>2, FileInvariant, PTL DEF Spec, MutexSpec

(* Calls that change one file do so one at a time (file-mutation.ts, the   *)
(* locks of withTargetLock), wherever they are stopped.                    *)
THEOREM FilesExclusive == Spec => []MutualExclusion
<1>1. FileInv => MutualExclusion
  BY InvExcludes DEF FileInv
<1> QED
  BY <1>1, FileInvariant, PTL

LEMMA WritePreserves ==
  ASSUME FileInv, NEW c \in Call, Write(c), Change(c).kind = "update"
  PROVE  /\ content[File(c)].holds \subseteq content'[File(c)].holds
         /\ sources[c][next[c]].text = "whole"
<1>1. tool[c] = "truncated" /\ content' = [content EXCEPT ![File(c)] = Written(c)]
  BY DEF Write
<1>2. File(c) \in Key
  BY <1>1, ChangeType DEF FileInv, Placed, UnderLock
<1>3. content'[File(c)] = Written(c)
  BY <1>1, <1>2 DEF FileInv, FileTypeOK
<1>4. Written(c).holds = sources[c][next[c]].holds \cup {Text(c)}
  BY DEF Written
<1> QED
  BY <1>1, <1>3, <1>4 DEF FileInv, Derived

(* An update never loses a change that another call made from the same     *)
(* content, nor is it derived from a torn file (file-mutation.ts,          *)
(* writeIfUnchanged), although it is computed outside the lock.            *)
THEOREM NoLostUpdate == Spec => UpdatesPreserve
<1>1. FileInv /\ [Next]_vars =>
        [\A c \in Call : Write(c) /\ Change(c).kind = "update" =>
           /\ content[File(c)].holds \subseteq content'[File(c)].holds
           /\ sources[c][next[c]].text = "whole"]_vars
  BY WritePreserves
<1> QED
  BY <1>1, FileInvariant, PTL DEF Spec, UpdatesPreserve

-----------------------------------------------------------------------------
(* Nobody waits for nothing.                                               *)

(* A call whose tool is at work moves, or queues for a lock whose holder   *)
(* is past the queue and cannot be kept from its next step.                *)
LEMMA WorkerMoves ==
  ASSUME FileInv, NEW c \in Call, UnderLock(c)
  PROVE  Moves(c)
BY DEF FileInv, Placed, UnderLock, Moves

LEMMA QueuerMoves ==
  ASSUME FileInv, NEW c \in Call, tool[c] = "queueing"
  PROVE  \E d \in Call : Moves(d) /\ (d = c \/ InTheWay(d, c))
<1>1. entry[c] \in Lock /\ entry[c] # NoLock
  BY FileConstants DEF FileInv, Placed, MutexInv, MutexTypeOK, FileConstants
<1>2. CASE holder[entry[c]] = Nobody
  BY <1>1, <1>2 DEF Moves
<1>3. CASE holder[entry[c]] # Nobody
  <2> DEFINE d == holder[entry[c]]
  <2>1. d \in Call /\ entry[d] = entry[c]
    BY <1>1, <1>3, FileConstants DEF FileInv, MutexInv, MutexTypeOK, HoldersInside, FileConstants
  <2>2. Holds(d)
    BY <1>1, <2>1 DEF Holds
  <2>3. Moves(d)
    BY <2>1, <2>2, WorkerMoves DEF FileInv, Placed
  <2> QED
    BY <2>1, <2>2, <2>3 DEF InTheWay
<1> QED
  BY <1>2, <1>3

LEMMA ReaderMoves ==
  ASSUME FileInv, PermInv, NEW c \in Call, tool[c] = "reading"
  PROVE  Rests(c) \/ Moves(c)
<1>1. CASE asks[c] \in {"new", "asking", "refused", "blocked", "stopped"}
  BY <1>1 DEF Rests, Moves
<1>2. CASE asks[c] = "waiting"
  <2>1. verdict[c] = "open" => c \in ToSet(pending)
    BY <1>2 DEF PermInv, UnansweredListed, Unanswered
  <2> QED
    BY <1>2, <2>1 DEF Rests, Moves
<1>3. CASE asks[c] = "allowed"
  <2>1. CASE Unread(c)
    BY <1>3, <2>1 DEF Moves, Reading
  <2>2. CASE ~Unread(c)
    <3>1. ASSUME More(c) PROVE entry[c] = NoLock /\ Found(File(c)) # {}
      BY <3>1, ReaderUnlocked, ChangeType, LockForNewcomer, FileConstants DEF FileInv, FileConstants
    <3> QED
      BY <1>3, <2>2, <3>1 DEF Moves, Ready
  <2> QED
    BY <2>1, <2>2
<1> QED
  BY <1>1, <1>2, <1>3 DEF PermInv, PermTypeOK

(* Every call has ended, is not asked for anything yet, has a listed       *)
(* request to answer, can take its next step, or queues behind one that    *)
(* can; and a reply that was sent can always take its next step            *)
(* (keyed-mutex.ts, file-mutation.ts and permission.ts).  What tells a     *)
(* step that its conditions hold from one that is enabled is GuardsEnable, *)
(* which is checked and not proved.                                        *)
THEOREM NeverStuck == Spec => [](GuardsEnable => NothingStuck)
<1>1. ASSUME FileInv, PermInv, NEW c \in Call
      PROVE  Rests(c) \/ \E d \in Call : Moves(d) /\ (d = c \/ InTheWay(d, c))
  <2>1. CASE tool[c] \in {"done", "failed", "stopped"}
    BY <2>1 DEF Rests, Ended
  <2>2. CASE UnderLock(c)
    BY <1>1, <2>2, WorkerMoves
  <2> QED
    BY <1>1, <2>1, <2>2, ReaderMoves, QueuerMoves DEF FileInv, FileTypeOK, UnderLock
<1>2. ASSUME PermInv, NEW r \in Client
      PROVE  replies[r].at \in {"idle", "done"} \/ ReplyMoves(r)
  BY <1>2 DEF PermInv, PermTypeOK, ReplyState, ReplyAbout, ReplyMoves
<1>3. FileInv /\ PermInv => (GuardsEnable => NothingStuck)
  BY <1>1, <1>2 DEF NothingStuck
<1> QED
  BY <1>3, FileInvariant, PermInvariant, PTL

-----------------------------------------------------------------------------
(* No step is taken twice: where a call and a reply are, as numbers that   *)
(* every step raises.                                                      *)

AskStage(c) == CASE asks[c] = "new" -> 0
                 [] asks[c] = "asking" -> 1
                 [] asks[c] = "waiting" -> 2
                 [] OTHER -> 3

LastStage(c) == 6 * Len(Changes[c]) + 6

ToolStage(c) ==
  LET done == Len(sources[c]) + 5 * next[c]
  IN CASE tool[c] = "reading" -> done
       [] tool[c] = "queueing" -> done + 1
       [] tool[c] = "locked" -> done + 2
       [] tool[c] = "writing" -> done + 3
       [] tool[c] = "truncated" -> done + 4
       [] OTHER -> LastStage(c)

ReplyStage(r) ==
  CASE replies[r].at = "idle" -> 0
    [] replies[r].at = "published" -> 1
    [] replies[r].at = "saved" -> 2
    [] replies[r].at = "granted" -> 3
    [] replies[r].at = "looping" -> 3 + Cardinality(replies[r].seen)
    [] OTHER -> 4 + Cardinality(Call)

StagesBounded ==
  /\ \A c \in Call : AskStage(c) \in 0..3 /\ ToolStage(c) \in 0..LastStage(c)
  /\ \A r \in Client : ReplyStage(r) \in 0..(4 + Cardinality(Call))

NoneFalls ==
  /\ \A c \in Call : AskStage(c)' >= AskStage(c) /\ ToolStage(c)' >= ToolStage(c)
  /\ \A r \in Client : ReplyStage(r)' >= ReplyStage(r)
  /\ closed => closed'

OneRises ==
  \/ \E c \in Call : AskStage(c)' > AskStage(c) \/ ToolStage(c)' > ToolStage(c)
  \/ \E r \in Client : ReplyStage(r)' > ReplyStage(r)
  \/ ~closed /\ closed'

(* A call has read no more than it changes, and makes no other changes.    *)
Within == \A c \in Call : /\ next[c] <= Len(Changes[c]) + 1
                          /\ Len(sources[c]) <= Len(Changes[c])

LEMMA ChangesLength == \A c \in Call : Len(Changes[c]) \in Nat
BY FileConstants, LenProperties DEF FileConstants

(* The numbers of a call's tool.                                           *)
LEMMA Lengths ==
  ASSUME FileTypeOK, NEW c \in Call
  PROVE  Len(sources[c]) \in Nat /\ next[c] \in Nat \ {0} /\ Len(Changes[c]) \in Nat
BY ChangesLength, LenProperties DEF FileTypeOK

LEMMA ToolBounded ==
  ASSUME FileInv, Within, NEW c \in Call
  PROVE  ToolStage(c) \in 0..LastStage(c) /\ (~Ended(c) => ToolStage(c) < LastStage(c))
<1> DEFINE n == Len(Changes[c])
           m == Len(sources[c])
           i == next[c]
<1>1. n \in Nat /\ m \in Nat /\ i \in Nat /\ i <= n + 1 /\ m <= n
  BY Lengths DEF FileInv, Within
<1>2. tool[c] = "queueing" \/ UnderLock(c) => i <= n
  BY DEF FileInv, Placed, More
<1>3. LastStage(c) = 6 * n + 6
  BY DEF LastStage
<1>4. tool[c] \in {"reading", "queueing", "locked", "writing", "truncated", "done", "failed", "stopped"}
  BY DEF FileInv, FileTypeOK
<1>5. ToolStage(c) = CASE tool[c] = "reading" -> m + 5 * i
                       [] tool[c] = "queueing" -> m + 5 * i + 1
                       [] tool[c] = "locked" -> m + 5 * i + 2
                       [] tool[c] = "writing" -> m + 5 * i + 3
                       [] tool[c] = "truncated" -> m + 5 * i + 4
                       [] OTHER -> LastStage(c)
  BY DEF ToolStage
<1> HIDE DEF n, m, i
<1>6. CASE tool[c] = "reading"
  BY <1>1, <1>3, <1>5, <1>6
<1>7. CASE UnderLock(c) \/ tool[c] = "queueing"
  BY <1>1, <1>2, <1>3, <1>5, <1>7 DEF UnderLock
<1>8. CASE Ended(c)
  BY <1>1, <1>3, <1>5, <1>8 DEF Ended
<1> QED
  BY <1>4, <1>6, <1>7, <1>8, <1>1, <1>3 DEF UnderLock, Ended

LEMMA EndStage ==
  ASSUME FileInv, Within, NEW d \in Call, NEW how \in {"done", "failed", "stopped"}, End(d, how),
         ~Ended(d)
  PROVE  Within' /\ ToolStage(d)' > ToolStage(d) /\ OthersStay(d)
<1>1. OthersStay(d) /\ tool'[d] = how /\ next'[d] = 1 /\ sources'[d] = <<>>
  BY DEF FileInv, FileTypeOK, End, OthersStay
<1>2. ToolStage(d)' = LastStage(d)
  BY <1>1 DEF ToolStage, LastStage
<1>3. ToolStage(d) < LastStage(d) /\ ToolStage(d) \in Int /\ LastStage(d) \in Int
  BY ToolBounded, ChangesLength DEF LastStage
<1>4. Within'
  BY <1>1, ChangesLength, EmptySeq DEF Within, OthersStay
<1> QED
  BY <1>1, <1>2, <1>3, <1>4

(* Every step of a tool is one forward.                                    *)
LEMMA ToolForward ==
  ASSUME FileInv, Within, NEW d \in Call, ToolStep(d) \/ StopTool(d)
  PROVE  Within' /\ ToolStage(d)' > ToolStage(d) /\ OthersStay(d)
<1> USE DEF FileInv
<1>1. Len(sources[d]) \in Nat /\ next[d] \in Nat /\ Len(Changes[d]) \in Nat
  BY Lengths
<1>2. CASE GiveUp(d) \/ FailRead(d) \/ Reject(d) \/ Finish(d) \/ StopTool(d)
  <2>1. ~Ended(d)
    BY <1>2 DEF GiveUp, FailRead, Reading, Reject, Finish, Ready, StopTool, Ended
  <2> QED
    BY <1>2, <2>1, EndStage DEF GiveUp, FailRead, Reject, Finish, StopTool
<1>3. CASE Read(d)
  <2> DEFINE x == IF ToRead(d).kind = "update" THEN content[ToRead(d).file] ELSE NoSource
  <2>1. /\ tool[d] = "reading" /\ Unread(d)
        /\ sources' = [sources EXCEPT ![d] = Append(@, x)]
        /\ UNCHANGED <<tool, next>>
    BY <1>3 DEF Read, Reading
  <2> HIDE DEF x
  <2>2. sources'[d] = Append(sources[d], x) /\ OthersStay(d)
    BY <2>1 DEF FileTypeOK, OthersStay
  <2>3. Len(Append(sources[d], x)) = Len(sources[d]) + 1
    BY DEF FileTypeOK
  <2>4. ToolStage(d)' = ToolStage(d) + 1 /\ ToolStage(d) \in Int
    <3>1. tool'[d] = "reading" /\ tool[d] = "reading" /\ next'[d] = next[d]
      BY <2>1
    <3>2. Len(sources'[d]) = Len(sources[d]) + 1
      BY <2>2, <2>3
    <3>3. /\ ToolStage(d) = Len(sources[d]) + 5 * next[d]
          /\ ToolStage(d)' = Len(sources'[d]) + 5 * next'[d]
      BY <3>1 DEF ToolStage
    <3> QED
      BY <1>1, <3>1, <3>2, <3>3
  <2>5. Within'
    BY <1>1, <2>1, <2>2, <2>3 DEF Within, OthersStay, Unread
  <2> QED
    BY <2>2, <2>4, <2>5
<1>4. CASE Queue(d) \/ Lockup(d) \/ Look(d) \/ Truncate(d)
  <2>1. /\ \/ tool[d] = "reading" /\ tool' = [tool EXCEPT ![d] = "queueing"]
           \/ tool[d] = "queueing" /\ tool' = [tool EXCEPT ![d] = "locked"]
           \/ tool[d] = "locked" /\ tool' = [tool EXCEPT ![d] = "writing"]
           \/ tool[d] = "writing" /\ tool' = [tool EXCEPT ![d] = "truncated"]
        /\ UNCHANGED <<next, sources>>
    BY <1>4 DEF Queue, Ready, Lockup, Look, Truncate
  <2>2. ToolStage(d)' = ToolStage(d) + 1 /\ ToolStage(d) \in Int
    BY <1>1, <2>1 DEF ToolStage, FileTypeOK
  <2> QED
    BY <2>1, <2>2 DEF Within, OthersStay, FileTypeOK
<1>5. CASE Write(d)
  <2>1. /\ tool[d] \in {"writing", "truncated"}
        /\ next' = [next EXCEPT ![d] = @ + 1]
        /\ tool' = [tool EXCEPT ![d] = "reading"]
        /\ UNCHANGED sources
    BY <1>5 DEF Write
  <2>2. next'[d] = next[d] + 1 /\ tool'[d] = "reading" /\ OthersStay(d)
    BY <2>1 DEF FileTypeOK, OthersStay
  <2>3. ToolStage(d)' > ToolStage(d)
    BY <1>1, <2>1, <2>2 DEF ToolStage
  <2>4. next[d] <= Len(Changes[d])
    BY <2>1 DEF Placed, UnderLock, More
  <2>5. Within'
    BY <1>1, <2>1, <2>2, <2>4 DEF Within, OthersStay
  <2> QED
    BY <2>2, <2>3, <2>5
<1> QED
  BY <1>2, <1>3, <1>4, <1>5 DEF ToolStep

LEMMA AskForward ==
  ASSUME PermInv, NEW d \in Call, AssertStep(d) \/ StopAsking(d)
  PROVE  /\ AskStage(d)' > AskStage(d)
         /\ \A c \in Call \ {d} : asks'[c] = asks[c]
         /\ UNCHANGED <<replies, closed>>
<1> USE DEF PermInv, PermTypeOK
<1>1. CASE Evaluate(d)
  <2>1. asks[d] = "new" /\ asks'[d] # "new"
    BY <1>1 DEF Evaluate
  <2> QED
    BY <1>1, <2>1 DEF Evaluate, AskStage
<1>2. CASE Register(d)
  BY <1>2 DEF Register, AskStage
<1>3. CASE Wake(d) \/ StopAsking(d)
  <2>1. asks[d] = "waiting" /\ asks'[d] \in {"allowed", "refused", "stopped"}
    BY <1>3 DEF Wake, StopAsking
  <2> QED
    BY <1>3, <2>1 DEF Wake, StopAsking, AskStage
<1> QED
  BY <1>1, <1>2, <1>3 DEF AssertStep

LEMMA SeenCounts ==
  ASSUME NEW S \in SUBSET Call
  PROVE  /\ Cardinality(S) \in Nat /\ Cardinality(S) <= Cardinality(Call) /\ Cardinality(Call) \in Nat
         /\ \A x \in Call \ S : Cardinality(S \cup {x}) = Cardinality(S) + 1
<1>1. IsFiniteSet(Call)
  BY FileConstants, MutexConstants DEF FileConstants, MutexConstants
<1>2. IsFiniteSet(S) /\ Cardinality(S) <= Cardinality(Call)
  BY <1>1, FS_Subset
<1> QED
  BY <1>1, <1>2, FS_CardinalityType, FS_AddElement

(* A loop goes on to a request it has not seen, or is over.                *)
LEMMA GoOnUnseen ==
  ASSUME PermTypeOK, NEW r \in Client, NEW seen \in SUBSET Call, NEW left \in Seq(Call),
         GoOn(r, seen, left).at = "looping"
  PROVE  GoOn(r, seen, left).on \notin seen
<1> DEFINE later == Later(r, seen, left)
<1>1. replies[r] \in ReplyState
  BY DEF PermTypeOK
<1>2. later # {}
  BY <1>1 DEF GoOn, Over, ReplyState
<1>3. Min(later) \in later
  <2>1. later \subseteq Nat
    BY LenProperties DEF Later
  <2> QED
    BY <1>2, <2>1, MinIsMember
<1>4. left[Min(later)] \notin seen
  BY <1>3 DEF Later
<1>5. GoOn(r, seen, left).on = left[Min(later)]
  BY <1>1, <1>2 DEF GoOn, ReplyState
<1> QED
  BY <1>4, <1>5

LEMMA LoopForward ==
  ASSUME PermInv, NEW r \in Client, NEW seen \in SUBSET Call, NEW left \in Seq(Call),
         replies'[r].at = GoOn(r, seen, left).at, replies'[r].seen = GoOn(r, seen, left).seen,
         \/ replies[r].at = "looping" /\ seen = replies[r].seen
         \/ replies[r].at = "published" /\ seen = replies[r].seen
         \/ replies[r].at = "granted"
  PROVE  ReplyStage(r)' > ReplyStage(r)
<1>1. replies[r].seen \in SUBSET Call
  BY DEF PermInv, PermTypeOK, ReplyState
<1>2. /\ Cardinality(seen) \in Nat /\ Cardinality(replies[r].seen) \in Nat
      /\ Cardinality(replies[r].seen) <= Cardinality(Call) /\ Cardinality(Call) \in Nat
  BY <1>1, SeenCounts
<1>3. \/ replies'[r].at = "done"
      \/ replies'[r].at = "looping" /\ Cardinality(replies'[r].seen) = Cardinality(seen) + 1
  <2> DEFINE g == GoOn(r, seen, left)
  <2>1. g.on \in Call \cup {NoCall} /\ g.seen \in SUBSET Call
    BY GoOnFacts DEF PermInv, ReplyState
  <2>2. g.at = "done" \/ (g.at = "looping" /\ g.seen = seen \cup {g.on})
    BY GoOnFacts DEF PermInv
  <2>3. g.at = "looping" => g.on \notin seen
    BY GoOnUnseen DEF PermInv
  <2> HIDE DEF g
  <2>4. g.at = "looping" => g.on \in Call \ seen
    BY <2>1, <2>2, <2>3
  <2>5. replies'[r].at = g.at /\ replies'[r].seen = g.seen
    BY DEF g
  <2> QED
    BY <2>2, <2>4, <2>5, SeenCounts
<1>4. ReplyStage(r)' = CASE replies'[r].at = "idle" -> 0
                         [] replies'[r].at = "published" -> 1
                         [] replies'[r].at = "saved" -> 2
                         [] replies'[r].at = "granted" -> 3
                         [] replies'[r].at = "looping" -> 3 + Cardinality(replies'[r].seen)
                         [] OTHER -> 4 + Cardinality(Call)
  BY DEF ReplyStage
<1> QED
  BY <1>2, <1>3, <1>4 DEF ReplyStage

LEMMA ReplyForward ==
  ASSUME PermInv, NEW r \in Client,
         ReplyStep(r) \/ \E c \in Call, say \in Reply : Lookup(r, c, say)
  PROVE  /\ ReplyStage(r)' > ReplyStage(r)
         /\ \A q \in Client \ {r} : replies'[q] = replies[q]
         /\ UNCHANGED <<asks, closed>>
<1> USE DEF PermInv, PermTypeOK
<1>1. replies[r] \in ReplyState /\ replies[r].seen \in SUBSET Call
  BY DEF ReplyState
<1>2. CASE \E c \in Call, say \in Reply : Lookup(r, c, say)
  <2>1. PICK c \in Call, say \in Reply : Lookup(r, c, say)
    BY <1>2
  <2>2. /\ replies[r].at = "idle"
        /\ replies' = [replies EXCEPT ![r] = [@ EXCEPT !.at = "published", !.asked = c, !.say = say,
                                                      !.on = c, !.seen = {c},
                                                      !.before = IF say = "reject" THEN ToSet(pending)
                                                                 ELSE {}]]
        /\ UNCHANGED <<asks, closed>>
    BY <2>1 DEF Lookup
  <2>3. replies'[r].at = "published"
    BY <1>1, <2>2 DEF ReplyState
  <2>4. ReplyStage(r)' > ReplyStage(r)
    BY <2>2, <2>3 DEF ReplyStage
  <2> QED
    BY <2>2, <2>4
<1>3. CASE Remember(r)
  <2>1. replies[r].at = "published" /\ replies'[r].at = "saved"
    BY <1>1, <1>3 DEF Remember, ReplyState
  <2> QED
    BY <1>3, <2>1 DEF Remember, ReplyStage
<1>4. CASE Grant(r)
  <2>1. /\ replies[r].at \in {"published", "saved"}
        /\ replies'[r].at = "granted" \/ replies'[r].at = "done"
    BY <1>1, <1>4 DEF Grant, Over, ReplyState
  <2>2. Cardinality(Call) \in Nat
    BY SeenCounts
  <2> QED
    BY <1>4, <2>1, <2>2 DEF Grant, ReplyStage
<1>5. CASE Refuse(r)
  <2> DEFINE left == Without(pending, replies[r].on)
  <2>1. left \in Seq(Call)
    BY WithoutFacts
  <2>2. replies'[r] = GoOn(r, replies[r].seen, left)
    BY <1>5 DEF Refuse
  <2> HIDE DEF left
  <2>3. ReplyStage(r)' > ReplyStage(r)
    BY <1>1, <1>5, <2>1, <2>2, LoopForward DEF Refuse
  <2> QED
    BY <1>5, <2>3 DEF Refuse
<1>6. CASE ReadRules(r)
  <2>1. replies'[r].at = GoOn(r, {}, pending).at /\ replies'[r].seen = GoOn(r, {}, pending).seen
    <3>1. GoOn(r, {}, pending) \in ReplyState
      BY GoOnFacts
    <3>2. replies'[r] = IF Later(r, {}, pending) = {} THEN Over(r)
                        ELSE [GoOn(r, {}, pending) EXCEPT !.remembered = saved]
      BY <1>6 DEF ReadRules
    <3>3. Later(r, {}, pending) = {} => GoOn(r, {}, pending) = Over(r)
      BY DEF GoOn
    <3> QED
      BY <3>1, <3>2, <3>3 DEF ReplyState
  <2>2. ReplyStage(r)' > ReplyStage(r)
    BY <1>6, <2>1, LoopForward DEF ReadRules
  <2> QED
    BY <1>6, <2>2 DEF ReadRules
<1>7. CASE Recheck(r)
  <2> DEFINE left == IF Redeemed(r) THEN Without(pending, replies[r].on) ELSE pending
  <2>1. left \in Seq(Call)
    BY WithoutFacts
  <2>2. replies'[r] = GoOn(r, replies[r].seen, left)
    BY <1>7 DEF Recheck
  <2> HIDE DEF left
  <2>3. ReplyStage(r)' > ReplyStage(r)
    BY <1>1, <1>7, <2>1, <2>2, LoopForward DEF Recheck
  <2> QED
    BY <1>7, <2>3 DEF Recheck
<1> QED
  BY <1>2, <1>3, <1>4, <1>5, <1>6, <1>7 DEF ReplyStep

Numbers ==
  /\ \A c \in Call : AskStage(c) \in Int /\ ToolStage(c) \in Int
  /\ \A r \in Client : ReplyStage(r) \in Int

LEMMA StagesAreNumbers == FileInv /\ PermInv /\ Within => Numbers
<1> SUFFICES ASSUME FileInv, PermInv, Within PROVE Numbers
  OBVIOUS
<1>1. \A c \in Call : AskStage(c) \in Int
  BY DEF AskStage
<1>2. \A c \in Call : ToolStage(c) \in Int
  BY ToolBounded
<1>3. \A r \in Client : Cardinality(replies[r].seen) \in Nat /\ Cardinality(Call) \in Nat
  BY SeenCounts DEF PermInv, PermTypeOK, ReplyState
<1>4. \A r \in Client : ReplyStage(r) \in Int
  BY <1>3 DEF ReplyStage
<1> QED
  BY <1>1, <1>2, <1>4 DEF Numbers

LEMMA StepForward == FileInv /\ PermInv /\ Within /\ Next => Within' /\ NoneFalls /\ OneRises
<1> SUFFICES ASSUME FileInv, PermInv, Within, Next PROVE Within' /\ NoneFalls /\ OneRises
  OBVIOUS
<1>1. /\ \A c \in Call : AskStage(c) \in Int /\ ToolStage(c) \in Int
      /\ \A r \in Client : ReplyStage(r) \in Int
  BY StagesAreNumbers DEF Numbers
<1>2. Within' => /\ \A c \in Call : AskStage(c)' \in Int /\ ToolStage(c)' \in Int
                 /\ \A r \in Client : ReplyStage(r)' \in Int
  <2>1. FileInv' /\ PermInv'
    BY StepFile, NextPerm, StepPerm
  <2>2. FileInv' /\ PermInv' /\ Within' => Numbers'
    BY StagesAreNumbers, PTL
  <2> QED
    BY <2>1, <2>2 DEF Numbers
<1>3. ASSUME UNCHANGED <<tool, next, sources>>
      PROVE  Within' /\ \A c \in Call : ToolStage(c)' = ToolStage(c)
  BY <1>3 DEF Within, ToolStage, LastStage
<1>4. ASSUME UNCHANGED <<replies, closed>>
      PROVE  (closed => closed') /\ \A r \in Client : ReplyStage(r)' = ReplyStage(r)
  BY <1>4 DEF ReplyStage
<1>5. ASSUME UNCHANGED asks PROVE \A c \in Call : AskStage(c)' = AskStage(c)
  BY <1>5 DEF AskStage
<1>6. CASE UNCHANGED <<mutexVars, fileVars>> /\ \E d \in Call : AssertStep(d) \/ StopAsking(d)
  <2>1. PICK d \in Call : AssertStep(d) \/ StopAsking(d)
    BY <1>6
  <2>2. /\ AskStage(d)' > AskStage(d) /\ UNCHANGED <<replies, closed>>
        /\ \A c \in Call \ {d} : AskStage(c)' = AskStage(c)
    BY <2>1, AskForward DEF AskStage
  <2> QED
    BY <1>1, <1>2, <1>3, <1>4, <1>6, <2>2 DEF fileVars, NoneFalls, OneRises
<1>7. CASE UNCHANGED <<mutexVars, fileVars>> /\ \E r \in Client :
             ReplyStep(r) \/ \E c \in Call, say \in Reply : Lookup(r, c, say)
  <2>1. PICK r \in Client : ReplyStep(r) \/ \E c \in Call, say \in Reply : Lookup(r, c, say)
    BY <1>7
  <2>2. /\ ReplyStage(r)' > ReplyStage(r) /\ UNCHANGED <<asks, closed>>
        /\ \A q \in Client \ {r} : ReplyStage(q)' = ReplyStage(q)
    BY <2>1, ReplyForward DEF ReplyStage
  <2> QED
    BY <1>1, <1>2, <1>3, <1>5, <1>7, <2>2 DEF fileVars, NoneFalls, OneRises
<1>8. CASE UNCHANGED <<mutexVars, fileVars>> /\ Close
  <2>1. ~closed /\ closed' /\ UNCHANGED <<asks, replies>>
    BY <1>8 DEF Close
  <2>2. \A r \in Client : ReplyStage(r)' = ReplyStage(r)
    BY <2>1 DEF ReplyStage
  <2> QED
    BY <1>1, <1>3, <1>5, <1>8, <2>1, <2>2 DEF fileVars, NoneFalls, OneRises
<1>9. CASE \E d \in Call : ToolStep(d) \/ StopTool(d)
  <2>1. PICK d \in Call : ToolStep(d) \/ StopTool(d)
    BY <1>9
  <2>2. UNCHANGED permVars
    BY <2>1 DEF ToolStep, GiveUp, Read, FailRead, Queue, Lockup, Look, Reject, Truncate, Write,
       Finish, StopTool
  <2>3. /\ Within' /\ ToolStage(d)' > ToolStage(d)
        /\ \A c \in Call \ {d} : ToolStage(c)' = ToolStage(c)
    BY <2>1, ToolForward DEF OthersStay, ToolStage, LastStage
  <2> QED
    BY <1>1, <1>2, <1>4, <1>5, <2>2, <2>3 DEF permVars, NoneFalls, OneRises
<1> QED
  BY <1>6, <1>7, <1>8, <1>9 DEF Next, PermStep

LEMMA WithinInvariant == Spec => []Within
<1>1. Init => Within
  BY ChangesLength, EmptySeq DEF Init, Within
<1>2. FileInv /\ PermInv /\ Within /\ [Next]_vars => Within'
  <2>1. Within /\ UNCHANGED vars => Within'
    BY DEF Within, vars, fileVars
  <2> QED
    BY <2>1, StepForward
<1> QED
  BY <1>1, <1>2, FileInvariant, PermInvariant, PTL DEF Spec

(* The stages of the calls and of the replies have a last one, no step     *)
(* takes anyone back, and every step takes someone forward: with finitely  *)
(* many replies the tools, the replies, the stops and the end of the       *)
(* Location take finitely many steps in all (permission.ts,                *)
(* file-mutation.ts), so that what NeverStuck says of the last state is    *)
(* what becomes of every call.                                             *)
THEOREM StepsRunOut == Spec => []StagesBounded /\ [][NoneFalls /\ OneRises]_vars
<1>1. FileInv /\ PermInv /\ Within => StagesBounded
  <2> SUFFICES ASSUME FileInv, PermInv, Within PROVE StagesBounded
    OBVIOUS
  <2>1. \A c \in Call : AskStage(c) \in 0..3 /\ ToolStage(c) \in 0..LastStage(c)
    BY ToolBounded DEF AskStage
  <2>2. ASSUME NEW r \in Client PROVE ReplyStage(r) \in 0..(4 + Cardinality(Call))
    <3>1. /\ Cardinality(replies[r].seen) \in Nat /\ Cardinality(Call) \in Nat
          /\ Cardinality(replies[r].seen) <= Cardinality(Call)
      BY SeenCounts DEF PermInv, PermTypeOK, ReplyState
    <3> QED
      BY <3>1 DEF ReplyStage
  <2> QED
    BY <2>1, <2>2 DEF StagesBounded
<1>2. FileInv /\ PermInv /\ Within /\ [Next]_vars => [NoneFalls /\ OneRises]_vars
  BY StepForward
<1> QED
  BY <1>1, <1>2, FileInvariant, PermInvariant, WithinInvariant, PTL DEF Spec
=============================================================================
