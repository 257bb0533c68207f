----------------------------- MODULE KeyedMutex -----------------------------
(***************************************************************************)
(* The in-memory mutex with one lock per key of effect/keyed-mutex.ts.  A  *)
(* lock is an object of its own: the map names the lock a newcomer to a    *)
(* key finds, every fiber keeps the one it found, and the entry of a key   *)
(* is dropped when its count of users is back to zero, so that what must   *)
(* never happen is a second lock for a key while the first is in use.      *)
(***************************************************************************)
EXTENDS Naturals, FiniteSets

CONSTANTS
  Fiber,     \* the fibers that run an effect under a lock
  Key,
  Lock,      \* the lock objects: one nobody refers to any more may be made again
  NoLock,
  NoKey,
  Nobody

ASSUME MutexConstants ==
  /\ IsFiniteSet(Fiber)
  /\ NoLock \notin Lock
  /\ NoKey \notin Key
  /\ Nobody \notin Fiber

(* A new lock can always be made.                                          *)
ASSUME EnoughLocks == IsFiniteSet(Lock) => Cardinality(Lock) >= Cardinality(Fiber)

VARIABLES
  locks,     \* the map: [Key -> the lock of its entry, or NoLock]
  users,     \* [Lock -> the holders and waiters its entry counts]
  holder,    \* [Lock -> the fiber that has its permit]
  entry,     \* [Fiber -> the lock it found, from withLock to its end]
  wants      \* [Fiber -> the key it asked for, NoKey while it asks for none]

mutexVars == <<locks, users, holder, entry, wants>>

MutexTypeOK ==
  /\ locks \in [Key -> Lock \cup {NoLock}]
  /\ users \in [Lock -> Nat]
  /\ holder \in [Lock -> Fiber \cup {Nobody}]
  /\ entry \in [Fiber -> Lock \cup {NoLock}]
  /\ wants \in [Fiber -> Key \cup {NoKey}]

MutexInit ==
  /\ locks = [k \in Key |-> NoLock]
  /\ users = [l \in Lock |-> 0]
  /\ holder = [l \in Lock |-> Nobody]
  /\ entry = [f \in Fiber |-> NoLock]
  /\ wants = [f \in Fiber |-> NoKey]

(***************************************************************************)
(* withLock up to the permit: the lock of the key's entry, or a new one    *)
(* put in the map, and one user more.                                      *)
(***************************************************************************)
Unreferenced(l) == /\ \A k \in Key : locks[k] # l
                   /\ \A f \in Fiber : entry[f] # l

New == {l \in Lock : Unreferenced(l)}

(* Which of the objects that are free is made next makes no difference.    *)
Found(k) == IF locks[k] # NoLock THEN {locks[k]}
            ELSE IF New = {} THEN {} ELSE {CHOOSE l \in New : TRUE}

Enter(f, k) ==
  /\ entry[f] = NoLock
  /\ \E l \in Found(k) :
       /\ locks' = [locks EXCEPT ![k] = l]
       /\ users' = [users EXCEPT ![l] = @ + 1]
       /\ entry' = [entry EXCEPT ![f] = l]
  /\ wants' = [wants EXCEPT ![f] = k]
  /\ UNCHANGED holder

Holds(f) == entry[f] # NoLock /\ holder[entry[f]] = f

(* The semaphore gives its one permit to a fiber that waits for it.        *)
Acquire(f) ==
  /\ entry[f] # NoLock
  /\ holder[entry[f]] = Nobody
  /\ holder' = [holder EXCEPT ![entry[f]] = f]
  /\ UNCHANGED <<locks, users, entry, wants>>

(* What a mutant has of Leave: the entry goes with whoever leaves first.   *)
DropEntry(f) == TRUE

(* The last user of a lock takes the entry of its key out of the map.      *)
LastUser(f) == users[entry[f]] = 1

(* What a mutant has of Released: the permit is not given back.            *)
Kept(f) == holder

Released(f) == IF Holds(f) THEN [holder EXCEPT ![entry[f]] = Nobody] ELSE holder

(***************************************************************************)
(* The end of withLock, of a holder whose effect is over and of a waiter   *)
(* that was interrupted: the permit goes back, one user less.              *)
(***************************************************************************)
Leave(f) ==
  /\ entry[f] # NoLock
  /\ users' = [users EXCEPT ![entry[f]] = @ - 1]
  /\ locks' = IF LastUser(f) THEN [locks EXCEPT ![wants[f]] = NoLock] ELSE locks
  /\ holder' = Released(f)
  /\ entry' = [entry EXCEPT ![f] = NoLock]
  /\ wants' = [wants EXCEPT ![f] = NoKey]

MutexNext == \E f \in Fiber : \/ \E k \in Key : Enter(f, k)
                              \/ Acquire(f)
                              \/ Leave(f)

MutexSpec == MutexInit /\ [][MutexNext]_mutexVars

(***************************************************************************)
(* Two fibers never run under the same key at once (the "same key ->       *)
(* queue" of the comment on makeUnsafe), whatever fibers came, waited,     *)
(* gave up and came back in between.                                       *)
(***************************************************************************)
MutualExclusion ==
  \A f, g \in Fiber : Holds(f) /\ Holds(g) /\ wants[f] = wants[g] => f = g

(* "Entries are removed when no holder or waiter remains": an entry of the *)
(* map has a user, and who uses a lock finds it under its key.             *)
EntriesInUse ==
  \A k \in Key : locks[k] # NoLock => \E f \in Fiber : entry[f] = locks[k] /\ wants[f] = k
=============================================================================
