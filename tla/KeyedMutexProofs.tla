-------------------------- MODULE KeyedMutexProofs --------------------------
(***************************************************************************)
(* Mutual exclusion of KeyedMutex, for any number of fibers, keys and      *)
(* locks.  That two fibers under one key use one lock is inductive only    *)
(* with the count of users: it is what tells Leave that nobody else needs  *)
(* the entry it takes out of the map.                                      *)
(***************************************************************************)
EXTENDS KeyedMutex, FiniteSetTheorems, TLAPS

UsersOf(l) == {f \in Fiber : entry[f] = l}

(* Who uses a lock finds it under its key.                                 *)
Filed == \A f \in Fiber : entry[f] # NoLock => wants[f] \in Key /\ locks[wants[f]] = entry[f]

Counted == \A l \in Lock : users[l] = Cardinality(UsersOf(l))

(* A lock is in the map once.                                              *)
FiledOnce == \A k, m \in Key : locks[k] # NoLock /\ locks[k] = locks[m] => k = m

(* Who has a permit has not left yet.                                      *)
HoldersInside == \A l \in Lock : holder[l] # Nobody => entry[holder[l]] = l

MutexInv == MutexTypeOK /\ Filed /\ Counted /\ FiledOnce /\ EntriesInUse /\ HoldersInside

-----------------------------------------------------------------------------

LEMMA UsersFinite ==
  \A l \in Lock : IsFiniteSet(UsersOf(l)) /\ Cardinality(UsersOf(l)) \in Nat
<1>1. \A l \in Lock : UsersOf(l) \subseteq Fiber
  BY DEF UsersOf
<1> QED
  BY <1>1, MutexConstants, FS_Subset, FS_CardinalityType DEF MutexConstants

(* A fiber is the only user of its lock when the count says so.            *)
LEMMA OnlyUser ==
  ASSUME MutexTypeOK, Counted, NEW f \in Fiber, entry[f] # NoLock, LastUser(f)
  PROVE  \A g \in Fiber : entry[g] = entry[f] => g = f
<1>1. entry[f] \in Lock
  BY DEF MutexTypeOK
<1>2. Cardinality(UsersOf(entry[f])) = 1
  BY <1>1 DEF Counted, LastUser
<1>3. PICK x : UsersOf(entry[f]) = {x}
  BY <1>1, <1>2, UsersFinite, FS_Singleton
<1> QED
  BY <1>3 DEF UsersOf

LEMMA InitMutexInv == MutexInit => MutexInv
<1> SUFFICES ASSUME MutexInit PROVE MutexInv
  OBVIOUS
<1>1. MutexTypeOK
  BY DEF MutexInit, MutexTypeOK
<1>2. \A l \in Lock : UsersOf(l) = {}
  BY MutexConstants DEF MutexInit, UsersOf, MutexConstants
<1>3. Counted
  BY <1>2, FS_EmptySet DEF MutexInit, Counted
<1>4. Filed /\ FiledOnce /\ EntriesInUse /\ HoldersInside
  BY DEF MutexInit, Filed, FiledOnce, EntriesInUse, HoldersInside
<1> QED
  BY <1>1, <1>3, <1>4 DEF MutexInv

LEMMA EnterInv ==
  ASSUME MutexInv, NEW f \in Fiber, NEW k \in Key, Enter(f, k)
  PROVE  MutexInv'
<1> USE DEF MutexInv
<1>1. PICK l \in Found(k) : /\ locks' = [locks EXCEPT ![k] = l]
                            /\ users' = [users EXCEPT ![l] = @ + 1]
                            /\ entry' = [entry EXCEPT ![f] = l]
  BY DEF Enter
<1>2. entry[f] = NoLock /\ wants' = [wants EXCEPT ![f] = k] /\ holder' = holder
  BY DEF Enter
<1>3. l \in Lock /\ (locks[k] = l \/ (locks[k] = NoLock /\ Unreferenced(l)))
  <2>1. CASE locks[k] # NoLock
    BY <2>1 DEF Found, MutexTypeOK
  <2>2. CASE locks[k] = NoLock
    <3>1. New # {} /\ l = CHOOSE x \in New : TRUE
      BY <2>2 DEF Found
    <3>2. l \in New
      BY <3>1
    <3> QED
      BY <2>2, <3>2 DEF New
  <2> QED
    BY <2>1, <2>2
<1>4. l # NoLock
  BY <1>3, MutexConstants DEF MutexConstants
<1>5. MutexTypeOK'
  BY <1>1, <1>2, <1>3 DEF MutexTypeOK
<1>6. Filed'
  <2> SUFFICES ASSUME NEW g \in Fiber, entry'[g] # NoLock
               PROVE  wants'[g] \in Key /\ locks'[wants'[g]] = entry'[g]
    BY DEF Filed
  <2>1. CASE g = f
    BY <2>1, <1>1, <1>2 DEF MutexTypeOK
  <2>2. CASE g # f
    <3>1. entry'[g] = entry[g] /\ wants'[g] = wants[g] /\ wants[g] \in Key /\ locks[wants[g]] = entry[g]
      BY <2>2, <1>1, <1>2 DEF Filed, MutexTypeOK
    <3>2. wants[g] = k => locks[k] = l
      BY <3>1, <1>3
    <3> QED
      BY <3>1, <3>2, <1>1 DEF MutexTypeOK
  <2> QED
    BY <2>1, <2>2
<1>7. Counted'
  <2> SUFFICES ASSUME NEW m \in Lock PROVE users'[m] = Cardinality(UsersOf(m)')
    BY DEF Counted
  <2>1. CASE m = l
    <3>1. UsersOf(m)' = UsersOf(m) \cup {f} /\ f \notin UsersOf(m)
      BY <2>1, <1>1, <1>2, <1>4 DEF UsersOf, MutexTypeOK
    <3>2. Cardinality(UsersOf(m) \cup {f}) = Cardinality(UsersOf(m)) + 1
      BY <3>1, UsersFinite, FS_AddElement
    <3>3. users'[m] = users[m] + 1
      BY <2>1, <1>1 DEF MutexTypeOK
    <3> QED
      BY <3>1, <3>2, <3>3 DEF Counted
  <2>2. CASE m # l
    <3>1. UsersOf(m)' = UsersOf(m)
      BY <2>2, <1>1, <1>2, MutexConstants DEF UsersOf, MutexTypeOK, MutexConstants
    <3> QED
      BY <2>2, <3>1, <1>1 DEF Counted, MutexTypeOK
  <2> QED
    BY <2>1, <2>2
<1>8. FiledOnce'
  BY <1>1, <1>3, <1>4 DEF FiledOnce, Unreferenced, MutexTypeOK
<1>9. EntriesInUse'
  <2> SUFFICES ASSUME NEW m \in Key, locks'[m] # NoLock
               PROVE  \E g \in Fiber : entry'[g] = locks'[m] /\ wants'[g] = m
    BY DEF EntriesInUse
  <2>1. CASE m = k
    BY <2>1, <1>1, <1>2 DEF MutexTypeOK
  <2>2. CASE m # k
    <3>1. PICK g \in Fiber : entry[g] = locks[m] /\ wants[g] = m
      BY <2>2, <1>1 DEF EntriesInUse, MutexTypeOK
    <3>2. g # f
      BY <3>1, <2>2, <1>1, <1>2 DEF MutexTypeOK
    <3> QED
      BY <2>2, <3>1, <3>2, <1>1, <1>2 DEF MutexTypeOK
  <2> QED
    BY <2>1, <2>2
<1>10. HoldersInside'
  <2> SUFFICES ASSUME NEW m \in Lock, holder'[m] # Nobody PROVE entry'[holder'[m]] = m
    BY DEF HoldersInside
  <2>1. holder[m] \in Fiber /\ entry[holder[m]] = m /\ holder'[m] = holder[m]
    BY <1>2 DEF HoldersInside, MutexTypeOK
  <2>2. holder[m] # f
    BY <2>1, <1>2, MutexConstants DEF MutexConstants
  <2> QED
    BY <2>1, <2>2, <1>1 DEF MutexTypeOK
<1> QED
  BY <1>5, <1>6, <1>7, <1>8, <1>9, <1>10

LEMMA AcquireInv ==
  ASSUME MutexInv, NEW f \in Fiber, Acquire(f)
  PROVE  MutexInv'
<1> USE DEF MutexInv, Acquire
<1>1. MutexTypeOK'
  BY DEF MutexTypeOK
<1>2. \A l : UsersOf(l)' = UsersOf(l)
  BY DEF UsersOf
<1>3. Counted'
  BY <1>2 DEF Counted
<1>4. Filed' /\ FiledOnce' /\ EntriesInUse'
  BY DEF Filed, FiledOnce, EntriesInUse
<1>5. HoldersInside'
  BY DEF HoldersInside, MutexTypeOK
<1> QED
  BY <1>1, <1>3, <1>4, <1>5

LEMMA LeaveInv ==
  ASSUME MutexInv, NEW f \in Fiber, Leave(f)
  PROVE  MutexInv'
<1> USE DEF MutexInv
<1> DEFINE l == entry[f]
<1>1. /\ entry[f] # NoLock
      /\ users' = [users EXCEPT ![entry[f]] = @ - 1]
      /\ locks' = IF LastUser(f) THEN [locks EXCEPT ![wants[f]] = NoLock] ELSE locks
      /\ entry' = [entry EXCEPT ![f] = NoLock]
      /\ wants' = [wants EXCEPT ![f] = NoKey]
      /\ holder' = Released(f)
  BY DEF Leave
<1>2. l \in Lock /\ wants[f] \in Key /\ locks[wants[f]] = l
  BY <1>1 DEF Filed, MutexTypeOK
<1>3. f \in UsersOf(l) /\ Cardinality(UsersOf(l)) \in Nat \ {0} /\ users[l] = Cardinality(UsersOf(l))
  <2>1. f \in UsersOf(l)
    BY DEF UsersOf
  <2> QED
    BY <2>1, <1>2, UsersFinite, FS_EmptySet DEF Counted
<1>4. LastUser(f) => \A g \in Fiber : entry[g] = l => g = f
  BY <1>1, OnlyUser
<1>5. MutexTypeOK'
  <2>1. holder' \in [Lock -> Fiber \cup {Nobody}]
    BY <1>1 DEF MutexTypeOK, Released
  <2>2. users' \in [Lock -> Nat]
    <3>1. users[l] - 1 \in Nat
      BY <1>3
    <3> QED
      BY <1>1, <1>2, <3>1 DEF MutexTypeOK
  <2> QED
    BY <1>1, <1>2, <2>1, <2>2 DEF MutexTypeOK
<1>6. Filed'
  <2> SUFFICES ASSUME NEW g \in Fiber, entry'[g] # NoLock
               PROVE  wants'[g] \in Key /\ locks'[wants'[g]] = entry'[g]
    BY DEF Filed
  <2>1. g # f /\ entry'[g] = entry[g] /\ wants'[g] = wants[g]
    BY <1>1 DEF MutexTypeOK
  <2>2. wants[g] \in Key /\ locks[wants[g]] = entry[g]
    BY <2>1 DEF Filed
  <2>3. CASE LastUser(f)
    BY <2>1, <2>2, <2>3, <1>1, <1>2, <1>4 DEF MutexTypeOK
  <2>4. CASE ~LastUser(f)
    BY <2>1, <2>2, <2>4, <1>1
  <2> QED
    BY <2>3, <2>4
<1>7. Counted'
  <2> SUFFICES ASSUME NEW m \in Lock PROVE users'[m] = Cardinality(UsersOf(m)')
    BY DEF Counted
  <2>1. CASE m = l
    <3>1. UsersOf(m)' = UsersOf(m) \ {f}
      BY <2>1, <1>1, <1>2, MutexConstants DEF UsersOf, MutexTypeOK, MutexConstants
    <3> QED
      BY <2>1, <3>1, <1>1, <1>2, <1>3, UsersFinite, FS_RemoveElement DEF MutexTypeOK
  <2>2. CASE m # l
    <3>1. UsersOf(m)' = UsersOf(m)
      BY <2>2, <1>1, MutexConstants DEF UsersOf, MutexTypeOK, MutexConstants
    <3> QED
      BY <2>2, <3>1, <1>1 DEF Counted, MutexTypeOK
  <2> QED
    BY <2>1, <2>2
<1>8. FiledOnce'
  BY <1>1, <1>2 DEF FiledOnce, MutexTypeOK
<1>9. EntriesInUse'
  <2> SUFFICES ASSUME NEW m \in Key, locks'[m] # NoLock
               PROVE  \E g \in Fiber : entry'[g] = locks'[m] /\ wants'[g] = m
    BY DEF EntriesInUse
  <2>1. locks'[m] = locks[m] /\ locks[m] # NoLock
    BY <1>1, <1>2 DEF MutexTypeOK
  <2>2. CASE m = wants[f]
    <3>1. ~LastUser(f)
      BY <2>2, <1>1, <1>2 DEF MutexTypeOK
    <3>2. UsersOf(l) # {f}
      BY <3>1, <1>3, FS_Singleton DEF LastUser
    <3>3. PICK g \in Fiber : g # f /\ entry[g] = l
      BY <3>2, <1>3 DEF UsersOf
    <3>4. wants[g] \in Key /\ locks[wants[g]] = l
      BY <3>3, <1>1 DEF Filed
    <3>5. wants[g] = m
      BY <3>4, <2>2, <1>1, <1>2 DEF FiledOnce
    <3> QED
      BY <2>1, <2>2, <3>3, <3>5, <1>1, <1>2 DEF MutexTypeOK
  <2>3. CASE m # wants[f]
    <3>1. PICK g \in Fiber : entry[g] = locks[m] /\ wants[g] = m
      BY <2>1 DEF EntriesInUse
    <3> QED
      BY <3>1, <2>1, <2>3, <1>1 DEF MutexTypeOK
  <2> QED
    BY <2>2, <2>3
<1>10. HoldersInside'
  <2> SUFFICES ASSUME NEW m \in Lock, holder'[m] # Nobody PROVE entry'[holder'[m]] = m
    BY DEF HoldersInside
  <2>1. holder'[m] = holder[m]
    BY <1>1, <1>2 DEF Released, MutexTypeOK
  <2>2. holder[m] \in Fiber /\ entry[holder[m]] = m
    BY <2>1 DEF HoldersInside, MutexTypeOK
  <2>3. holder[m] # f
    <3> SUFFICES ASSUME holder[m] = f PROVE FALSE
      OBVIOUS
    <3>1. m = l /\ Holds(f)
      BY <2>2, <1>1 DEF Holds
    <3> QED
      BY <2>1, <3>1, <1>1, <1>2, MutexConstants DEF Released, MutexTypeOK, MutexConstants
  <2> QED
    BY <2>1, <2>2, <2>3, <1>1 DEF MutexTypeOK
<1> QED
  BY <1>5, <1>6, <1>7, <1>8, <1>9, <1>10

LEMMA NextMutexInv == MutexInv /\ [MutexNext]_mutexVars => MutexInv'
<1> SUFFICES ASSUME MutexInv, [MutexNext]_mutexVars PROVE MutexInv'
  OBVIOUS
<1>1. ASSUME NEW f \in Fiber, NEW k \in Key, Enter(f, k) PROVE MutexInv'
  BY <1>1, EnterInv
<1>2. ASSUME NEW f \in Fiber, Acquire(f) PROVE MutexInv'
  BY <1>2, AcquireInv
<1>3. ASSUME NEW f \in Fiber, Leave(f) PROVE MutexInv'
  BY <1>3, LeaveInv
<1>4. CASE UNCHANGED mutexVars
  <2>1. \A l : UsersOf(l)' = UsersOf(l)
    BY <1>4 DEF mutexVars, UsersOf
  <2>2. Counted'
    BY <1>4, <2>1 DEF MutexInv, Counted, mutexVars
  <2>3. MutexTypeOK' /\ Filed' /\ FiledOnce' /\ EntriesInUse' /\ HoldersInside'
    BY <1>4 DEF MutexInv, MutexTypeOK, Filed, FiledOnce, EntriesInUse, HoldersInside, mutexVars
  <2> QED
    BY <2>2, <2>3 DEF MutexInv
<1> QED
  BY <1>1, <1>2, <1>3, <1>4 DEF MutexNext

THEOREM MutexInvariant == MutexSpec => []MutexInv
BY InitMutexInv, NextMutexInv, PTL DEF MutexSpec

(* A fiber that asks for a key finds the key's lock or a new one: all the  *)
(* locks cannot be in use by the others, who use one each.                 *)
LEMMA LockForNewcomer ==
  ASSUME MutexInv, NEW f \in Fiber, entry[f] = NoLock, NEW k \in Key
  PROVE  Found(k) # {}
<1>1. CASE locks[k] # NoLock
  BY <1>1 DEF Found
<1>2. CASE locks[k] = NoLock
  <2> SUFFICES ASSUME New = {} PROVE FALSE
    BY <1>2 DEF Found
  <2> DEFINE Others == Fiber \ {f}
             user == [l \in Lock |-> CHOOSE g \in Others : entry[g] = l]
  <2>1. ASSUME NEW l \in Lock PROVE \E g \in Others : entry[g] = l
    <3>1. l # NoLock
      BY MutexConstants DEF MutexConstants
    <3>2. ~Unreferenced(l)
      BY DEF New
    <3>3. PICK g \in Fiber : entry[g] = l
      BY <3>1, <3>2 DEF Unreferenced, MutexInv, EntriesInUse
    <3> QED
      BY <3>1, <3>3
  <2>2. user \in [Lock -> Others] /\ \A l \in Lock : entry[user[l]] = l
    BY <2>1
  <2> HIDE DEF user
  <2>3. user \in Injection(Lock, Others)
    BY <2>2 DEF Injection, IsInjective
  <2>4. IsFiniteSet(Others) /\ Cardinality(Others) = Cardinality(Fiber) - 1
    BY MutexConstants, FS_RemoveElement DEF MutexConstants
  <2>5. IsFiniteSet(Lock) /\ Cardinality(Lock) <= Cardinality(Others)
    BY <2>3, <2>4, FS_Injection
  <2>6. Cardinality(Lock) \in Nat /\ Cardinality(Fiber) \in Nat
    BY <2>5, MutexConstants, FS_CardinalityType DEF MutexConstants
  <2> QED
    BY <2>4, <2>5, <2>6, EnoughLocks DEF EnoughLocks
<1> QED
  BY <1>1, <1>2

(* Two holders under one key use the lock that is filed under it, which    *)
(* has one holder.                                                         *)
LEMMA InvExcludes == MutexInv => MutualExclusion
BY DEF MutexInv, Filed, MutualExclusion, Holds

(* Fibers under one key run one at a time (keyed-mutex.ts, "same key ->    *)
(* queue").                                                                *)
THEOREM MutexExclusion == MutexSpec => []MutualExclusion
BY MutexInvariant, InvExcludes, PTL

(* An entry stays in the map only as long as someone uses it.              *)
THEOREM MutexEntries == MutexSpec => []EntriesInUse
<1>1. MutexInv => EntriesInUse
  BY DEF MutexInv
<1> QED
  BY <1>1, MutexInvariant, PTL
=============================================================================
