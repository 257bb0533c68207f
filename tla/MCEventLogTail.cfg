\* Two publishing fibers, two events, one tail.  No symmetry: liveness.
SPECIFICATION FairSpec
CONSTANTS
  session = session
  other = other
  x1 = x1
  m1 = m1
  m2 = m2
  m3 = m3
  oldHome = oldHome
  newHome = newHome
  Aggregate = {session}
  Id = {x1, x2}
  LocalId = {x1, x2}
  Owner = {}
  NoOwner = NoOwner
  Remote <- Nothing
  Removable = {}
  Fiber = {f1, f2}
  Reader = {t1}
  Follows <- FollowSession
INVARIANTS
  NoMissedCommit
PROPERTIES
  TailInOrder
  TailCatchesUp
