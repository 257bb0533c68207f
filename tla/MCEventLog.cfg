\* Two fibers; the logs of the two homes of a session, which have diverged, and
\* another session that may be removed at any moment.
SPECIFICATION Spec
CONSTANTS
  session = session
  other = other
  x1 = x1
  m1 = m1
  m2 = m2
  m3 = m3
  oldHome = oldHome
  newHome = newHome
  Aggregate = {session, other}
  Id = {x1, m1, m2, m3}
  LocalId = {x1}
  Owner = {oldHome, newHome}
  NoOwner = NoOwner
  Remote <- Moved
  Removable = {other}
  Fiber = {f1, f2}
  Reader = {}
  Follows <- FollowSession
SYMMETRY Symmetry
INVARIANTS
  LogWellFormed
  OneReplayOwner
PROPERTIES
  NotifiedOnce
  LogIsAppendOnly
