\* A session that was claimed, and the replay of its former home.
SPECIFICATION Spec
CONSTANTS
  session = session
  other = other
  x1 = x1
  m1 = m1
  m2 = m2
  m3 = m3
  oldHome = oldHome
  newHome = newHome
  Aggregate = {session}
  Id = {x1, m1, m2}
  LocalId = {x1}
  Owner = {oldHome, newHome}
  NoOwner = NoOwner
  Remote <- Moved
  Removable = {}
  Fiber = {f1}
  Reader = {}
  Follows <- FollowSession
SYMMETRY Symmetry
PROPERTIES
  FencedReplayIgnored
