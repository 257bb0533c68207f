SPECIFICATION Spec
CHECK_DEADLOCK FALSE
SYMMETRY Alike
CONSTANTS
  e = e p = p w = w f = f g = g
  Call = {e, p, w}
  Fiber = {e, p, w}
  Client = {r1, r2}
  SessionOf <- Sessions
  Rule <- Rules
  Covers <- Cover
  Changes <- ChangesOf
  Present = {f}
  Key = {f}
  Lock = {l1, l2, l3}
  NoCall = NoCall
  NoLock = NoLock
  NoKey = NoKey
  Nobody = Nobody
INVARIANTS
  RejectReachesSession OnlyAuthorised MutualExclusion NothingStuck
PROPERTIES
  UpdatesPreserve
