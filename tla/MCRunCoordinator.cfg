\* One session and two callers; an entry more than there are sessions, for a
\* successor that exists while its predecessor settles.  No symmetry: liveness.
SPECIFICATION FairSpec
CONSTANTS
  Key = {k1}
  Entry = {e1, e2}
  Caller = {c1, c2}
  NoEntry = NoEntry
  NoKey = NoKey
INVARIANTS
  OneDrainPerKey
  WakeRemembered
PROPERTIES
  InterruptIsFinal
  SuccessMeansCaughtUp
  WaitersReleased
  ImplementsSingleFlight
