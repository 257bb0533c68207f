\* One of two tools dies.
SPECIFICATION Spec
CONSTANTS
  Call = {c1, c2}
  NoCall = NoCall
  Failures = {}
  LastStep = {FALSE}
SYMMETRY Symmetry
INVARIANTS
  SettlementsAwaited
