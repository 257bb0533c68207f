\* A managed output cannot be stored.
SPECIFICATION Spec
CONSTANTS
  Call = {c1, c2}
  NoCall = NoCall
  Failures = {"storage"}
  LastStep = {FALSE}
SYMMETRY Symmetry
INVARIANTS
  RetentionFailureHarmless
