\* The event that settles a call cannot be committed.
SPECIFICATION Spec
CONSTANTS
  Call = {c1, c2}
  NoCall = NoCall
  Failures = {"publication"}
  LastStep = {FALSE}
SYMMETRY Symmetry
INVARIANTS
  RequestHasResults
