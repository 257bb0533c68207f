\* The provider calls tools in a turn that offers none.
SPECIFICATION Spec
CONSTANTS
  Call = {c1, c2}
  NoCall = NoCall
  Failures = {}
  LastStep = {TRUE}
SYMMETRY Symmetry
INVARIANTS
  RequestHasResults
