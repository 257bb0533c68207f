\* Nothing fails but what tools and the provider report.
SPECIFICATION Spec
CONSTANTS
  Call = {c1, c2}
  NoCall = NoCall
  Failures = {}
  LastStep = {FALSE}
SYMMETRY Symmetry
INVARIANTS
  SuccessIsRecorded
