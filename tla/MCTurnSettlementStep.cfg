\* A stream that fails after the step has finished.
SPECIFICATION Spec
CONSTANTS
  Call = {c1, c2}
  NoCall = NoCall
  Failures = {}
  LastStep = {FALSE}
SYMMETRY Symmetry
PROPERTIES
  FailedStepStaysFailed
