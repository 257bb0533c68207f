\* Two calls, every failure, without symmetry: liveness.
SPECIFICATION FairSpec
CONSTANTS
  Call = {c1, c2}
  NoCall = NoCall
  Failures = {"storage", "publication"}
  LastStep = {FALSE, TRUE}
PROPERTIES
  TurnCompletes
