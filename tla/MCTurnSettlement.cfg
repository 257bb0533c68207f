\* Three calls; a managed output may fail to be stored; tools are enabled.
SPECIFICATION Spec
CONSTANTS
  Call = {c1, c2, c3}
  NoCall = NoCall
  Failures = {"storage"}
  LastStep = {FALSE}
SYMMETRY Symmetry
INVARIANTS
  RequestHasResults
  NoExecutionOutlivesTurn
  OneSettlementPerCall
  StopSettlesTools
