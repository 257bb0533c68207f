\* A resume registered while an execution is being stopped.
SPECIFICATION Spec
CONSTANTS
  Key = {k1}
  Entry = {e1, e2}
  Caller = {c1, c2}
  NoEntry = NoEntry
  NoKey = NoKey
PROPERTIES
  ResumeSurvivesStop
