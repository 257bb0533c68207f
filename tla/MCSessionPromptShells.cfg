\* Two shells: a cancellation that is slow to end takes a newer runner out of
\* the table, and the next prompt runs beside its shell.
SPECIFICATION Spec
CONSTANTS
  Msg = {p1, p2}
  Loop = {p1, p2}
  NoMsg = Nobody
  Nobody = Nobody
  Shell = {s1, s2}
  Canceller = {k1}
  Synthetic = {}
  Leavers = {}
INVARIANT
  OneTurnAtATime
CHECK_DEADLOCK FALSE
