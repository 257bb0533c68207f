\* Three prompts, one of them sent by the program and one whose caller may leave,
\* a shell and a cancellation.
SPECIFICATION LiveSpec
CONSTANTS
  Msg = {p1, p2, p3}
  Loop = {p1, p2, p3}
  NoMsg = Nobody
  Nobody = Nobody
  Shell = {s1}
  Canceller = {k1}
  Synthetic = {p3}
  Leavers = {p2}
INVARIANTS
  OneTurnAtATime
  StopIsFinal
  QueueForgotten
PROPERTIES
  QueueOrder
  FollowupPreempts
  Settles
CHECK_DEADLOCK FALSE
