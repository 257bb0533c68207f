\* Two parallel foreground calls for one child.
SPECIFICATION Spec
CONSTANTS
  root = root
  outer = outer
  inner = inner
  c1 = c1
  c2 = c2
  c3 = c3
  Nobody = Nobody
  Job = {outer, inner}
  Root = root
  Call = {c1, c2, c3}
  Parent <- Nested
  Child <- TwoAndOne
  Foreground = {c1, c2}
  Background = {c3}
  Promotable = {outer}
  Outcome <- Outcomes
  Client = {k1}
CHECK_DEADLOCK FALSE
INVARIANT
  CallsPrompt
