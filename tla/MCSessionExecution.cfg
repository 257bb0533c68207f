\* Two clients, two message IDs: every race of two admissions, no revert.
SPECIFICATION Spec
CONSTANTS
  Client = {c1, c2}
  Session = s1
  Msg = {m1, m2}
  NoMsg = NoMsg
  Resumes = {FALSE, TRUE}
  MaxRevert = 0
SYMMETRY ClientsAndMessages
INVARIANTS
  AdmissionOrderKept
  ExactRetryAccepted
