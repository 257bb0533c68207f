\* A revert between the selection and the publication of an input.
SPECIFICATION Spec
CONSTANTS
  Client = {c1}
  Session = s1
  Msg = {m1, m2}
  NoMsg = NoMsg
  Resumes = {FALSE, TRUE}
  MaxRevert = 1
SYMMETRY ClientsAndMessages
PROPERTY
  PromotionConsumesPending
