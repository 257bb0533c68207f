\* One client whose prompts wake the session, one revert at any moment, and
\* liveness: no symmetry.
SPECIFICATION FairSpec
CONSTANTS
  Client = {c1}
  Session = s1
  Msg = {m1, m2}
  NoMsg = NoMsg
  Resumes = {TRUE}
  MaxRevert = 1
INVARIANT
  TranscriptMatchesInbox
PROPERTIES
  QueueOpensInTurn
  PromptServed
