-------------------------- MODULE MCSessionPrompt --------------------------
EXTENDS SessionPrompt, TLC

\* The user's prompts are only compared for equality.
Prompts == Permutations(Msg \ (Synthetic \cup Leavers))
=============================================================================
