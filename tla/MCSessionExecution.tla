------------------------- MODULE MCSessionExecution -------------------------
EXTENDS SessionExecution, TLC

\* Clients and message IDs are only compared for equality.
ClientsAndMessages == Permutations(Client) \cup Permutations(Msg)
=============================================================================
