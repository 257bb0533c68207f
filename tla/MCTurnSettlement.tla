--------------------------- MODULE MCTurnSettlement ---------------------------
\* Two or three tool calls stand for parallel calls of one turn and for calls of
\* successive turns.
EXTENDS TurnSettlement, TLC

Symmetry == Permutations(Call)
=============================================================================
