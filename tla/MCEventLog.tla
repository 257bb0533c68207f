----------------------------- MODULE MCEventLog -----------------------------
EXTENDS EventLog, TLC

CONSTANTS session, other, x1, m1, m2, m3, oldHome, newHome

\* A session that moved: its two homes share the first event, and this process
\* publishes others after it than the old home.  Another session has stayed.
Moved ==
  [o \in Names |->
    [a \in Aggregate |->
      IF a = session THEN IF o = oldHome THEN <<m1, m2>> ELSE IF o = newHome THEN <<m1>> ELSE <<>>
      ELSE IF o = oldHome THEN <<m3>> ELSE <<>>]]

\* Nobody replays.
Nothing == [o \in Names |-> [a \in Aggregate |-> <<>>]]

FollowSession == [t \in Reader |-> session]

Symmetry == Permutations(LocalId) \cup Permutations(Fiber) \cup Permutations(Reader)
=============================================================================
