------------------------- MODULE MCBackgroundTasks -------------------------
EXTENDS BackgroundTasks, TLC

CONSTANTS root, outer, inner, c1, c2, c3

\* Two calls of the root for its child, one of the child for its own.
Nested == outer :> root @@ inner :> outer

TwoAndOne == c1 :> outer @@ c2 :> outer @@ c3 :> inner

Outcomes == c1 :> {"text"} @@ c2 :> {"text", "empty"} @@ c3 :> {"failed"}
=============================================================================
