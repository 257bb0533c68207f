----------------------------- MODULE MCFileEdits -----------------------------
(* e and p ask to edit, w asks to leave the Location's directory: the rule  *)
(* saved for one action does not cover the other.                           *)
EXTENDS FileEdits, TLC

CONSTANTS e, p, w, f, g

ChangesOf == e :> <<[kind |-> "update", file |-> f]>>
          @@ p :> <<[kind |-> "update", file |-> f], [kind |-> "delete", file |-> f],
                    [kind |-> "add", file |-> f]>>
          @@ w :> <<>>

Sessions == e :> 1 @@ p :> 1 @@ w :> 2
Rules == [c \in Call |-> "ask"]
Cover == [c \in Call |-> IF c = w THEN {w} ELSE {e, p}]

\* Replies are told apart by nothing but what they say.
Alike == Permutations(Client)
=============================================================================
