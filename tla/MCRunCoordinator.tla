--------------------------- MODULE MCRunCoordinator -------------------------
(***************************************************************************)
(* Instances of RunCoordinator for TLC.                                    *)
(***************************************************************************)
EXTENDS RunCoordinator, TLC

CallersAndEntries == Permutations(Caller) \cup Permutations(Entry) \cup Permutations(Key)
=============================================================================
