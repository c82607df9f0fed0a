---------------------------- MODULE MCStatusView ----------------------------
(* Instances of StatusView for TLC. *)
EXTENDS StatusView, TLC

CONSTANTS p1, c1, c2, none

OneProc == {p1}
TwoContents == {c1, c2}
NoContents == {}

\* What doctor says rests on the rest: the config alone is never at fault.
AllPass == [shown \in TwoContents \X TwoContents |-> "pass"]
Symmetry == Permutations(TwoContents)
=============================================================================
