----------------------------- MODULE MCLifecycle -----------------------------
(* Instances of Lifecycle for TLC: commands one at a time, or overlapping. *)
EXTENDS Lifecycle, TLC

CONSTANTS p1, p2, c1, c2, none

OneProc == {p1}
TwoProcs == {p1, p2}
TwoContents == {c1, c2}
OneContent == {c1}
SelectorContents == {c2}
NoContents == {}

EveryCommand == AllCommands
EveryFault == FaultKinds

Symmetry == Permutations(TwoProcs)
=============================================================================
