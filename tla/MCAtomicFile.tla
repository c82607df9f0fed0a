----------------------------- MODULE MCAtomicFile -----------------------------
(* Two commands write one file. *)
EXTENDS AtomicFile

CONSTANTS w1, w2, c1, c2, none, half

TwoWriters == {w1, w2}
TwoContents == {c1, c2}
EveryFault == {"error", "crash", "power"}
=============================================================================
