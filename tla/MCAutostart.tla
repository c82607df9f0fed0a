---------------------------- MODULE MCAutostart -----------------------------
(* Instances of Autostart for TLC: two terminals, two places to install.   *)
EXTENDS Autostart

CONSTANTS p1, p2

TwoProcs == {p1, p2}
TwoPlaces == {"/usr/local/bin/mullgate", "/opt/mullgate"}
=============================================================================
