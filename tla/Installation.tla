---------------------------- MODULE Installation -----------------------------
(***************************************************************************)
(* What the commands of one Mullgate installation promise an operator who  *)
(* issues them one at a time: nothing is said of files, of the steps of a  *)
(* command, or of where one may die.  Lifecycle implements it.             *)
(***************************************************************************)

CONSTANTS Contents, Absent

VARIABLES
  wanted, \* the content of config.json
  phase,  \* the runtime status it records
  runs    \* what each container runs

vars == <<wanted, phase, runs>>

Containers == {"entry", "route", "sidecar"}

\* Some containers change, each to a content of S; the others stay as they are.
SomeRun(S) ==
  /\ runs' \in [Containers -> Contents \union {Absent}]
  /\ \A k \in Containers : runs'[k] \in {runs[k]} \union S

Init ==
  /\ wanted = Absent
  /\ phase = "unvalidated"
  /\ runs = [k \in Containers |-> Absent]

\* Nothing but an edit changes the content, and an edit withdraws every claim.
Edit ==
  /\ wanted' \in Contents
  /\ phase' = "unvalidated"
  /\ UNCHANGED runs

\* Validation, a stop or a failure judges the content as it stands.
Judge ==
  /\ phase' \in {"validated", "error"}
  /\ UNCHANGED <<wanted, runs>>

\* A launch is announced before it happens ...
Announce ==
  /\ wanted # Absent
  /\ phase' = "starting"
  /\ UNCHANGED <<wanted, runs>>

\* ... only an announced launch starts containers, on the content wanted ...
Launch ==
  /\ phase = "starting"
  /\ SomeRun({wanted})
  /\ UNCHANGED <<wanted, phase>>

\* ... and it is confirmed only if nothing else runs.
Confirm ==
  /\ phase = "starting"
  /\ \A k \in Containers : runs[k] \in {wanted, Absent}
  /\ phase' = "running"
  /\ UNCHANGED <<wanted, runs>>

\* Containers go away at any time.
Vanish ==
  /\ SomeRun({Absent})
  /\ UNCHANGED <<wanted, phase>>

\* Docker restarts containers that run: on the content wanted while a launch is
\* announced or confirmed, on whatever was rendered last otherwise.
Restart ==
  /\ SomeRun(IF phase \in {"starting", "running"} THEN {wanted} ELSE Contents)
  /\ \A k \in Containers : runs[k] = Absent => runs'[k] = Absent
  /\ UNCHANGED <<wanted, phase>>

Next == Edit \/ Judge \/ Announce \/ Launch \/ Confirm \/ Vanish \/ Restart

Spec == Init /\ [][Next]_vars
=============================================================================
