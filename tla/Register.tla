------------------------------- MODULE Register -------------------------------
(***************************************************************************)
(* What a file written by writeFileAtomic promises: a register that calls  *)
(* set at one moment between their beginning and their end, and that does  *)
(* not go back behind a call that returned, whatever is lost.              *)
(***************************************************************************)
CONSTANTS Writers, Contents, Absent

VARIABLES
  value,    \* what a reader finds
  pending,  \* the content each call is yet to set, or Absent
  since,    \* what was set since each call set its own, its own included
  kept      \* what a loss may take the register back to

vars == <<value, pending, since, kept>>

Init ==
  /\ value = Absent
  /\ pending = [w \in Writers |-> Absent]
  /\ since = [w \in Writers |-> {}]
  /\ kept = {Absent}

Call(w) ==
  /\ pending[w] = Absent /\ since[w] = {}
  /\ \E c \in Contents : pending' = [pending EXCEPT ![w] = c]
  /\ UNCHANGED <<value, since, kept>>

Set(w) ==
  /\ pending[w] # Absent
  /\ value' = pending[w]
  /\ kept' = kept \union {value'}
  /\ since' = [v \in Writers |->
                 IF v = w THEN {value'}
                 ELSE IF since[v] # {} THEN since[v] \union {value'} ELSE {}]
  /\ pending' = [pending EXCEPT ![w] = Absent]

\* Only a call that set the register returns, and what it set stays or is replaced.
Return(w) ==
  /\ since[w] # {}
  /\ kept' = kept \intersect since[w]
  /\ since' = [since EXCEPT ![w] = {}]
  /\ UNCHANGED <<value, pending>>

\* A call that fails has set the register or not.
Fail(w) ==
  /\ pending' = [pending EXCEPT ![w] = Absent]
  /\ since' = [since EXCEPT ![w] = {}]
  /\ UNCHANGED <<value, kept>>

Lose ==
  /\ value' \in kept
  /\ kept' = {value'}
  /\ pending' = [w \in Writers |-> Absent]
  /\ since' = [w \in Writers |-> {}]

Next == Lose \/ \E w \in Writers : Call(w) \/ Set(w) \/ Return(w) \/ Fail(w)

Spec == Init /\ [][Next]_vars
=============================================================================
