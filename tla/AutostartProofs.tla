-------------------------- MODULE AutostartProofs ---------------------------
(***************************************************************************)
(* Theorems about Autostart, for every set of terminals and paths, every   *)
(* number of commands and reboots.                                         *)
(***************************************************************************)
EXTENDS Autostart, TLAPS

Steps == {"idle", "support", "linger", "write", "fill", "reload", "enable", "await",
          "disable", "remove", "forget"}
Kinds == {"none", "enable", "disable"}
Commands == [pc : Steps, kind : Kinds, binary : Binaries \cup {"none"}, alone : BOOLEAN]

-----------------------------------------------------------------------------
(* What is so in every reachable state, all properties apart. *)

Types ==
  /\ run \in [Procs -> Commands]
  /\ binary \in Binaries /\ linger \in BOOLEAN /\ wanted \in BOOLEAN
  /\ raced \in BOOLEAN /\ misjudged \in BOOLEAN

\* A command that believes it is alone is; nothing is told next to a command.
Solitude ==
  /\ \A p \in Procs : run[p].pc # "idle" /\ run[p].alone => Alone(p)
  /\ told # "nothing" => \A p \in Procs : run[p].pc = "idle"
  /\ \A p \in Procs : run[p].pc # "idle" /\ ~raced => Alone(p)

\* A command at one of its own steps knows which it is and where mullgate is.
Kept ==
  \A p \in Procs :
    run[p].pc \in {"linger", "write", "fill", "reload", "enable"} =>
      run[p].kind = "enable" /\ run[p].binary \in Binaries

TypeInv == TypeOK /\ Types /\ Solitude /\ Kept

\* Going on to another step, or ending, keeps what is so of the commands.
LEMMA GoKeeps ==
  ASSUME TypeInv, NEW p \in Procs, run[p].pc \notin {"idle", "support"},
         NEW pc \in Steps \ {"idle", "linger"},
         pc \in {"write", "fill", "reload", "enable"} =>
           run[p].pc \in {"linger", "write", "fill", "reload", "enable"},
         Go(p, pc)
  PROVE  /\ run' \in [Procs -> Commands] /\ raced' \in BOOLEAN
         /\ told' \in {"nothing", "failure", "enabled", "disabled"}
         /\ \A q \in Procs : (run'[q].pc = "idle" <=> run'[q].kind = "none")
         /\ Solitude' /\ Kept'
<1>1. /\ run' = [run EXCEPT ![p].pc = pc] /\ told' = told /\ raced' = raced
      /\ run \in [Procs -> Commands] /\ raced \in BOOLEAN
  BY DEF Go, TypeInv, Types
<1>2. /\ run' \in [Procs -> Commands]
      /\ \A q \in Procs \ {p} : run'[q] = run[q]
      /\ run'[p] \in Commands /\ run'[p].pc = pc /\ run'[p].kind = run[p].kind
      /\ run'[p].binary = run[p].binary /\ run'[p].alone = run[p].alone
  BY <1>1 DEF Commands, Steps
<1>3. \A q \in Procs : run'[q].pc = "idle" <=> run[q].pc = "idle"
  BY <1>2
<1>4. Solitude'
  BY <1>1, <1>2, <1>3 DEF Solitude, Alone, TypeInv
<1>5. Kept'
  BY <1>1, <1>2 DEF Kept, TypeInv
<1> QED BY <1>1, <1>2, <1>3, <1>4, <1>5 DEF TypeInv, TypeOK

LEMMA EndKeeps ==
  ASSUME TypeInv, NEW p \in Procs, run[p].pc # "idle",
         NEW report \in {"nothing", "failure", "enabled", "disabled"}, End(p, report)
  PROVE  /\ run' \in [Procs -> Commands] /\ raced' \in BOOLEAN
         /\ told' \in {"nothing", "failure", "enabled", "disabled"}
         /\ \A q \in Procs : (run'[q].pc = "idle" <=> run'[q].kind = "none")
         /\ Solitude' /\ Kept'
<1>1. /\ run' = [run EXCEPT ![p] = Idle] /\ raced' = raced
      /\ told' = IF run[p].alone THEN report ELSE "nothing"
      /\ run \in [Procs -> Commands] /\ raced \in BOOLEAN
  BY DEF End, TypeInv, Types
<1>2. Idle \in Commands BY DEF Idle, Commands, Steps, Kinds
<1>3. /\ run' \in [Procs -> Commands] /\ run'[p] = Idle
      /\ \A q \in Procs \ {p} : run'[q] = run[q]
  BY <1>1, <1>2
<1>4. Solitude'
  BY <1>1, <1>3 DEF Solitude, Alone, TypeInv, Idle
<1>5. Kept'
  BY <1>1, <1>3 DEF Kept, TypeInv, Idle
<1> QED BY <1>1, <1>3, <1>4, <1>5 DEF TypeInv, TypeOK, Idle

LEMMA StepKeepsTypes ==
  ASSUME TypeInv, NEW p \in Procs, Enable(p) \/ Disable(p) \/ Crash(p)
  PROVE  TypeInv'
<1>1. /\ run \in [Procs -> Commands] /\ run[p] \in Commands /\ binary \in Binaries
      /\ linger \in BOOLEAN /\ wanted \in BOOLEAN /\ misjudged \in BOOLEAN
      /\ file \in Units /\ loaded \in Units
      /\ service \in {"inactive", "starting", "waiting", "active"}
      /\ run[p].pc \in {"linger", "write", "fill", "reload", "enable"} =>
           run[p].binary \in Binaries
  BY DEF TypeInv, TypeOK, Types, Kept
<1> SUFFICES /\ run' \in [Procs -> Commands] /\ raced' \in BOOLEAN
             /\ told' \in {"nothing", "failure", "enabled", "disabled"}
             /\ \A q \in Procs : (run'[q].pc = "idle" <=> run'[q].kind = "none")
             /\ Solitude' /\ Kept'
             /\ binary' \in Binaries /\ linger' \in BOOLEAN /\ wanted' \in BOOLEAN
             /\ misjudged' \in BOOLEAN
             /\ file' \in Units /\ loaded' \in Units
             /\ service' \in {"inactive", "starting", "waiting", "active"}
  BY DEF TypeInv, TypeOK, Types
<1> USE DEF Steps, At, Fail, unit, rest
<1>2. CASE EnsureUserLinger(p)
  BY <1>1, <1>2, GoKeeps, EndKeeps DEF EnsureUserLinger, Units
<1>3. CASE TruncateUnit(p)
  BY <1>1, <1>3, GoKeeps, EndKeeps DEF TruncateUnit, Units
<1>4. CASE FillUnit(p)
  BY <1>1, <1>4, GoKeeps, EndKeeps DEF FillUnit, Units
<1>5. CASE DaemonReload(p)
  BY <1>1, <1>5, GoKeeps, EndKeeps DEF DaemonReload, Units
<1>6. CASE EnableNow(p)
  BY <1>1, <1>6, GoKeeps, EndKeeps DEF EnableNow, Units
<1>7. CASE AwaitStart(p)
  BY <1>1, <1>7, GoKeeps, EndKeeps DEF AwaitStart, Units
<1>8. CASE DisableNow(p)
  BY <1>1, <1>8, GoKeeps, EndKeeps DEF DisableNow, FailsPartly, Units
<1>9. CASE RemoveUnit(p)
  BY <1>1, <1>9, GoKeeps, EndKeeps DEF RemoveUnit, Units
<1>10. CASE ForgetUnit(p)
  BY <1>1, <1>10, GoKeeps, EndKeeps DEF ForgetUnit, Units
<1>11. CASE Crash(p)
  BY <1>1, <1>11, EndKeeps DEF Crash
<1> QED BY <1>2, <1>3, <1>4, <1>5, <1>6, <1>7, <1>8, <1>9, <1>10, <1>11 DEF Enable, Disable

LEMMA InitTypes == Init => TypeInv
<1> SUFFICES ASSUME Init PROVE TypeInv
  OBVIOUS
<1>1. Idle \in Commands BY DEF Idle, Commands, Steps, Kinds
<1>2. TypeOK BY DEF Init, TypeOK, Idle, Units
<1>3. Types BY <1>1 DEF Init, Types
<1>4. Solitude /\ Kept BY DEF Init, Solitude, Alone, Kept, Idle
<1> QED BY <1>2, <1>3, <1>4 DEF TypeInv

LEMMA NextKeepsTypes == TypeInv /\ [Next]_vars => TypeInv'
<1> SUFFICES ASSUME TypeInv, [Next]_vars PROVE TypeInv'
  OBVIOUS
<1>1. /\ run \in [Procs -> Commands] /\ binary \in Binaries
      /\ linger \in BOOLEAN /\ wanted \in BOOLEAN /\ raced \in BOOLEAN
      /\ file \in Units /\ loaded \in Units
      /\ service \in {"inactive", "starting", "waiting", "active"}
      /\ told \in {"nothing", "failure", "enabled", "disabled"}
      /\ \A p \in Procs : (run[p].pc = "idle" <=> run[p].kind = "none")
      /\ Solitude /\ Kept
  BY DEF TypeInv, TypeOK, Types
<1> USE DEF unit, rest, TypeInv, TypeOK, Types
<1>2. ASSUME NEW p \in Procs, Begin(p) PROVE TypeInv'
  <2>1. PICK kind \in {"enable", "disable"} :
          run' = [q \in Procs |->
                    IF q = p
                    THEN [pc |-> "support", kind |-> kind, binary |-> "none", alone |-> Alone(p)]
                    ELSE Disturbed(run[q])]
    BY <1>2 DEF Begin
  <2>2. Alone(p) \in BOOLEAN BY DEF Alone
  <2>3. \A q \in Procs : /\ Disturbed(run[q]) \in Commands
                         /\ Disturbed(run[q]).pc = run[q].pc
                         /\ run[q].pc # "idle" =>
                              /\ Disturbed(run[q]).kind = run[q].kind
                              /\ Disturbed(run[q]).binary = run[q].binary
                              /\ ~Disturbed(run[q]).alone
                         /\ run[q].pc = "idle" => Disturbed(run[q]) = Idle
    BY <1>1 DEF Disturbed, Commands, Steps, Kinds, Idle
  <2>4. run' \in [Procs -> Commands]
    BY <2>1, <2>2, <2>3 DEF Commands, Steps, Kinds
  <2>5. /\ told' = "nothing" /\ raced' = (raced \/ ~Alone(p))
        /\ \A q \in Procs : run'[q].pc = "idle" <=> q # p /\ run[q].pc = "idle"
    BY <1>2, <2>1, <2>3 DEF Begin
  <2>6. Solitude'
    BY <1>1, <2>1, <2>2, <2>3, <2>5 DEF Solitude, Alone
  <2>7. Kept'
    BY <1>1, <2>1, <2>3 DEF Kept, Idle
  <2>8. \A q \in Procs : (run'[q].pc = "idle" <=> run'[q].kind = "none")
    BY <1>1, <2>1, <2>3 DEF Idle
  <2> QED BY <1>1, <1>2, <2>2, <2>4, <2>5, <2>6, <2>7, <2>8 DEF Begin
<1>3. ASSUME NEW p \in Procs, Support(p) PROVE TypeInv'
  <2>1. CASE Fail(p)
    BY <1>1, <1>3, <2>1, EndKeeps DEF Support, Fail
  <2>2. CASE ~Fail(p)
    <3>1. /\ run[p] \in Commands /\ run[p].pc = "support"
          /\ run' = [run EXCEPT ![p].binary = binary,
                                ![p].pc = IF run[p].kind = "enable" THEN "linger" ELSE "disable"]
          /\ told' = told /\ raced' = raced
      BY <1>1, <1>3, <2>2 DEF Support
    <3>2. /\ run' \in [Procs -> Commands]
          /\ \A q \in Procs \ {p} : run'[q] = run[q]
          /\ run'[p].pc = IF run[p].kind = "enable" THEN "linger" ELSE "disable"
          /\ run'[p].kind = run[p].kind /\ run'[p].binary = binary
          /\ run'[p].alone = run[p].alone
      BY <1>1, <3>1 DEF Commands, Steps
    <3>3. Solitude'
      BY <1>1, <3>1, <3>2 DEF Solitude, Alone
    <3>4. Kept'
      BY <1>1, <3>1, <3>2 DEF Kept
    <3> QED BY <1>1, <1>3, <3>1, <3>2, <3>3, <3>4 DEF Support
  <2> QED BY <2>1, <2>2
<1>4. ASSUME NEW p \in Procs, Enable(p) \/ Disable(p) \/ Crash(p) PROVE TypeInv'
  BY <1>4, StepKeepsTypes
<1>5. CASE StartSucceeds \/ StartFails \/ StartAgain
  BY <1>1, <1>5 DEF StartSucceeds, StartFails, StartAgain, Solitude, Alone, Kept
<1>6. CASE Reboot
  BY <1>1, <1>6 DEF Reboot, ManagerBegins, Solitude, Alone, Kept, Idle, Commands, Steps, Kinds
<1>7. CASE Login
  BY <1>1, <1>7 DEF Login, ManagerBegins, Solitude, Alone, Kept
<1>8. CASE Upgrade
  <2>1. \A q \in Procs : /\ Disturbed(run[q]) \in Commands
                         /\ Disturbed(run[q]).pc = run[q].pc
                         /\ run[q].pc # "idle" =>
                              /\ Disturbed(run[q]).kind = run[q].kind
                              /\ Disturbed(run[q]).binary = run[q].binary
                              /\ ~Disturbed(run[q]).alone
                         /\ run[q].pc = "idle" => Disturbed(run[q]) = Idle
    BY <1>1 DEF Disturbed, Commands, Steps, Kinds, Idle
  <2> QED BY <1>1, <1>8, <2>1 DEF Upgrade, Solitude, Alone, Kept, Idle
<1>9. CASE UNCHANGED vars
  BY <1>1, <1>9 DEF vars, Solitude, Alone, Kept
<1> QED BY <1>2, <1>3, <1>4, <1>5, <1>6, <1>7, <1>8, <1>9 DEF Next

\* Files, units, services, reports and commands are as TypeOK says.
THEOREM TypesInvariant == Spec => []TypeInv
BY InitTypes, NextKeepsTypes, PTL DEF Spec

THEOREM Typed == Spec => []TypeOK
<1>1. TypeInv => TypeOK BY DEF TypeInv
<1> QED BY <1>1, TypesInvariant, PTL

-----------------------------------------------------------------------------
(* What enable has done so far holds while nobody else is at it. *)

\* Lingering is never undone; what a lonely enable wrote, read back and linked
\* is what it wrote, read back and linked.
Done(p) ==
  /\ run[p].pc \in {"write", "fill", "reload", "enable", "await"} => linger
  /\ run[p].alone =>
       /\ run[p].pc \in {"reload", "enable", "await"} => file \in Binaries
       /\ run[p].pc \in {"enable", "await"} => loaded = file
       /\ run[p].pc = "await" => wanted
EnableInv == EnabledMeansRebootStarts /\ \A p \in Procs : Done(p)

\* A disable that nobody disturbs has removed the file when it goes to tell the
\* manager, and what it reported stays so.
Forgotten ==
  /\ \A p \in Procs : run[p].alone /\ run[p].pc = "forget" => file = "absent"
  /\ told = "disabled" => file = "absent" /\ loaded = "absent"

\* While no two commands have overlapped and no failure was misjudged: a unit that is
\* gone is neither linked nor running, and a disable that went on has left nothing
\* linked or running.
NothingLeft ==
  ~raced /\ ~misjudged =>
    /\ file = "absent" => ~wanted /\ service = "inactive"
    /\ \A p \in Procs : run[p].pc \in {"remove", "forget"} => ~wanted /\ service = "inactive"

DisableInv == Forgotten /\ NothingLeft

\* Only p's record changes when p acts, and what was said before is void then.
LEMMA OnlyOwn ==
  ASSUME TypeInv, NEW p \in Procs, run[p].pc # "idle",
         (\E pc \in Steps : Go(p, pc)) \/ (\E report : End(p, report))
  PROVE  /\ \A q \in Procs \ {p} : run'[q] = run[q]
         /\ told = "nothing" /\ raced' = raced
         /\ \A q \in Procs \ {p} : run[q].pc # "idle" => ~run[q].alone /\ raced
<1>1. run \in [Procs -> Commands] /\ Solitude BY DEF TypeInv, Types
<1>2. told = "nothing" BY <1>1 DEF Solitude
<1>3. ASSUME NEW q \in Procs \ {p}, run[q].pc # "idle" PROVE ~run[q].alone /\ raced
  BY <1>1, <1>3 DEF Solitude, Alone
<1>4. CASE \E pc \in Steps : Go(p, pc)
  BY <1>1, <1>2, <1>3, <1>4 DEF Go, Commands
<1>5. CASE \E report : End(p, report)
  BY <1>1, <1>2, <1>3, <1>5 DEF End
<1> QED BY <1>4, <1>5

LEMMA StepKeepsEnable ==
  ASSUME TypeInv, EnableInv, NEW p \in Procs, Enable(p) \/ Disable(p) \/ Crash(p)
  PROVE  EnableInv'
<1>1. /\ run \in [Procs -> Commands] /\ run[p] \in Commands
      /\ \A q \in Procs : run[q].alone \in BOOLEAN
      /\ run[p].pc \in {"linger", "write", "fill", "reload", "enable"} =>
           run[p].binary \in Binaries
  BY DEF TypeInv, Types, Kept, Commands
<1>2. Done(p) BY DEF EnableInv
<1>3. run[p].pc # "idle"
  BY DEF Enable, Disable, Crash, EnsureUserLinger, TruncateUnit, FillUnit, DaemonReload,
         EnableNow, AwaitStart, DisableNow, RemoveUnit, ForgetUnit, At
<1>4. (\E pc \in Steps : Go(p, pc)) \/ (\E report : End(p, report))
  BY DEF Enable, Disable, Crash, EnsureUserLinger, TruncateUnit, FillUnit, DaemonReload,
         EnableNow, AwaitStart, DisableNow, RemoveUnit, ForgetUnit, Fail, Steps
<1>5. /\ \A q \in Procs \ {p} : run'[q] = run[q]
      /\ told = "nothing"
      /\ \A q \in Procs \ {p} : run[q].pc # "idle" => ~run[q].alone
  BY <1>3, <1>4, OnlyOwn
<1>6. linger => linger'
  BY DEF Enable, Disable, Crash, EnsureUserLinger, TruncateUnit, FillUnit, DaemonReload,
         EnableNow, AwaitStart, DisableNow, RemoveUnit, ForgetUnit, rest
<1>7. \A q \in Procs \ {p} : Done(q)'
  BY <1>1, <1>5, <1>6 DEF EnableInv, Done
<1>8. ASSUME NEW pc \in Steps, Go(p, pc)
      PROVE  run'[p].pc = pc /\ run'[p].alone = run[p].alone /\ told' = "nothing"
  BY <1>1, <1>5, <1>8 DEF Go, Commands
<1>9. ASSUME NEW report, End(p, report)
      PROVE  /\ run'[p].pc = "idle"
             /\ told' = "enabled" => run[p].alone /\ report = "enabled"
  BY <1>1, <1>9 DEF End, Idle
<1>10. ASSUME Done(p)', EnabledMeansRebootStarts' PROVE EnableInv'
  BY <1>7, <1>10 DEF EnableInv
<1> USE DEF Done, EnabledMeansRebootStarts, At, Fail, Steps, unit, rest
<1>11. CASE EnsureUserLinger(p)
  BY <1>1, <1>2, <1>8, <1>9, <1>10, <1>11 DEF EnsureUserLinger
<1>12. CASE TruncateUnit(p)
  BY <1>1, <1>2, <1>8, <1>9, <1>10, <1>12 DEF TruncateUnit
<1>13. CASE FillUnit(p)
  BY <1>1, <1>2, <1>8, <1>9, <1>10, <1>13 DEF FillUnit
<1>14. CASE DaemonReload(p)
  BY <1>1, <1>2, <1>8, <1>9, <1>10, <1>14 DEF DaemonReload
<1>15. CASE EnableNow(p)
  BY <1>1, <1>2, <1>8, <1>9, <1>10, <1>15 DEF EnableNow
<1>16. CASE AwaitStart(p)
  BY <1>1, <1>2, <1>8, <1>9, <1>10, <1>16 DEF AwaitStart
<1>17. CASE DisableNow(p)
  BY <1>1, <1>2, <1>8, <1>9, <1>10, <1>17 DEF DisableNow
<1>18. CASE RemoveUnit(p)
  BY <1>1, <1>2, <1>8, <1>9, <1>10, <1>18 DEF RemoveUnit
<1>19. CASE ForgetUnit(p)
  BY <1>1, <1>2, <1>8, <1>9, <1>10, <1>19 DEF ForgetUnit
<1>20. CASE Crash(p)
  BY <1>1, <1>2, <1>8, <1>9, <1>10, <1>20 DEF Crash
<1> QED BY <1>11, <1>12, <1>13, <1>14, <1>15, <1>16, <1>17, <1>18, <1>19, <1>20 DEF Enable, Disable

\* A command that begins, or an upgrade, leaves nobody else alone.
LEMMA DisturbedIs ==
  ASSUME TypeInv, NEW q \in Procs
  PROVE  /\ Disturbed(run[q]).pc = run[q].pc
         /\ run[q].pc # "idle" => ~Disturbed(run[q]).alone
BY DEF TypeInv, Types, Disturbed, Commands, Idle

LEMMA NextKeepsEnable == TypeInv /\ EnableInv /\ [Next]_vars => EnableInv'
<1> SUFFICES ASSUME TypeInv, EnableInv, [Next]_vars PROVE EnableInv'
  OBVIOUS
<1>1. /\ run \in [Procs -> Commands] /\ linger \in BOOLEAN
      /\ EnabledMeansRebootStarts /\ \A p \in Procs : Done(p)
  BY DEF TypeInv, Types, EnableInv
<1> USE DEF EnableInv, EnabledMeansRebootStarts, Done, unit, rest
<1>2. ASSUME NEW p \in Procs, Begin(p) PROVE EnableInv'
  <2>1. /\ told' = "nothing" /\ linger' = linger
        /\ run'[p].pc = "support"
        /\ \A q \in Procs \ {p} : run'[q] = Disturbed(run[q])
    BY <1>2 DEF Begin
  <2>2. \A q \in Procs \ {p} : /\ run'[q].pc = run[q].pc
                               /\ run[q].pc # "idle" => ~run'[q].alone
    BY <2>1, DisturbedIs
  <2> QED BY <1>1, <2>1, <2>2
<1>3. ASSUME NEW p \in Procs, Support(p) PROVE EnableInv'
  <2>1. /\ \A q \in Procs \ {p} : run'[q] = run[q]
        /\ run'[p].pc \in {"idle", "linger", "disable"}
        /\ told = "nothing"
        /\ told' # "enabled"
    BY <1>1, <1>3 DEF Support, Fail, End, Idle, Commands, TypeInv, Solitude
  <2> QED BY <1>1, <1>3, <2>1 DEF Support
<1>4. ASSUME NEW p \in Procs, Enable(p) \/ Disable(p) \/ Crash(p) PROVE EnableInv'
  BY <1>4, StepKeepsEnable
<1>5. CASE StartSucceeds \/ StartFails \/ StartAgain
  BY <1>1, <1>5 DEF StartSucceeds, StartFails, StartAgain
<1>6. CASE Reboot
  BY <1>1, <1>6 DEF Reboot, ManagerBegins, Idle
<1>7. CASE Login
  <2>1. file' = file /\ linger' = linger /\ wanted' = wanted /\ run' = run /\ told' = told
        /\ (loaded' = loaded \/ loaded' = file)
    BY <1>7 DEF Login, ManagerBegins
  <2> QED BY <1>1, <2>1
<1>8. CASE Upgrade
  <2>1. \A q \in Procs : /\ run'[q].pc = run[q].pc
                         /\ run[q].pc # "idle" => ~run'[q].alone
    BY <1>1, <1>8, DisturbedIs DEF Upgrade
  <2> QED BY <1>1, <1>8, <2>1 DEF Upgrade
<1>9. CASE UNCHANGED vars
  BY <1>1, <1>9 DEF vars
<1> QED BY <1>2, <1>3, <1>4, <1>5, <1>6, <1>7, <1>8, <1>9 DEF Next

\* "service: enabled and started" holds through the next boot, whatever failed,
\* crashed or overlapped before.
THEOREM EnabledStartsAtBoot == Spec => []EnabledMeansRebootStarts
<1>1. Init => EnableInv
  BY DEF Init, EnableInv, EnabledMeansRebootStarts, Done, Idle
<1>2. EnableInv => EnabledMeansRebootStarts BY DEF EnableInv
<1> QED BY <1>1, <1>2, NextKeepsEnable, TypesInvariant, PTL DEF Spec

-----------------------------------------------------------------------------
(* What disable leaves. *)

LEMMA StepKeepsDisable ==
  ASSUME TypeInv, DisableInv, NEW p \in Procs, Enable(p) \/ Disable(p) \/ Crash(p)
  PROVE  DisableInv'
<1>1. /\ run \in [Procs -> Commands] /\ run[p] \in Commands
      /\ run[p].pc \in {"linger", "write", "fill", "reload", "enable"} =>
           run[p].binary \in Binaries
  BY DEF TypeInv, Types, Kept
<1>2. run[p].pc # "idle"
  BY DEF Enable, Disable, Crash, EnsureUserLinger, TruncateUnit, FillUnit, DaemonReload,
         EnableNow, AwaitStart, DisableNow, RemoveUnit, ForgetUnit, At
<1>3. (\E pc \in Steps : Go(p, pc)) \/ (\E report : End(p, report))
  BY DEF Enable, Disable, Crash, EnsureUserLinger, TruncateUnit, FillUnit, DaemonReload,
         EnableNow, AwaitStart, DisableNow, RemoveUnit, ForgetUnit, Fail, Steps
<1>4. /\ \A q \in Procs \ {p} : run'[q] = run[q]
      /\ told = "nothing" /\ raced' = raced
      /\ \A q \in Procs \ {p} : run[q].pc # "idle" => ~run[q].alone /\ raced
  BY <1>2, <1>3, OnlyOwn
<1> DEFINE Clean == ~raced /\ ~misjudged
<1>5. /\ run[p].alone /\ run[p].pc = "forget" => file = "absent"
      /\ Clean /\ file = "absent" => ~wanted /\ service = "inactive"
      /\ Clean /\ run[p].pc \in {"remove", "forget"} => ~wanted /\ service = "inactive"
  BY DEF DisableInv, Forgotten, NothingLeft
<1>6. ASSUME NEW pc \in Steps, Go(p, pc)
      PROVE  run'[p].pc = pc /\ run'[p].alone = run[p].alone /\ told' = "nothing"
  BY <1>1, <1>4, <1>6 DEF Go, Commands
<1>7. ASSUME NEW report, End(p, report)
      PROVE  /\ run'[p].pc = "idle"
             /\ told' \in {"nothing", report}
             /\ told' # "nothing" => run[p].alone
  BY <1>1, <1>7 DEF End, Idle
<1>8. "absent" \notin Binaries BY BinariesArePaths
<1>9. ASSUME Clean' /\ file' = "absent" => ~wanted' /\ service' = "inactive",
             Clean' /\ run'[p].pc \in {"remove", "forget"} => ~wanted' /\ service' = "inactive",
             run'[p].alone /\ run'[p].pc = "forget" => file' = "absent",
             told' = "disabled" => file' = "absent" /\ loaded' = "absent"
      PROVE  DisableInv'
  <2>1. ASSUME Clean', NEW q \in Procs, run'[q].pc \in {"remove", "forget"}
        PROVE  ~wanted' /\ service' = "inactive"
    <3>1. CASE q = p BY <1>9, <2>1, <3>1
    <3>2. CASE q # p BY <1>4, <2>1, <3>2
    <3> QED BY <3>1, <3>2
  <2>2. ASSUME NEW q \in Procs, run'[q].alone, run'[q].pc = "forget" PROVE file' = "absent"
    <3>1. CASE q = p BY <1>9, <2>2, <3>1
    <3>2. CASE q # p BY <1>4, <2>2, <3>2
    <3> QED BY <3>1, <3>2
  <2> QED BY <1>9, <2>1, <2>2 DEF DisableInv, Forgotten, NothingLeft
<1> USE DEF At, Fail, Steps, unit, rest
<1>10. CASE EnsureUserLinger(p)
  BY <1>1, <1>4, <1>5, <1>6, <1>7, <1>8, <1>9, <1>10 DEF EnsureUserLinger
<1>11. CASE TruncateUnit(p)
  BY <1>1, <1>4, <1>5, <1>6, <1>7, <1>8, <1>9, <1>11 DEF TruncateUnit
<1>12. CASE FillUnit(p)
  BY <1>1, <1>4, <1>5, <1>6, <1>7, <1>8, <1>9, <1>12 DEF FillUnit
<1>13. CASE DaemonReload(p)
  BY <1>1, <1>4, <1>5, <1>6, <1>7, <1>8, <1>9, <1>13 DEF DaemonReload
<1>14. CASE EnableNow(p)
  BY <1>1, <1>4, <1>5, <1>6, <1>7, <1>8, <1>9, <1>14 DEF EnableNow
<1>15. CASE AwaitStart(p)
  BY <1>1, <1>4, <1>5, <1>6, <1>7, <1>8, <1>9, <1>15 DEF AwaitStart
<1>16. CASE DisableNow(p)
  <2>1. run[p].pc = "disable" /\ file' = file BY <1>16 DEF DisableNow
  <2>2. CASE wanted' = FALSE /\ service' = "inactive" /\ misjudged' = FALSE /\ Go(p, "remove")
    BY <1>4, <1>6, <1>9, <2>2
  <2>3. CASE FailsPartly /\ misjudged' = (misjudged \/ file # "absent") /\ Go(p, "remove")
    <3>1. run'[p].pc = "remove" /\ told' = "nothing" BY <1>6, <2>3
    <3>2. Clean' => Clean /\ file = "absent" BY <1>4, <2>3
    <3>3. Clean' => ~wanted' /\ service' = "inactive" BY <1>5, <2>3, <3>2 DEF FailsPartly
    <3> QED BY <1>9, <3>1, <3>3
  <2>4. CASE FailsPartly /\ Fail(p) /\ UNCHANGED misjudged
    <3>1. run'[p].pc = "idle" /\ told' \in {"nothing", "failure"} BY <1>7, <2>4
    <3>2. Clean' /\ file' = "absent" => ~wanted' /\ service' = "inactive"
      BY <1>4, <1>5, <2>1, <2>4 DEF FailsPartly
    <3> QED BY <1>9, <3>1, <3>2
  <2> QED BY <1>16, <2>2, <2>3, <2>4, Zenon DEF DisableNow
<1>17. CASE RemoveUnit(p)
  BY <1>1, <1>4, <1>5, <1>6, <1>7, <1>8, <1>9, <1>17 DEF RemoveUnit
<1>18. CASE ForgetUnit(p)
  BY <1>1, <1>4, <1>5, <1>6, <1>7, <1>8, <1>9, <1>18 DEF ForgetUnit
<1>19. CASE Crash(p)
  BY <1>1, <1>4, <1>5, <1>6, <1>7, <1>8, <1>9, <1>19 DEF Crash
<1> QED BY <1>10, <1>11, <1>12, <1>13, <1>14, <1>15, <1>16, <1>17, <1>18, <1>19 DEF Enable, Disable

LEMMA NextKeepsDisable == TypeInv /\ DisableInv /\ [Next]_vars => DisableInv'
<1> SUFFICES ASSUME TypeInv, DisableInv, [Next]_vars PROVE DisableInv'
  OBVIOUS
<1>1. run \in [Procs -> Commands]
  BY DEF TypeInv, Types
<1> USE DEF DisableInv, Forgotten, NothingLeft, unit, rest
<1>2. ASSUME NEW p \in Procs, Begin(p) PROVE DisableInv'
  <2>1. /\ told' = "nothing" /\ raced' = (raced \/ ~Alone(p)) /\ UNCHANGED <<unit, misjudged>>
        /\ run'[p].pc = "support"
        /\ \A q \in Procs \ {p} : run'[q] = Disturbed(run[q])
    BY <1>2 DEF Begin
  <2>2. \A q \in Procs \ {p} : /\ run'[q].pc = run[q].pc
                               /\ run[q].pc # "idle" => ~run'[q].alone
    BY <2>1, DisturbedIs
  <2> QED BY <2>1, <2>2
<1>3. ASSUME NEW p \in Procs, Support(p) PROVE DisableInv'
  <2>1. /\ \A q \in Procs \ {p} : run'[q] = run[q]
        /\ run'[p].pc \in {"idle", "linger", "disable"}
        /\ told' # "disabled" /\ raced' = raced
    BY <1>1, <1>3 DEF Support, Fail, End, Idle, Commands, TypeInv, Solitude
  <2> QED BY <1>3, <2>1 DEF Support
<1>4. ASSUME NEW p \in Procs, Enable(p) \/ Disable(p) \/ Crash(p) PROVE DisableInv'
  BY <1>4, StepKeepsDisable
<1>5. CASE StartSucceeds \/ StartFails \/ StartAgain
  BY <1>5 DEF StartSucceeds, StartFails, StartAgain
<1>6. CASE Reboot
  <2>1. \A q \in Procs : run'[q].pc = "idle"
    BY <1>6 DEF Reboot, Idle
  <2>2. /\ raced' = raced /\ misjudged' = misjudged /\ file' = file /\ wanted' = wanted
        /\ told' = "disabled" => told = "disabled"
        /\ loaded' \in {loaded, file}
        /\ ~wanted => service' = "inactive"
    BY <1>6 DEF Reboot, ManagerBegins
  <2> QED BY <2>1, <2>2
<1>7. CASE Login
  <2>1. /\ raced' = raced /\ misjudged' = misjudged /\ file' = file /\ wanted' = wanted
        /\ run' = run /\ told' = told
        /\ loaded' \in {loaded, file}
        /\ ~wanted => service' \in {service, "inactive"}
    BY <1>7 DEF Login, ManagerBegins
  <2> QED BY <2>1
<1>8. CASE Upgrade
  <2>1. \A q \in Procs : /\ run'[q].pc = run[q].pc
                         /\ run[q].pc # "idle" => ~run'[q].alone
    BY <1>1, <1>8, DisturbedIs DEF Upgrade
  <2> QED BY <1>8, <2>1 DEF Upgrade
<1>9. CASE UNCHANGED vars
  BY <1>9 DEF vars
<1> QED BY <1>2, <1>3, <1>4, <1>5, <1>6, <1>7, <1>8, <1>9 DEF Next

\* After "service: stopped and removed" no boot starts mullgate, whatever overlapped
\* or was misjudged; and a link or a service is only left where something was.
THEOREM DisabledStaysAway == Spec => []DisabledStaysDown
<1>1. Init => DisableInv
  BY DEF Init, DisableInv, Forgotten, NothingLeft, Idle
<1>2. DisableInv => DisabledStaysDown
  BY DEF DisableInv, Forgotten, NothingLeft, DisabledStaysDown
<1> QED BY <1>1, <1>2, NextKeepsDisable, TypesInvariant, PTL DEF Spec
=============================================================================
