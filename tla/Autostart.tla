----------------------------- MODULE Autostart ------------------------------
(***************************************************************************)
(* mullgate proxy autostart enable and disable (src/commands/autostart.ts) *)
(* with what they work through: the unit file, the systemd user manager,   *)
(* lingering, and the oneshot service whose start is `mullgate proxy       *)
(* start`.  A step may fail or the command die after any of them, two      *)
(* terminals may run it at once, and the machine may reboot between steps. *)
(* `autostart status` reads and is left out.                               *)
(***************************************************************************)
EXTENDS Naturals, FiniteSets

CONSTANTS
  Procs,          \* terminals
  Binaries,       \* paths under which mullgate may be installed
  MaxCommands,    \* bound: commands given in all
  MaxBoots        \* bound: reboots

\* No path is taken for a file that is not there, or not whole.
ASSUME BinariesArePaths == Binaries \cap {"absent", "torn"} = {}

VARIABLES
  binary,         \* where mullgate is installed now
  linger,         \* the user lingers: the manager runs without a session
  session,        \* the operator is logged in
  file,           \* the unit file: "absent", "torn" or the binary it starts
  loaded,         \* the unit as the manager last read it
  wanted,         \* the unit is linked into default.target
  service,        \* "inactive", "starting", "waiting" for a retry, "active", "failed"
  run,            \* run[p]: the command p runs
  told,           \* what the last command reported, while nothing else happened
  raced,          \* two commands have overlapped
  misjudged,      \* a failing disable --now was passed over, and none has worked since
  given, boots

unit == <<file, loaded, wanted, service>>
rest == <<binary, linger, session, boots, misjudged>>
vars == <<binary, linger, session, file, loaded, wanted, service, run, told, raced, misjudged,
          given, boots>>

Idle == [pc |-> "idle", kind |-> "none", binary |-> "none", alone |-> TRUE]

Init ==
  /\ binary \in Binaries /\ linger \in BOOLEAN /\ session = TRUE
  /\ file = "absent" /\ loaded = "absent" /\ wanted = FALSE /\ service = "inactive"
  /\ run = [p \in Procs |-> Idle] /\ told = "nothing" /\ raced = FALSE
  /\ misjudged = FALSE
  /\ given = 0 /\ boots = 0

Alone(p) == \A q \in Procs \ {p} : run[q].pc = "idle"
At(p, kind, pc) == run[p].kind = kind /\ run[p].pc = pc
Go(p, pc) == run' = [run EXCEPT ![p].pc = pc] /\ UNCHANGED <<told, raced, given>>
\* The command ends and reports; what it says counts if nobody else was at it.
End(p, report) ==
  /\ run' = [run EXCEPT ![p] = Idle]
  /\ told' = IF run[p].alone THEN report ELSE "nothing"
  /\ UNCHANGED <<raced, given>>
Fail(p) == End(p, "failure")

Disturbed(r) == IF r.pc = "idle" THEN Idle ELSE [r EXCEPT !.alone = FALSE]

-----------------------------------------------------------------------------
(* resolveAutostartSupport: not Linux, no systemctl, no binary, no user    *)
(* name end the command before anything is touched.                        *)

Begin(p) ==
  /\ session /\ run[p].pc = "idle" /\ given < MaxCommands
  /\ \E kind \in {"enable", "disable"} :
       run' = [q \in Procs |->
         IF q = p THEN [pc |-> "support", kind |-> kind, binary |-> "none", alone |-> Alone(p)]
         ELSE Disturbed(run[q])]
  /\ given' = given + 1 /\ told' = "nothing" /\ raced' = (raced \/ ~Alone(p))
  /\ UNCHANGED <<unit, rest>>

Support(p) ==
  /\ run[p].pc = "support"
  /\ \/ Fail(p)
     \/ /\ run' = [run EXCEPT ![p].binary = binary,
                              ![p].pc = IF run[p].kind = "enable" THEN "linger" ELSE "disable"]
        /\ UNCHANGED <<told, raced, given>>
  /\ UNCHANGED <<unit, rest>>

-----------------------------------------------------------------------------
(* enable: linger, write in place, daemon-reload, enable --now.            *)

\* Slip: without loginctl autostart is enabled all the same.
LingerOptional(p) ==
  /\ At(p, "enable", "linger")
  /\ linger' \in {linger, TRUE}
  /\ Go(p, "write")
  /\ UNCHANGED <<unit, binary, session, boots, misjudged>>

\* No loginctl, or enable-linger fails: the command ends.  A query that fails
\* reads "unknown", and linger is enabled once more.
EnsureUserLinger(p) ==
  /\ At(p, "enable", "linger")
  /\ \/ linger' = TRUE /\ Go(p, "write")
     \/ Fail(p) /\ UNCHANGED linger
  /\ UNCHANGED <<unit, binary, session, boots, misjudged>>

\* writeFile truncates, then fills.
TruncateUnit(p) ==
  /\ At(p, "enable", "write")
  /\ \/ file' = "torn" /\ Go(p, "fill")
     \/ Fail(p) /\ UNCHANGED file
  /\ UNCHANGED <<loaded, wanted, service, rest>>

FillUnit(p) ==
  /\ At(p, "enable", "fill")
  /\ \/ file' = run[p].binary /\ Go(p, "reload")
     \/ Fail(p) /\ UNCHANGED file
  /\ UNCHANGED <<loaded, wanted, service, rest>>

DaemonReload(p) ==
  /\ At(p, "enable", "reload")
  /\ \/ loaded' = file /\ Go(p, "enable")
     \/ Fail(p) /\ UNCHANGED loaded
  /\ UNCHANGED <<file, wanted, service, rest>>

\* The link is made, and the service started unless it is active; its start
\* is waited for.
EnableNow(p) ==
  /\ At(p, "enable", "enable")
  /\ \/ Fail(p) /\ UNCHANGED <<wanted, service>>
     \/ /\ file \in Binaries /\ loaded \in Binaries
        /\ wanted' = TRUE
        /\ IF service = "active" THEN End(p, "enabled") /\ UNCHANGED service
           ELSE service' = "starting" /\ Go(p, "await")
  /\ UNCHANGED <<file, loaded, rest>>

\* `mullgate proxy start` failed, or the service was stopped: enable --now
\* fails, with the link made and the service still to be retried.
AwaitStart(p) ==
  /\ At(p, "enable", "await") /\ service # "starting"
  /\ IF service = "active" THEN End(p, "enabled") ELSE Fail(p)
  /\ UNCHANGED <<unit, rest>>

-----------------------------------------------------------------------------
(* disable: disable --now, remove the file, daemon-reload.                 *)

\* disable --now takes away the link of a unit that has a file, then stops the
\* service.  A failure may come before either or between the two.
FailsPartly ==
  /\ UNCHANGED wanted \/ (file # "absent" /\ wanted' = FALSE)
  /\ UNCHANGED service

\* A failure whose text has one of the words isBenignDisableResult looks for is taken
\* for a unit that is gone.  Where there is no file, that is what it says; but any
\* other failure may have them too ("Failed to connect to bus: No such file or
\* directory"), with the unit as it was.
DisableNow(p) ==
  /\ At(p, "disable", "disable")
  /\ \/ /\ file # "absent" /\ wanted' = FALSE /\ service' = "inactive"
        /\ misjudged' = FALSE /\ Go(p, "remove")
     \/ /\ FailsPartly
        /\ misjudged' = (misjudged \/ file # "absent") /\ Go(p, "remove")
     \/ FailsPartly /\ Fail(p) /\ UNCHANGED misjudged
  /\ UNCHANGED <<file, loaded, binary, linger, session, boots>>

RemoveUnit(p) ==
  /\ At(p, "disable", "remove")
  /\ \/ file' = "absent" /\ Go(p, "forget")
     \/ Fail(p) /\ UNCHANGED file
  /\ UNCHANGED <<loaded, wanted, service, rest>>

\* Slip: whether the manager was reached is not looked at.
ReloadUnchecked(p) ==
  /\ At(p, "disable", "forget")
  /\ loaded' \in {loaded, file} /\ End(p, "disabled")
  /\ UNCHANGED <<file, wanted, service, rest>>

ForgetUnit(p) ==
  /\ At(p, "disable", "forget")
  /\ \/ loaded' = file /\ End(p, "disabled")
     \/ Fail(p) /\ UNCHANGED loaded
  /\ UNCHANGED <<file, wanted, service, rest>>

-----------------------------------------------------------------------------
(* The unit: Type=oneshot, RemainAfterExit=yes, Restart=on-failure.        *)

\* proxy start may fail; it does not start at all from a path that is gone.  One
\* that was started goes on when its unit is forgotten, but is not started again.
StartSucceeds ==
  /\ service = "starting" /\ loaded \in {binary, "absent"} /\ service' = "active"
  /\ UNCHANGED <<file, loaded, wanted, rest, run, told, raced, given>>

\* Slip: Restart=on-failure is not in the unit.
FailsForGood ==
  /\ service = "starting" /\ service' = "failed"
  /\ UNCHANGED <<file, loaded, wanted, rest, run, told, raced, given>>

StartFails ==
  /\ service = "starting" /\ service' = "waiting"
  /\ UNCHANGED <<file, loaded, wanted, rest, run, told, raced, given>>

\* Slip: a failed start is not tried again.
GivenUp ==
  /\ service = "waiting" /\ service' = "inactive"
  /\ UNCHANGED <<file, loaded, wanted, rest, run, told, raced, given>>

\* RestartSec=15: too slow for the manager's limit on starts ever to be met.
StartAgain ==
  /\ service = "waiting"
  /\ service' = IF loaded = "absent" THEN "inactive" ELSE "starting"
  /\ UNCHANGED <<file, loaded, wanted, rest, run, told, raced, given>>

\* The manager begins: it reads the units and starts those that are wanted.
ManagerBegins == /\ loaded' = file
                 /\ service' = IF wanted /\ file \in Binaries THEN "starting" ELSE "inactive"

\* Commands that were running are gone.
Reboot ==
  /\ boots < MaxBoots /\ boots' = boots + 1
  /\ session' = FALSE
  /\ IF linger THEN ManagerBegins ELSE service' = "inactive" /\ UNCHANGED loaded
  /\ run' = [p \in Procs |-> Idle]
  /\ told' = IF \E p \in Procs : run[p].pc # "idle" THEN "nothing" ELSE told
  /\ UNCHANGED <<binary, linger, file, wanted, raced, misjudged, given>>

Login ==
  /\ ~session /\ session' = TRUE
  /\ IF linger THEN UNCHANGED <<loaded, service>> ELSE ManagerBegins
  /\ UNCHANGED <<binary, linger, file, wanted, run, told, raced, misjudged, given, boots>>

\* A release is installed elsewhere; the unit goes on naming the old path.
Upgrade ==
  /\ session /\ boots < MaxBoots
  /\ binary' \in Binaries \ {binary} /\ told' = "nothing"
  /\ boots' = boots + 1
  /\ run' = [p \in Procs |-> Disturbed(run[p])]
  /\ UNCHANGED <<unit, linger, session, raced, misjudged, given>>

Crash(p) == run[p].pc # "idle" /\ End(p, "nothing") /\ UNCHANGED <<unit, rest>>

Enable(p) == \/ EnsureUserLinger(p) \/ TruncateUnit(p) \/ FillUnit(p) \/ DaemonReload(p)
             \/ EnableNow(p) \/ AwaitStart(p)
Disable(p) == DisableNow(p) \/ RemoveUnit(p) \/ ForgetUnit(p)

Next ==
  \/ \E p \in Procs : Begin(p) \/ Support(p) \/ Enable(p) \/ Disable(p) \/ Crash(p)
  \/ StartSucceeds \/ StartFails \/ StartAgain \/ Reboot \/ Login \/ Upgrade

\* The manager retries; a start that is tried for ever does not fail for ever.
Spec == Init /\ [][Next]_vars /\ WF_vars(StartAgain) /\ SF_vars(StartSucceeds)

-----------------------------------------------------------------------------
(* Properties. *)

Units == {"absent", "torn"} \cup Binaries

\* Files and units are absent, torn or whole; no service is given up; a command
\* that runs is one of the two.
TypeOK ==
  /\ file \in Units /\ loaded \in Units
  /\ service \in {"inactive", "starting", "waiting", "active"}
  /\ told \in {"nothing", "failure", "enabled", "disabled"}
  /\ \A p \in Procs : (run[p].pc = "idle" <=> run[p].kind = "none")

\* When enable has said "service: enabled and started", the next boot starts
\* mullgate without a login, whatever failed or crashed before: the user
\* lingers, and the unit is whole, linked, and what the manager has read
\* ("including linger-backed reboot startup",
\* docs/mullgate-docs/content/docs/reference/commands.mdx:36).
EnabledMeansRebootStarts ==
  told = "enabled" => linger /\ wanted /\ file \in Binaries /\ loaded = file

\* When disable has said "service: stopped and removed" (src/commands/autostart.ts:231),
\* no boot starts mullgate any more, whatever failed, crashed, overlapped or was left
\* half done before: the file is gone, and the manager knows.  A link to nothing may be
\* left, or a service that goes on until it ends, and only where commands have
\* overlapped or a disable --now that failed with the unit there was taken for benign
\* (isBenignDisableResult) and none has worked since.
DisabledStaysDown ==
  told = "disabled" =>
    /\ file = "absent" /\ loaded = "absent"
    /\ wanted \/ service # "inactive" => raced \/ misjudged

\* An enabled service that starts, at a boot or a login, becomes active in the
\* end, though `proxy start` may fail any number of times first.
EnabledStarts ==
  (told = "enabled" /\ service \in {"starting", "waiting"}) ~>
    (service = "active" \/ told # "enabled")
=============================================================================
