------------------------------ MODULE Lifecycle ------------------------------
(***************************************************************************)
(* The life of one Mullgate installation.  Every `mullgate` command is an  *)
(* operating-system process of its own; the commands share, with no lock,  *)
(* the canonical config.json, the files derived from it, the relay cache,  *)
(* two reports, and one Docker Compose project.                            *)
(*                                                                         *)
(* Data is reduced to what the properties tell apart:                      *)
(*  - a content is everything an operator can edit in config.json (routes, *)
(*    credentials, ports, exposure); a derived file is the content it was  *)
(*    rendered from;                                                       *)
(*  - a saved document is a content together with the runtime status phase *)
(*    and the outcome of the last start, which commands write next to it;  *)
(*  - https assets, planning and validation pass or fail freely: a stale   *)
(*    file may well validate, since the Docker checks only start it;       *)
(*  - a validation is one step: it reads, runs its checks and reports;     *)
(*  - a container is the content of the file mounted into it, and there    *)
(*    are three of them, as with the default exit source: a tailscale-exit *)
(*    config runs a sidecar without a mount in place of entry-tunnel.      *)
(*                                                                         *)
(* What may go wrong is chosen by the constant Faults:                     *)
(*   "reject"  https assets are missing, or the planner or the validators  *)
(*             reject what a config asks for;                              *)
(*   "crash"   a command dies between two of its steps;                    *)
(*   "save"    ConfigStore.save throws, before or after its rename;        *)
(*   "write"   writing any other file throws;                              *)
(*   "docker"  docker compose fails, or the host takes the containers down *)
(*             or restarts them.                                           *)
(***************************************************************************)

CONSTANTS
  Procs,          \* the commands that can be running at one moment
  Contents,       \* the contents operators give the config
  InlineSelector, \* the contents whose access mode is inline-selector
  Absent,         \* a file that is not there
  Commands,       \* the commands operators issue
  Faults,         \* what may go wrong
  Overlap         \* may a command begin before the previous one ended?

AllCommands == {"setup", "edit", "validate", "refresh", "export",
                "start", "dryrun", "stop", "restart"}

FaultKinds == {"reject", "crash", "save", "write", "docker"}

ASSUME LifecycleAssumption ==
  /\ InlineSelector \subseteq Contents
  /\ Absent \notin Contents
  /\ Commands \subseteq AllCommands
  /\ Faults \subseteq FaultKinds
  /\ Overlap \in BOOLEAN

VARIABLES
  config,      \* config.json: the saved document
  files,       \* the derived files, by name: the content each was rendered from
  relays,      \* the relay cache, relays.json
  checked,     \* runtime-validation.json: the files the last validation read
  startReport, \* last-start.json
  docker,      \* the Compose project
  proc,        \* the running commands
  saved        \* history: every content config.json ever had

vars == <<config, files, relays, checked, startReport, docker, proc, saved>>

-----------------------------------------------------------------------------
(* Values *)

Phases == {"unvalidated", "validated", "starting", "running", "error"}
Outcomes == {"none", "success", "failure"}
Rendered == Contents \union {Absent}

Document == [content: Rendered, phase: Phases, last: Outcomes]

\* What load() returns while no config.json exists.
Missing == [content |-> Absent, phase |-> "unvalidated", last |-> "none"]

ProxyFiles == {"entry", "route"}                   \* renderRuntimeProxyArtifacts
BundleFiles == {"compose", "sidecar", "manifest"}  \* renderRuntimeBundle
FileNames == ProxyFiles \union BundleFiles
NoFiles == [f \in FileNames |-> Absent]

\* entry-tunnel, route-proxy and routing-layer, named after the file each mounts.
Containers == {"entry", "route", "sidecar"}

CheckReport == [entry: Rendered, route: Rendered, ok: BOOLEAN]
Compose == [state: {"down", "partial", "up"}, runs: [Containers -> Rendered]]
Down == [state |-> "down", runs |-> [k \in Containers |-> Absent]]

\* The step a command is about to take.
Steps == {"idle", "load", "https", "cache", "fetch", "fetching", "relays",
          "check", "persist", "failing", "up", "down"} \union FileNames

\* A start that brought Docker up goes on as "rebundle".
Running == [cmd: AllCommands \union {"none", "rebundle"}, at: Steps, doc: Document,
            todo: SUBSET {"config", "report"}]
Idle == [cmd |-> "none", at |-> "idle", doc |-> Missing, todo |-> {}]

TypeOK ==
  /\ config \in Document
  /\ files \in [FileNames -> Rendered]
  /\ relays \in {"absent", "torn", "ok"}
  /\ checked \in CheckReport
  /\ startReport \in {"absent", "torn", "success", "failure"}
  /\ docker \in Compose
  /\ proc \in [Procs -> Running]
  /\ saved \subseteq Contents

Init ==
  /\ config = Missing
  /\ files = NoFiles
  /\ relays = "absent"
  /\ checked = [entry |-> Absent, route |-> Absent, ok |-> FALSE]
  /\ startReport = "absent"
  /\ docker = Down
  /\ proc = [p \in Procs |-> Idle]
  /\ saved = {}

-----------------------------------------------------------------------------
(* How a command moves on *)

Cmd(p) == proc[p].cmd
Doc(p) == proc[p].doc
At(p, step) == proc[p].at = step
Active(p) == proc[p].at # "idle"

Become(p, cmd, step, doc, targets) ==
  proc' = [proc EXCEPT ![p] =
             [cmd |-> cmd, at |-> step, doc |-> doc, todo |-> targets]]

GoOn(p, step, doc) == Become(p, Cmd(p), step, doc, {})
Goto(p, step) == GoOn(p, step, Doc(p))
Enter(p, cmd) == Become(p, cmd, "load", Missing, {})
Exit(p) == proc' = [proc EXCEPT ![p] = Idle]
Persist(p, doc, targets) == Become(p, Cmd(p), "persist", doc, targets)

WithStatus(doc, phase) == [doc EXCEPT !.phase = phase]
\* Slip: the two are swapped.
SwappedOutcome(doc, phase, last) == [doc EXCEPT !.phase = last, !.last = phase]
\* Slip: the record of the last start is not saved with the phase.
PhaseOnly(doc, phase, last) == [doc EXCEPT !.phase = phase]

WithOutcome(doc, phase, last) == [doc EXCEPT !.phase = phase, !.last = last]

Starts == {"start", "dryrun"}
Validates == {"validate", "refresh"}

\* Slip: a failed start reports to config.json alone.
FailUnreported(p) ==
  IF Cmd(p) = "export" THEN Exit(p)
  ELSE Persist(p, WithOutcome(Doc(p), "error",
                    IF Cmd(p) \in Starts THEN "failure" ELSE Doc(p).last), {"config"})
\* Slip: a failed start only prints.
FailSilently(p) == Exit(p)

\* A stage failed: what each command records before it exits with status 1.
Fail(p) ==
  \/ /\ Cmd(p) \in Starts
     /\ Persist(p, WithOutcome(Doc(p), "error", "failure"), {"config", "report"})
  \/ /\ Cmd(p) \in Validates \union {"setup"}
     /\ Persist(p, WithStatus(Doc(p), "error"), {"config"})
  \/ Cmd(p) = "export" /\ Exit(p)

-----------------------------------------------------------------------------
(* Beginning a command and loading the config *)

Begin(p, c) ==
  /\ At(p, "idle")
  /\ Overlap \/ \A q \in Procs : ~Active(q)
  /\ Enter(p, c)
  /\ UNCHANGED <<config, files, relays, checked, startReport, docker, saved>>

\* Bad arguments, a cancelled prompt, a failed download, an export that adds no
\* route or is a dry run, no config or an unreadable one: nothing was written.
Refuse(p) ==
  /\ At(p, "load")
  /\ Exit(p)
  /\ UNCHANGED <<config, files, relays, checked, startReport, docker, saved>>

\* Slip: setup renders before it saves.
RenderFirst(p) ==
  /\ At(p, "load") /\ Cmd(p) = "setup"
  /\ \E c \in Contents : GoOn(p, "entry", [Missing EXCEPT !.content = c])
  /\ UNCHANGED <<config, files, relays, checked, startReport, docker, saved>>

\* setup builds a document from its prompts and a new device; it does not read
\* the one it replaces.
LoadSetup(p) ==
  /\ At(p, "load") /\ Cmd(p) = "setup"
  /\ \E c \in Contents : Persist(p, [Missing EXCEPT !.content = c], {"config"})
  /\ UNCHANGED <<config, files, relays, checked, startReport, docker, saved>>

\* Slip: an edit leaves the runtime status as it was.
EditKeepsStatus(p) ==
  /\ At(p, "load") /\ Cmd(p) \in {"edit", "export"} /\ config.content # Absent
  /\ \E c \in Contents : Persist(p, [config EXCEPT !.content = c], {"config"})
  /\ UNCHANGED <<config, files, relays, checked, startReport, docker, saved>>

\* config set and proxy access save whatever they were given; export, and recommend
\* --apply like it, saves and goes on only when it added a route.
LoadEdit(p) ==
  /\ At(p, "load") /\ Cmd(p) \in {"edit", "export"} /\ config.content # Absent
  /\ \E c \in Contents :
       /\ Cmd(p) = "export" => c # config.content
       /\ Persist(p, [config EXCEPT !.content = c, !.phase = "unvalidated"], {"config"})
  /\ UNCHANGED <<config, files, relays, checked, startReport, docker, saved>>

LoadRuntime(p) ==
  /\ At(p, "load") /\ config.content # Absent
  /\ Cmd(p) \in Starts \union Validates \union {"stop", "restart"}
  /\ GoOn(p, IF Cmd(p) \in {"stop", "restart"} THEN "down" ELSE "https", config)
  /\ UNCHANGED <<config, files, relays, checked, startReport, docker, saved>>

-----------------------------------------------------------------------------
(* Before rendering: https assets and the relay cache *)

\* validateSavedConfig renders again when asked to, when the selectors must be
\* recomputed, when the config it loaded is unvalidated, or when a file is gone.
ShouldRefresh(p) ==
  \/ Cmd(p) = "refresh"
  \/ Doc(p).content \in InlineSelector
  \/ Doc(p).phase = "unvalidated"
  \/ \E f \in ProxyFiles : files[f] = Absent

HttpsOk(p) ==
  /\ At(p, "https")
  /\ \/ Cmd(p) \in Starts /\ Goto(p, "cache")
     \/ /\ Cmd(p) \in Validates /\ ShouldRefresh(p)
        /\ Become(p, "refresh", "cache", Doc(p), {})
     \/ Cmd(p) \in Validates /\ ~ShouldRefresh(p) /\ Goto(p, "check")
  /\ UNCHANGED <<config, files, relays, checked, startReport, docker, saved>>

HttpsFails(p) ==
  /\ "reject" \in Faults
  /\ At(p, "https")
  /\ Fail(p)
  /\ UNCHANGED <<config, files, relays, checked, startReport, docker, saved>>

LoadRelayCache(p) ==
  /\ At(p, "cache")
  /\ \/ relays = "ok" /\ Goto(p, IF Cmd(p) \in Starts THEN "fetch" ELSE "entry")
     \/ relays # "ok" /\ Fail(p)
  /\ UNCHANGED <<config, files, relays, checked, startReport, docker, saved>>

\* The cache is fresh enough, or the download failed: keep it.
KeepRelayCache(p) ==
  /\ At(p, "fetch")
  /\ Goto(p, "entry")
  /\ UNCHANGED <<config, files, relays, checked, startReport, docker, saved>>

\* A stale cache is overwritten in place: writeFile truncates it first.
RefreshRelayCache(p) ==
  /\ \/ At(p, "fetch") /\ relays' = "torn" /\ Goto(p, "fetching")
     \/ At(p, "fetching") /\ relays' = "ok" /\ Goto(p, "entry")
  /\ UNCHANGED <<config, files, checked, startReport, docker, saved>>

\* Nothing catches an error of that writeFile.
RefreshRelayCacheThrows(p) ==
  /\ "write" \in Faults
  /\ proc[p].at \in {"fetch", "fetching"}
  /\ Exit(p)
  /\ UNCHANGED <<config, files, relays, checked, startReport, docker, saved>>

-----------------------------------------------------------------------------
(* Rendering: one atomic write per file, in this order *)

\* start renders the bundle a second time once the runtime is up.
Rebundling(p) == Cmd(p) = "rebundle"

AfterRender(p, f) ==
  CASE f = "entry" -> "route"
    [] f = "route" -> "relays"
    [] f = "compose" -> "sidecar"
    [] f = "sidecar" -> "manifest"
    [] f = "manifest" -> "check"

RenderFile(p) ==
  \E f \in FileNames :
    /\ At(p, f)
    /\ files' = [files EXCEPT ![f] = Doc(p).content]
    /\ IF f = "manifest" /\ Rebundling(p) THEN Exit(p) ELSE Goto(p, AfterRender(p, f))
    /\ UNCHANGED <<config, relays, checked, startReport, docker, saved>>

\* Slip: start goes on without its bundle.
SkipBundle(p) ==
  /\ At(p, "relays")
  /\ relays' = "ok"
  /\ Goto(p, "check")
  /\ UNCHANGED <<config, files, checked, startReport, docker, saved>>

\* renderRuntimeProxyArtifacts ends with an atomic copy of the catalog it used.
RenderRelayCache(p) ==
  /\ At(p, "relays")
  /\ relays' = "ok"
  /\ Goto(p, IF Cmd(p) \in Starts THEN "compose" ELSE "check")
  /\ UNCHANGED <<config, files, checked, startReport, docker, saved>>

\* The planner refuses the config, and has written nothing yet.
PlanFails(p) ==
  /\ "reject" \in Faults
  /\ At(p, "entry") \/ (At(p, "compose") /\ ~Rebundling(p))
  /\ Fail(p)
  /\ UNCHANGED <<config, files, relays, checked, startReport, docker, saved>>

\* WRITE_FAILED, with the rename of this file done or not.
RenderThrows(p) ==
  /\ "write" \in Faults
  /\ \/ \E f \in FileNames :
          /\ At(p, f)
          /\ files' \in {files, [files EXCEPT ![f] = Doc(p).content]}
          /\ relays' = relays
     \/ At(p, "relays") /\ relays' \in {relays, "ok"} /\ files' = files
  /\ IF Rebundling(p) THEN Exit(p) ELSE Fail(p)
  /\ UNCHANGED <<config, checked, startReport, docker, saved>>

-----------------------------------------------------------------------------
(* Validating what was rendered, or what is on disk *)

\* The local wireproxy binary reads the file; its Docker fallback and the route
\* proxy check get the text the command rendered or read.
TextOf(p, f) == IF Cmd(p) = "validate" THEN files[f] ELSE Doc(p).content

\* Slip: start does not return on a failed validation.
CheckIgnored(p, passes) ==
  /\ At(p, "check")
  /\ checked' = [entry |-> TextOf(p, "entry"), route |-> TextOf(p, "route"), ok |-> passes]
  /\ Persist(p, WithStatus(Doc(p), IF Cmd(p) = "start" THEN "starting" ELSE "validated"),
             {"config"})
  /\ UNCHANGED <<config, files, relays, startReport, docker, saved>>

Check(p, passes) ==
  /\ passes \/ "reject" \in Faults
  /\ At(p, "check")
  /\ \E entry \in {files["entry"], TextOf(p, "entry")} :
       checked' = [entry |-> entry, route |-> TextOf(p, "route"), ok |-> passes]
  /\ \/ ~passes /\ Cmd(p) # "export" /\ Fail(p)
     \/ ~passes /\ Cmd(p) = "export" /\ Persist(p, WithStatus(Doc(p), "error"), {"config"})
     \/ /\ passes
        /\ Persist(p, WithStatus(Doc(p), IF Cmd(p) = "start" THEN "starting" ELSE "validated"),
                   {"config"})
  /\ UNCHANGED <<config, files, relays, startReport, docker, saved>>

\* The report is written in place.  One that is torn cannot be parsed: it is there,
\* and nothing has passed.
TornReport(p) == [entry |-> TextOf(p, "entry"), route |-> TextOf(p, "route"), ok |-> FALSE]

\* Nothing catches an error of writing it.
CheckThrows(p) ==
  /\ "write" \in Faults
  /\ At(p, "check")
  /\ checked' \in {checked, TornReport(p)}
  /\ Exit(p)
  /\ UNCHANGED <<config, files, relays, startReport, docker, saved>>

-----------------------------------------------------------------------------
(* Saving the outcome.  start writes config.json and last-start.json at once *)
(* and in no particular order; every other save is of config.json alone.     *)

\* Slip: a start whose success is saved launches again.
LaunchAgain(p) ==
  \/ Doc(p).phase = "unvalidated" /\ Cmd(p) \in {"setup", "export"} /\ Goto(p, "entry")
  \/ Doc(p).phase \in {"starting", "running"} /\ Goto(p, "up")
  \/ Doc(p).phase \in {"validated", "error"} /\ Exit(p)

\* Where a command goes when all its writes succeeded.
AfterPersist(p) ==
  \/ Doc(p).phase = "unvalidated" /\ Cmd(p) \in {"setup", "export"} /\ Goto(p, "entry")
  \/ Doc(p).phase = "unvalidated" /\ Cmd(p) = "edit" /\ Exit(p)
  \/ Doc(p).phase = "starting" /\ Goto(p, "up")
  \/ Doc(p).phase = "running" /\ Become(p, "rebundle", "compose", Doc(p), {})
  \/ Doc(p).phase = "validated" /\ Cmd(p) = "restart" /\ Enter(p, "start")
  \/ Doc(p).phase \in {"validated", "error"} /\ Cmd(p) # "restart" /\ Exit(p)

Left(p, target) == proc[p].todo \ {target}

Writing(p, target) ==
  /\ proc[p].at \in {"persist", "failing"}
  /\ target \in proc[p].todo

Written(p, target) ==
  IF Left(p, target) # {}
  THEN Become(p, Cmd(p), proc[p].at, Doc(p), Left(p, target))
  ELSE IF At(p, "persist") THEN AfterPersist(p) ELSE Exit(p)

\* The other write still runs to its end, then the command gives up.
WriteFailed(p, target) ==
  IF Left(p, target) # {}
  THEN Become(p, Cmd(p), "failing", Doc(p), Left(p, target))
  ELSE Exit(p)

SaveConfig(p) ==
  /\ Writing(p, "config")
  /\ config' = Doc(p)
  /\ saved' = saved \union {Doc(p).content}
  /\ Written(p, "config")
  /\ UNCHANGED <<files, relays, checked, startReport, docker>>

\* save() throws: before the rename, or after it (chmod or fsync of the directory).
SaveConfigThrows(p) ==
  /\ "save" \in Faults
  /\ Writing(p, "config")
  /\ \/ UNCHANGED <<config, saved>>
     \/ config' = Doc(p) /\ saved' = saved \union {Doc(p).content}
  /\ WriteFailed(p, "config")
  /\ UNCHANGED <<files, relays, checked, startReport, docker>>

SaveStartReport(p) ==
  /\ Writing(p, "report")
  /\ startReport' = Doc(p).last
  /\ Written(p, "report")
  /\ UNCHANGED <<config, files, relays, checked, docker, saved>>

\* The report is written in place, so an error may leave half of it.
SaveStartReportThrows(p) ==
  /\ "write" \in Faults
  /\ Writing(p, "report")
  /\ startReport' \in {startReport, "torn"}
  /\ WriteFailed(p, "report")
  /\ UNCHANGED <<config, files, relays, checked, docker, saved>>

-----------------------------------------------------------------------------
(* Docker Compose *)

\* What a container reads when it starts: the file its mount names by then.
Mounted == [k \in Containers |-> files[k]]

\* Slip: `up` without --force-recreate keeps the containers that run.
KeepContainers(p) ==
  /\ At(p, "up")
  /\ docker' = [state |-> "up",
                runs |-> [k \in Containers |->
                            IF docker.runs[k] = Absent THEN files[k] ELSE docker.runs[k]]]
  /\ Persist(p, WithOutcome(Doc(p), "running", "success"), {"config", "report"})
  /\ UNCHANGED <<config, files, relays, checked, startReport, saved>>

\* `up --force-recreate`: every container starts anew.
ComposeUp(p) ==
  /\ At(p, "up")
  /\ docker' = [state |-> "up", runs |-> Mounted]
  /\ Persist(p, WithOutcome(Doc(p), "running", "success"), {"config", "report"})
  /\ UNCHANGED <<config, files, relays, checked, startReport, saved>>

\* No docker compose at all, or `up` failed with some containers replaced.
ComposeUpFails(p) ==
  /\ "docker" \in Faults
  /\ At(p, "up")
  /\ \/ UNCHANGED docker
     \/ \E fresh \in SUBSET Containers :
          docker' = [state |-> "partial",
                     runs |-> [k \in Containers |->
                                 IF k \in fresh THEN files[k] ELSE docker.runs[k]]]
  /\ Fail(p)
  /\ UNCHANGED <<config, files, relays, checked, startReport, saved>>

ComposeDown(p) ==
  /\ At(p, "down")
  /\ files["compose"] # Absent
  /\ docker' = Down
  /\ Persist(p, WithStatus(Doc(p), "validated"), {"config"})
  /\ UNCHANGED <<config, files, relays, checked, startReport, saved>>

\* Also what `docker compose down` does when no bundle was ever rendered.
ComposeDownFails(p) ==
  /\ At(p, "down")
  /\ \/ files["compose"] = Absent /\ UNCHANGED docker
     \/ "docker" \in Faults /\ UNCHANGED docker
     \/ /\ "docker" \in Faults
        /\ \E gone \in SUBSET Containers :
             docker' = [state |-> "partial",
                        runs |-> [k \in Containers |->
                                    IF k \in gone THEN Absent ELSE docker.runs[k]]]
  /\ Exit(p)
  /\ UNCHANGED <<config, files, relays, checked, startReport, saved>>

\* Somebody else stops the project, or Docker itself.
ContainersExit ==
  /\ "docker" \in Faults
  /\ docker.state # "down"
  /\ docker' = Down
  /\ UNCHANGED <<config, files, relays, checked, startReport, proc, saved>>

\* `restart: unless-stopped`: a container that exits, or a host that reboots, is
\* started again by Docker, on what the mounted files hold by then.
ContainersRestart ==
  /\ "docker" \in Faults
  /\ \E again \in SUBSET {k \in Containers : docker.runs[k] # Absent} :
       docker' = [docker EXCEPT !.runs = [k \in Containers |->
                    IF k \in again THEN files[k] ELSE docker.runs[k]]]
  /\ UNCHANGED <<config, files, relays, checked, startReport, proc, saved>>

-----------------------------------------------------------------------------
\* A command dies: what it was writing in place stays half-written.
Crash(p) ==
  /\ "crash" \in Faults
  /\ Active(p)
  /\ Exit(p)
  /\ IF Writing(p, "report")
     THEN startReport' \in {startReport, "torn"}
     ELSE startReport' = startReport
  /\ UNCHANGED checked \/ (At(p, "check") /\ checked' = TornReport(p))
  /\ UNCHANGED <<config, files, relays, docker, saved>>

Step(p) ==
  \/ Refuse(p) \/ LoadSetup(p) \/ LoadEdit(p) \/ LoadRuntime(p)
  \/ HttpsOk(p) \/ HttpsFails(p)
  \/ LoadRelayCache(p) \/ KeepRelayCache(p)
  \/ RefreshRelayCache(p) \/ RefreshRelayCacheThrows(p)
  \/ RenderFile(p) \/ RenderRelayCache(p) \/ PlanFails(p) \/ RenderThrows(p)
  \/ \E passes \in BOOLEAN : Check(p, passes)
  \/ CheckThrows(p)
  \/ SaveConfig(p) \/ SaveConfigThrows(p)
  \/ SaveStartReport(p) \/ SaveStartReportThrows(p)
  \/ ComposeUp(p) \/ ComposeUpFails(p) \/ ComposeDown(p) \/ ComposeDownFails(p)

Next ==
  \/ \E p \in Procs :
       \/ \E c \in Commands : Begin(p, c)
       \/ Step(p)
       \/ Crash(p)
  \/ ContainersExit
  \/ ContainersRestart

Spec == Init /\ [][Next]_vars

\* A command that has begun keeps running: Node runs its promise chain to the
\* end, and docker returns.  Operators need not issue anything, nothing need fail.
FairSpec == Spec /\ \A p \in Procs : WF_vars(Step(p))

-----------------------------------------------------------------------------
(* What the commands promise when operators issue one at a time *)

Launched == {"starting", "running"}

\* While config.json says the runtime is starting or running, every derived file
\* on disk was rendered from the content config.json holds (runStartFlow renders
\* all five before it saves "starting"; an edit leaves that phase), whatever
\* command died or failed halfway before.
InSyncWhileLaunched ==
  config.phase \in Launched => \A f \in FileNames : files[f] = config.content

\* While config.json says "running", no container runs anything but the content
\* config.json holds, also after Docker restarted it from the mounted files.
RunningIsWhatRuns ==
  config.phase = "running" =>
    \A k \in Containers : docker.runs[k] \in {config.content, Absent}

\* Compose is only brought up on proxy configs that the validation report on disk
\* names as passed (runStartFlow returns early otherwise).
LaunchOnlyValidated ==
  [][\A p \in Procs : ComposeUp(p) =>
       /\ checked.ok
       /\ \A f \in ProxyFiles : checked[f] = docker'.runs[f]]_vars

\* The two records of the last start agree whenever no command is running:
\* diagnostics.lastRuntimeStart in config.json, unless setup reset it, and
\* last-start.json, which status and doctor prefer.
StartRecordsAgree ==
  (\A p \in Procs : ~Active(p)) => config.last \in {"none", startReport}

\* All of it in one specification: seen from config.json and the containers alone,
\* the commands do nothing but what Installation promises an operator.
Promise == INSTANCE Installation WITH
  wanted <- config.content, phase <- config.phase, runs <- docker.runs
KeepsPromise == Promise!Spec

-----------------------------------------------------------------------------
(* What they promise whatever the order *)

\* Every content a file was rendered from, or a container runs, was in config.json
\* at some time: setup and export save before they render.
NothingRenderedUnsaved ==
  /\ \A f \in FileNames : files[f] \in saved \union {Absent}
  /\ \A k \in Containers : docker.runs[k] \in saved \union {Absent}

\* A config that says "running" also holds a successful last start: the phase and
\* the record are saved in one document, and no later status save keeps the
\* phase while losing the record.
RunningHasSucceeded ==
  config.phase = "running" => config.last = "success"

\* A project that is up runs all three containers: start reaches `up` only when
\* every file it mounts has been rendered, by it or by a command before it.
UpMeansComplete ==
  docker.state = "up" => \A k \in Containers : docker.runs[k] # Absent

\* Every command ends; start, which renders the bundle twice, does too.
CommandsEnd ==
  \A p \in Procs : Active(p) ~> ~Active(p)

\* "starting" is left again: a start that announced itself records how it ended.
StartingIsLeft ==
  config.phase = "starting" ~> config.phase # "starting"

-----------------------------------------------------------------------------
(* What its documents say *)

\* src/commands/config.ts:563 tells whoever edits the config to "rerun `mullgate
\* proxy validate` to refresh derived artifacts": a validate that saves
\* "validated" has left entry and route rendered from the content it saves.
ValidateRefreshesEdits ==
  [][\A p \in Procs :
       (SaveConfig(p) /\ Cmd(p) \in Validates /\ Doc(p).phase = "validated")
         => \A f \in ProxyFiles : files[f] = Doc(p).content]_vars

\* docs/usage.md:688-695: `mullgate proxy validate --refresh` or `mullgate proxy
\* start` "is the supported way to bring saved config, derived artifacts, and the
\* Docker runtime back into sync": once either is done, what is up runs the
\* content saved.
RefreshResyncsDocker ==
  [][\A p \in Procs :
       (/\ SaveConfig(p)
        /\ \/ Cmd(p) = "refresh" /\ Doc(p).phase = "validated"
           \/ Cmd(p) = "start" /\ Doc(p).phase = "running")
         => \A k \in Containers : docker.runs[k] \in {Doc(p).content, Absent}]_vars
=============================================================================
