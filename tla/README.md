# Mullgate in TLA+

Mullgate is a command-line tool that turns a Mullvad account into a set of local
proxies, one per exit relay, run by Docker Compose. This directory models the part
of it that keeps state: what each command writes, in which order, and what is left
when commands overlap, fail halfway, or die.

Paths are relative to the root of the repository.

## The system

| component | source | state it keeps | operations |
|---|---|---|---|
| config store | `src/config/store.ts`, `schema.ts`, `paths.ts` | `config.json`: content, runtime status phase, last start | `load`, `save` (normalise, then temporary file + rename) |
| setup | `src/app/setup-runner.ts`, `src/commands/setup.ts` | nothing of its own | prompts, relay download, device registration with retries, save, render, validate, save |
| edits | `src/commands/config.ts`, `config-reports.ts`, `config-fields.ts`, `proxy.ts` | nothing | `config set`, `proxy access`: load, change, withdraw the phase, save |
| export | `src/commands/proxy-export-*.ts`, `recommend.ts` | the exported list | load, prompt or parse selectors, add routes, save, render, validate, save |
| derived artifacts | `src/runtime/render-runtime-proxies.ts`, `render-runtime-bundle.ts` | entry and route proxy configs, compose file, sidecar config, manifest, relay cache | plan, then one atomic write per file |
| validation | `src/runtime/validate-runtime.ts`, `validate-wireproxy.ts`, `src/commands/config-validation.ts` | `runtime-validation.json` | check what was rendered or what is on disk, report, save the phase |
| runtime lifecycle | `src/commands/start.ts`, `stop.ts`, `restart.ts` | `last-start.json` | start, dry run, stop, restart |
| Docker control | `src/runtime/docker-runtime.ts` | the Compose project (external) | `up --force-recreate`, `down`, `ps` |
| status and doctor | `src/commands/status.ts`, `doctor.ts`, `runtime-diagnostics.ts`, `logs.ts` | nothing | read config, reports and live containers, classify |
| exposure contract | `src/config/exposure-contract.ts` | nothing | addresses, ports, warnings of an exposure |
| relay catalog | `src/mullvad/fetch-relays.ts`, `relay-probe.ts`, `src/commands/relays.ts`, `src/domain/*` | `relays.json` | fetch, probe, resolve aliases and regions |
| provisioning | `src/mullvad/provision-wireguard.ts` | a device at Mullvad (external) | register a key |
| autostart | `src/commands/autostart.ts` | a systemd user unit | enable, disable, inspect |
| command line | `src/cli.ts`, `cli-output.ts`, `completions.ts`, `version.ts`, `required.ts` | nothing | parsing, printing |
| platform facts | `src/platform/`, `src/network/` | nothing | tables, one interface lookup |
| feasibility runners | `src/m004/`, `src/tailscale/` | evidence files | one-shot scripts of a past milestone |

How they interact: every command is a process of its own. There is no daemon, no
lock and no version number; commands talk to each other only through the files
above and through Docker. `setup`, the edits, export, validate, start and stop all
read the whole of `config.json` at their beginning and write the whole of it, from
memory, at their end. The containers mount three of the derived files by path and
are started again by Docker (`restart: unless-stopped`) on whatever these paths
name by then.

What makes this hard:

- the phase in `config.json` is a claim about other files and about Docker, and is
  moved by commands that look at neither (`stop` saves `validated` whatever it was);
- a start makes some twelve writes, each of which may be the last one of the process;
- its outcome is two concurrent writes, one of them not atomic;
- Compose may fail with part of the project replaced;
- whether derived files are current is inferred from the phase and from existence.

What makes each component correct:

- lifecycle: a launched config matches the files it was rendered to, what runs is
  what the config says, only validated text is launched, the two records of a start
  agree, every command ends and `starting` is left;
- store and artifacts: a reader sees the old or the new file, whatever dies when;
- setup and provisioning: no more device slots are used than attempts were made, and
  a saved device is one the account holds;
- status: `running` is only said when every expected container runs;
- exposure: published addresses and ports are distinct, and follow from mode and access;
- routes: ids and aliases are unique, an export only adds, and gives what was counted;
- autostart: what enable and disable report is true of the next boot.

## Modules

| module | what it is |
|---|---|
| `Lifecycle` | the system: every command, step by step, over the shared files and Docker |
| `Installation` | the abstract specification: what an operator is promised |
| `MCLifecycle` | its instances for TLC |
| `LifecycleProofs` | what its commands do when they move on; the theorems that hold of overlapping commands too |
| `LifecycleAlone` | the theorems about one command at a time, and the refinement of `Installation` |
| `AtomicFile` | one file and the calls of `writeFileAtomic` that write it |
| `Register` | the abstract specification of such a file: a durable register |
| `MCAtomicFile` | its instance for TLC |
| `AtomicFileProofs` | the safety theorems and the refinement of `Register` |
| `StatusView` | `proxy status`, `doctor` and `logs`, reading an installation that moves; extends `Lifecycle` |
| `MCStatusView`, `StatusProofs` | its instance; the theorems about what status and doctor say |
| `Relays` | the relay catalog: payloads, aliases, matching, order, and the naming of routes |
| `RelaysProofs` | lemmas on its operators: what the naming loop returns, what an order puts first |
| `Exposure` | the exposure contract: addresses, ports, host names, refusals |
| `Provisioning` | `mullgate setup` with the Mullvad account; extends `Relays` and `Exposure` |
| `MCProvisioning`, `ProvisioningProofs` | its instance; its safety theorems |
| `Selection` | selectors of exports and recommendations: reading, matching, planning; extends `Relays` and `Exposure` |
| `Routes` | `proxy access`, `config set`, `proxy export` and `proxy relay recommend`; extends `Selection` |
| `MCRoutes`, `RoutesProofs` | its instance; lemmas on the planning of routes, and its safety theorems |
| `Autostart` | `proxy autostart` with systemd's user manager |
| `MCAutostart`, `AutostartProofs` | its instance; its safety theorems |

The composition: `Lifecycle` is the installation all commands share, with contents
opaque. `StatusView` puts readers next to it. `Provisioning` and `Routes` open the
opaque content where a setup, an edit or an export makes one: what `Lifecycle` takes as
the choice of a content is there a computation on relays, routes, addresses and
selectors. `Autostart` meets the rest only through `proxy start`, which succeeds or
fails.

### Lifecycle

`config` is the saved document: a *content* (everything an operator can edit, as an
opaque value), the `phase` of `runtime.status` and the outcome of
`diagnostics.lastRuntimeStart`. `files` maps each derived file to the content it was
rendered from. `relays` is the relay cache, which may be torn, as `start` rewrites a
stale one in place. `checked` and `startReport` are the two reports. `docker` says
whether the project is up and which content each of the three containers read when
it started. `proc` is the memory of each running command: its name, the step it is at,
the document it loaded, and the writes still due. `saved` is a history variable.

A command is a walk through the steps:

| step | actions | code |
|---|---|---|
| `load` | `Refuse`, `LoadSetup`, `LoadEdit`, `LoadRuntime` | `ConfigStore.load` and the early returns after it |
| `https` | `HttpsOk`, `HttpsFails` | `verifyHttpsAssets`; validate then decides whether to render (`ShouldRefresh`, `src/commands/config-validation.ts:104-108`) |
| `cache`, `fetch`, `fetching` | `LoadRelayCache`, `KeepRelayCache`, `RefreshRelayCache`, `RefreshRelayCacheThrows` | `loadStoredRelayCatalog`, `refreshRelayCatalogIfStale` |
| `entry`, `route`, `relays` | `RenderFile`, `RenderRelayCache`, `PlanFails`, `RenderThrows` | `renderRuntimeProxyArtifacts` |
| `compose`, `sidecar`, `manifest` | the same | `renderRuntimeBundle`, which start runs again, as `rebundle`, after a success |
| `check` | `Check`, `CheckThrows` | `validateRuntimeArtifacts` and its report |
| `up`, `down` | `ComposeUp`, `ComposeUpFails`, `ComposeDown`, `ComposeDownFails` | `startDockerRuntime`, `stopDockerRuntime` |
| `persist`, `failing` | `SaveConfig`, `SaveStartReport` and their `Throws` | `persistStartOutcome`, `persistConfigOnly`, `saveRuntimeStatus`, `saveConfigSafely` |

`Fail` is what each command records when a stage fails: start saves phase `error`
with a failed start and writes the report, validate and setup save phase `error`,
export saves nothing. `AfterPersist` is where a command goes once a document is
saved. `Crash` ends a command between any two steps; `ContainersExit` and
`ContainersRestart` are Docker's own doing.

Abstractions: planning, https checks and validators pass or fail freely; a stale
file may pass validation, because the Docker fallback of the validator only starts
it. An atomic write is one step, with a failure before or after its rename (see
`AtomicFile`). A validation, with the files it reads and the
report it leaves, is one step; the report is written in place, and where that fails or the
process dies in it the report may be torn (`TornReport`), which doctor cannot parse. The containers are those of the default exit source.
Setup's prompts, downloads and device registration write nothing to the installation
and are either a refusal or the choice of a content.

### Installation

An operator who issues one command at a time sees a content, a phase, and running
containers. Only an edit changes the content, and an edit withdraws every claim. A
launch is announced (`starting`) before it happens, starts containers on the wanted
content only, and is confirmed (`running`) only if nothing else runs. Docker may
restart what runs: on the wanted content while a launch is announced or confirmed.
`Lifecycle!KeepsPromise` is the refinement, with `wanted`, `phase` and `runs` read
from `config` and `docker`.

### AtomicFile

`writeFileAtomic` stands three times in the code (`src/config/store.ts:451`,
`src/runtime/render-runtime-proxies.ts:827`, `src/runtime/render-runtime-bundle.ts:775`);
config, manifests, proxy configs, the bundle and wireproxy files go through it.
`Lifecycle` takes each such call as one step, `AtomicFile` shows what that rests on. A
writer is one call: it opens its temporary file (`Open`), writes and syncs it, renames
it, syncs the directory and returns, and may throw or die at each await. The file
system is external and modelled by what POSIX promises: `disk` is the set of versions
the path may name after a power loss, which a rename adds to and a directory sync
reduces to the current one; unsynced data is torn then. On Windows (`Flushes` false)
the directory is never synced and a return promises nothing. `since` and `promised`
are history: what a power loss may go back to, given which calls returned. A file left
behind by a writer is reused by its next call, where the code takes a new name; nobody
reads either. Permissions (`chmod`) are left out.

`Register` is what callers take the file for: a value that each call sets at one moment
between its beginning and its end, or not at all if it fails, and that no loss takes
back behind a call that returned. `AtomicFile!Durable` instantiates it: a call is
pending until its rename.

### StatusView

A reader is `view`: which tool runs, the sources it has still to read, and what it has
read. `LoadView` loads the config; `ReadArtifacts`, `ReadReport`, `InspectRuntime` (or
`ReadLogs`) follow in any order, as the code awaits them together, while the
installation moves (`Move` is a step of `Lifecycle`). What is said is a pure function of
`view`: `OverallPhase`, `Diagnostics`, and doctor's `Checks` and `Overall`. `Listings` is
what `docker compose ps` may say of what runs: a container that is up may be listed as
restarting, or in a state nobody knows, when Docker has trouble. `ComposeSilent` is a
missing bundle or a Docker that does not answer. `disturbed` and `outcome` are history:
whether what runs was last touched by something that went wrong, and how the last start
ended that could say so. doctor's checks of exposure, bind addresses and host names,
which depend on the content of the config and on the manifest on disk, are one verdict for
each pair of contents (`Verdicts`).

### Relays and Exposure

Pure definitions. A name that went through `normalizeLocationToken` is its sequence of
tokens; a relay is a record; `Rank` is the sorted place of a host. `Relays` has both
payload formats of Mullvad, the alias candidates of countries, cities and relays and
their collisions, the relay a location stands for, the entry relay the renderer looks up
again from a saved preference, and `UniqueNames`, the numbering loop of
`normalizeRoutingTable`. `Exposure` has addresses as tuples of octets, what is refused
(`ExposureVerdict`), the addresses and host names that follow from mode and access, and
the published port of a route.

### Provisioning

A setup is `run[p]`: the step it is at, its number, inputs, relays, planned routes, the
attempt it makes and the device it was given. The order is the code's: inputs are
refused before relays are fetched, relays and locations before a device is registered,
and exits and schema only after. `account` is the set of keys Mullvad holds. `Register`
is Mullvad's own step, so that a request may be lost before it (`AnswerLost` at `sent`)
or its answer after it (`AnswerLost` at `registered`): a retry, with a new key, knows not
which. `RefuseAccount` ends before a request is made; `AnswerThrottled` is retried like a
lost answer; every other error ends the setup. Afterwards `ResolveExits`, `SaveInitial`,
`Render`, `Validate`. `lost` counts the answers lost behind a registration.

### Selection and Routes

`Selection` reads the tokens of a command line (`ReadToken`, with every refusal),
resolves selectors against a catalog, takes from the configured routes what matches
(`ExportedBy`: a selector only sees what earlier ones left), finds what is lacking
(`Lacking`), and plans the relays to add (`PlanTargets`), ordered by a latency probe
where relays were pinged.

A command of `Routes` holds, in `run[p].held`, the configuration it loaded until it saves
it. `access` is `updateExposureConfig`; `edit` is `config set` with the parser of each
field it knows (`FieldVerdict`) and what it puts right afterwards (`WithField`). An
export goes from selectors (given, or answered to prompts while other commands run) over
a catalog to a plan, saves the routes it adds, renders and validates them, saves again,
and only then delivers the list, which may be refused (`Deliver`). `byHand` is history:
the access mode was set by `config set`, which checks one field at a time. Rendering and
validation succeed or fail here; their files are in `Lifecycle`.

### Autostart

`run[p]` is a command of one terminal, a step per await: lingering, the unit file (torn
while it is written in place), `daemon-reload`, `enable --now`, and the way back. The
manager is external and modelled by what systemd documents: `loaded` is the unit as last
read, `wanted` the link into `default.target`, `service` the state of the oneshot service
with `Restart=on-failure`. A reboot ends commands and sessions; the manager begins at boot
if the user lingers, at the next login if not. `Upgrade` installs mullgate elsewhere, and
the unit goes on naming the old path. `told` is history: what the last command reported,
if no other command or upgrade got in its way. So is `misjudged`: a `disable --now` failed
with the unit there and was passed over, as the code does with every failure whose text
has one of four phrases (`isBenignDisableResult`), and none has worked since. That `Alone` is part of it is a fact about
the property, not about the program: two commands may overlap, and do in the run.

## Runs

| run | bounds | what it shows |
|---|---|---|
| `LifecycleFaults.cfg` | 1 command at a time, 2 contents (one inline-selector); setup, edit, start, stop, validate; rejections, crashes, failing saves and writes | `InSyncWhileLaunched`, `LaunchOnlyValidated`: no partial failure leaves a launched config with files of another content, or launches text no report names as passed |
| `LifecyclePromise.cfg` | as above, all nine commands; rejections and Docker faults | `KeepsPromise`, `RunningIsWhatRuns`, `StartRecordsAgree`, also when `up` replaced some containers only |
| `LifecycleOverlap.cfg` | 2 commands at once, 2 contents; setup and start; no faults; symmetric in the processes | `NothingRenderedUnsaved`, `RunningHasSucceeded`, `UpMeansComplete` in every interleaving |
| `LifecycleEnds.cfg` | 1 command, 1 content, all commands; rejections, failing writes, Docker faults | `CommandsEnd`, `StartingIsLeft` under fairness |
| `AtomicFile.cfg` | 2 writers, 2 contents, directories synced; errors, crashes, power losses | `Whole`, `AckedSurvives`, `IsRegister`, the inductive `FileInv`, and `CallsEnd` under fairness |
| `StatusView.cfg` | 1 command and 1 reader, 2 contents; setup, edit, validate, start, stop; Docker faults; `MaxMoves` = 1 step of a command during a reading; symmetric in the contents, whose own checks pass | `DegradedIsDisturbed`, `LastStartIsTold`, `DoctorPassMeansInSync` of readings nothing moved under, `DoctorSeesTrouble` of all |
| `Provisioning.cfg` | 2 terminals, `MaxSetups` = 2, `SlotLimit` = 5, `RetryLimit` = 3, 5 payloads, 10 kinds of input | a saved device is registered, slots are only lost with answers, a refusal is free, routes stand apart, what was accepted renders, and every setup ends |
| `Routes.cfg` | 2 terminals, `MaxCommands` = 2, 4 relays, 3 catalogs, 2 probes, 4 configurations, 11 exports and recommendations, 17 edits and a guided export | `PostureHolds` and `NamesStandApart` after overlaps, `CountsAreMet`, `AgainAddsNothing`, `AppliedIsRecommended`, `ExportsOnlyAdd`, `HttpsStaysStartable` |
| `Autostart.cfg` | 2 terminals, 2 paths, `MaxCommands` = 3, `MaxBoots` = 2 reboots or upgrades | `EnabledMeansRebootStarts`, `DisabledStaysDown`, and `EnabledStarts` under fairness |
| `LifecycleStale.cfg` | 1 command, 2 contents, no faults | violated: `ValidateRefreshesEdits` |
| `LifecycleResync.cfg` | 1 command, 2 contents, no faults | violated: `RefreshResyncsDocker` |
| `StatusNotStarted.cfg` | 1 command and 1 reader, no faults | violated: `NotStartedIsStopped` |

In the runs of `Lifecycle` and `StatusView` the number of commands ever issued is not
bounded: a state does not count them.
Two contents are enough because every property compares contents for equality with
the one in `config.json`; a third would only be another "different one". Two
overlapping commands are the smallest overlap, and the properties of that run are
proved for any number. So are those of the first two runs, of one command at a time. Faults are split over the runs by what they can disturb: the
first run has all that a file system or a killed process can do, the second all that
Docker can do.

The other bounds. `MaxMoves` = 1 is enough for every property of `StatusView`: three are
about readings nothing moved under, and all of them are theorems. Two setups are
one overlap or one repetition; three attempts are the code's own limit, and five slots
let one setup lose three answers and the other still run out. `MaxCommands` = 2 in
`Routes` is one overlap, or a command after another from every initial configuration,
among which are two routes through one relay, an enabled HTTPS without a port, and each
mode. Three commands and two reboots in `Autostart` are an enable that is left half
done, the command that meets what it left, and one that overlaps it. These four stop at
their bounds, or when nothing is left to do; deadlock is not checked there.

Properties stated of one command at a time are false when commands overlap, and
nothing in the code prevents that: of two starts with different contents, for
instance, the later save wins whatever the later `up` mounted.

### Fairness

`FairSpec` assumes weak fairness of the steps of a command that has begun, and of
nothing else: Node runs a promise chain to its end, the child processes of docker
and the validators return. Operators need not issue anything, and no fault need
happen. `LifecycleEnds.cfg` leaves out crashes and a failing save of `config.json`:
a start that dies, or that cannot save, does leave `starting` behind.

`AtomicFile!FairSpec` assumes weak fairness of the steps of a call that has begun: every
file system call it awaits settles. Calls need not begin, and no fault need happen.

`Provisioning!Spec` assumes weak fairness of a setup's own steps: `fetch` answers or
rejects in the end, and what follows is local. Mullvad need not register anything.
`Autostart!Spec` assumes weak fairness of `StartAgain` (systemd's `RestartSec` elapses) and
strong fairness of `StartSucceeds`: a `proxy start` that is tried for ever does not fail
for ever. A binary that has moved is not helped by that, since `StartSucceeds` is never
enabled again; `EnabledStarts` therefore speaks of a report nothing has overtaken.

### What the documents say and the code does not

- `ValidateRefreshesEdits`: `config set` tells its user to rerun `mullgate proxy
  validate` to refresh derived artifacts (`src/commands/config.ts:563`). Start, edit,
  stop, validate: stop saves `validated` over the `unvalidated` of the edit
  (`src/commands/stop.ts:129`), so validate finds nothing to refresh, checks the old
  files and reports success.
- `RefreshResyncsDocker`: `docs/usage.md:688-695` offers `validate --refresh` as a way
  to bring config, artifacts *and the Docker runtime* back into sync. It rewrites two
  files and saves `validated`; `restart needed` then says no
  (`src/config/exposure-contract.ts:328`) while the containers run the old content.
- `NotStartedIsStopped`: `test/cli/status-command.test.ts:856` expects a validated runtime
  that was never started to be reported as stopped. Its Compose is a stub that answers;
  after a setup there is no bundle yet, `docker compose ps` fails on the missing file
  (`src/commands/status.ts:150`), and status says `error`.

### What the models show that no document speaks of

These are reachable, and each is why some property has the form it has.

- A setup or start whose rendering is refused saves `error` and leaves the files of the
  content before. A later validate finds them there and does not render
  (`src/commands/config-validation.ts:104-108`), checks them as they are, and saves
  `validated`: doctor passes over old files. `DoctorPassMeansInSync` asks for files in
  sync where nothing is refused and no write of a rendering fails (`StatusView.cfg` has
  neither; what remains without that is proved).
- A selector without a count may take a route a later one added; each run of the same
  command then adds one more. `CountsAreMet` and `AgainAddsNothing` speak of counts.
- An export saves the routes it adds before it looks at inline access, protocol or an
  existing file (`src/commands/config.ts:356`): a refused export has added routes.
- A guided export works on what it loaded before its prompts, and saves it over whatever
  another command saved meanwhile. `PostureHolds` says that what is saved is at least
  consistent in itself.
- A guided export takes selectors of the command line as they are, unresolved.
- Where two routes go through one relay, a route an export planned for may not be the
  one that is exported.
- `config set setup.access.mode` changes the access and leaves the addresses; `proxy
  access` puts them right (`byHand`).
- `setup` with certificate and key but no HTTPS port enables HTTPS without one
  (`src/app/setup-runner.ts:1021`): setup and validate succeed, start fails when it
  renders the bundle. `HttpsStaysStartable` is about edits only.
- `config set setup.https.certPath null` is always refused by the schema, though the
  field is said to be nullable.
- A lost answer costs a device slot that nothing takes back: `OneSlotUnlessLost` says how
  many (`docs/mullgate-docs/content/docs/reference/current-runtime.mdx:30` speaks of one).
- A port the options let through is refused by the schema only after the device is
  registered.
- A failing `enable --now` leaves the link, and a service that is tried again. After
  overlapping commands a link may be left without a file, which the next disable takes
  for a unit that is gone; hence `raced` in `DisabledStaysDown`. After an upgrade to
  another path the unit names the old one.
- `disable` may report `service: stopped and removed` (`src/commands/autostart.ts:231`) of a
  service that runs on, with one terminal and no crash. A failing `disable --now` is passed
  over when its text has `no such file` or the like (`:590`), and `Failed to connect to bus:
  No such file or directory` has it with the unit untouched: the file is removed, the link
  and the service stay. If `daemon-reload` fails as well, that disable reports a failure, and
  the next one, told that the unit `does not exist`, reports success. Hence `misjudged` in
  `DisabledStaysDown`; without it TLC finds the property violated. No boot starts the
  service again, since its file is gone, and that much is proved.

## Proofs

The theorems hold for every value of the constants that the assumptions of the modules
allow, so for any number of terminals, contents, relays, commands and setups. Those of
`LifecycleProofs`, `AtomicFileProofs`, `AutostartProofs`, `ProvisioningProofs` and
`RoutesProofs` hold with commands overlapping. Two kinds of hypothesis are written into
the theorems that need them:

- `~Overlap`: commands are issued one at a time. Without it the properties are false.
- `NumeralsDiffer`: two numbers are never written alike. `UniqueNames` appends
  `ToString(n)` to a name, an operator of `TLC` of which a prover knows nothing.

### Lifecycle, with overlapping commands

`LifecycleProofs`, from `LifecycleAssumption` alone, which says what the constants are:

- `TypeCorrect`: `Spec => []TypeOK`. `TypeOK` is not inductive: a command past its
  load must hold a document with a content, or it could render "no file", and a start
  that writes its report must have an outcome to write. `Loaded` adds both.
- `RunningSucceeded`: `Spec => []RunningHasSucceeded`. The invariant says the same of
  the documents commands carry in memory, since these are what later saves write.
- `RenderedWasSaved`: `Spec => []NothingRenderedUnsaved`. A command is *uncommitted*
  before its load, while it is about to save, and once a save failed; every other one
  works on a content in `saved`.
- `UpIsComplete`: `Spec => []UpMeansComplete`. Files never go away; `RenderedBy` says
  which ones a start has rendered when it is at a step, so all mounts exist when a
  start announces itself and when it reaches `up`.

`FailMoves`, `WrittenMoves` and `WriteFailedMoves` describe what the three shared
continuations leave of a command, and are what the preservation proofs cite instead of
their definitions.

### Lifecycle, one command at a time

`LifecycleAlone` assumes `~Overlap`. `InSyncWhileLaunched` and `RunningIsWhatRuns` speak
of `config`, `files` and `docker` when nothing moves; what makes them inductive is what a
command in the middle of its work has done. `AloneInv` says of it, besides that there is
at most one (`Solo`): the content it works on is the saved one or one it is about to save
(`Committed`); the files a start has rendered on its way to the checks are of that content
(`Renders`); when it announces a launch and when it brings Compose up, all files are, and
the checks have passed on the proxy configs there are; when it confirms, the containers
run nothing else (`Launches`). Crashes, failing saves and failing writes need
no case of their own in the invariant: what is left then is a config that does not claim
to be launched, or one that did and still has its files. From `AloneInv`:

- `LaunchedInSync` and `RunningRunsConfig` are conjuncts of it;
- `LaunchesValidated`, an action property, follows from `Launches` at `up`;
- `PromiseKept`: the refinement of `Installation`. A save is `Edit`, `Judge`, `Announce` or
  `Confirm` by what it saves over what, Compose is `Launch`, containers that vanish or
  restart are Docker's steps, and whatever else happens is a stutter.

`RecordsAgree` also assumes `Undisturbed`: nothing crashes and no write fails. A start
that dies between the two writes of its outcome does leave them apart. `RecordsInv` says
which of the two a start has still to write.

### Files

`AtomicFileProofs` rests on `AtomicFileAssumption` alone. `Whole` and `AckedSurvives`
are not inductive: they do not say that what is about to be renamed is synced, nor that
a call about to return has everything on disk in its history. `FileInv` says both, and
that what is on disk is synced, so that a power loss leaves it as it is. Each step then
maps to a step of `Register` or to none: `Begin` to `Call`, `Rename` to `Set`, `Return`
to `Return` (the one place where directories must be synced), whatever throws or dies
to `Fail`, a power loss to `Lose`.

### Status and doctor

`StatusProofs`: `DoctorSeesTrouble` holds of any answers whatsoever (`TroubleIsSeen`), so
of every reading; the four cases are a silent Compose, a container that is not stopped,
a phase, and a failed start.

The other three theorems assume `~Overlap` and speak of readings nothing moved under.
Readers change nothing, so a behaviour with readers is one of `Lifecycle`
(`ViewersOnlyRead`) and `AloneInv` holds in it. `UpToDate` says that what a reader has read
is still so, as long as nothing moved. What is then left is about the installation:

- `LastStartTold` needs `Told`: the outcome of a start is in its report, or the start is
  about to write it; and a start that died or failed before it could is one whose outcome
  nobody is said to know.
- `DegradedOnlyIfDisturbed` needs `Orderly`: since Compose last brought the project up or
  down, and unless something went wrong since, all containers run or none does, and a
  config that says `running` of none is one a stop is about to withdraw.
- `DoctorPassIsInSync` needs `SyncInv`. A launch is not all that vouches for files: stop
  says `validated` of whatever is there, and a validate that does not render checks what
  it finds. Its first and third claim hold whatever fails. The second, that the proxy
  configs are of the config's content, is for `NoRefusals`. `SyncInv` says it of every
  phase but `unvalidated`, though only where a container runs and there is a relay cache
  to render from: elsewhere files may be old under a valid phase, and doctor, which looks
  at both, does not pass. It also says it of every document about to be saved.

### Relays

`RelaysProofs` has the lemmas about naming. `UniqueNames` and the search for a free number
are recursive functions over data. The library's induction theorems take a predicate, an
operator, which the provers cannot instantiate, so `Least`, `Induction` and `Recursion`
state with sets what is needed: a set with 0 and the successors of its elements has every
natural, and a function may be followed step by step through a family of sets.
`UniqueNamesKeep` says that the names are all different, and that a front of the list whose
names differ already stays as it is. The number looked for is found (`NumberedIsFree`)
because there are more candidates than names.

### Provisioning

`ProvisioningProofs` uses `LimitsAssumption`, `AsksAssumption`, `PayloadsAssumption` and
`NothingAssumption`: limits are numbers and at least one attempt is made, an ask or a
payload is what the parsers let through, and `Nothing` is not a key. `Relays` adds
`RanksDiffer`: no two relays have the same place in the order.

- `TunnelKeyIsKnown`, `RefusedIsFree`: `SetupInv` says of each setup which keys of its
  number may be at the account (none before it asked, its own once it was answered),
  that numbers differ, and that a configuration bears the number of a setup that came to
  save one. `OthersKeep` is where overlap is dealt with: a step of one setup, whatever it
  does under its own number, keeps what is so of the others.
- `SlotsAreCounted`: `OneSlotUnlessLost` compares a cardinality at the end of a setup with
  a counter. `CostInv` counts on the way: before an answer the account holds at most as
  many keys of a setup as answers were lost, after it one more, and each lost answer is
  one of the attempts that may be made (`Charged`). `ProvisioningTypes` follows with it.
- `RoutesStandApart` (with `NumeralsDiffer`): ids differ by `UniqueNamesKeep`; listeners
  differ by the place of a route in loopback and private-network mode, and in public mode
  because addresses that are not all different are refused (`ListenersDiffer`, which uses
  the verdict on the exposure and nothing else).
- `AcceptedIsRenderable` (with it too): a location that resolved names a place with a relay, so that the
  renderer finds an entry relay again, however ambiguous the label is.

### Routes

`RoutesProofs` uses the five assumptions of `Routes`, each saying that an input is one the
program can be given. Its invariant is `Good(config)` and, of each command, `RunGood`: what
it holds is `Good` too (a guided export saves what it loaded long ago over what another
command saved meanwhile, which is why `Good` must be a property of one document), the
selectors it has resolved and the plan it made are sound for the catalog it took them
from, and a recommendation has yet to be planned for or is reached. `Good` says that a
configuration is well-typed, that its posture is consistent, and that names differ.
The steps:

- what an export takes, lacks and plans (`SoundPlan`, `SoundTargets`): targets are all
  different, are no relay that has a route, and pins are reached;
- what `config set` and `proxy access` compute, field by field (`FieldGood`, `AccessGood`),
  and what an export makes of the configuration it holds (`RoutesGood`);
- `NormalKeeps`, `NormalIdentifies`: normalisation changes ids only, and only those behind
  a front that differs already.

On top of it stands `AllSettled`, of what an export plans from relays and then exports
from routes, with two bookkeepings of what is taken. From the moment its routes are planned
until the list is delivered, the selectors of a command, all with counts, are met by the
routes it holds, and planning once more adds nothing (`Settles`). The argument:

- The routes there will be are foretold: the configured ones, each at its place, then the
  targets in their order (`Foretells`, `RoutesForetold`). Planning is then a matter of
  places: each selector takes the first places open to it, as many as it counts, or fewer
  and then every active relay it matches is taken (`Stage`, `TakesAStage`,
  `PlanStages` by induction over the selectors).
- The same selectors on the routes as they have become find the same places, and so plan
  nothing (`StageAgain`, `StagedAddNothing`).
- The export takes routes, not relays, and with two routes through one relay it may take
  another than was planned. But what earlier selectors exported goes only through relays
  that their stages took, so the places planned for a selector are still free when its
  turn comes: it exports its count, or every active relay it matches has a route
  (`StageExports`, `StagedAreMet`).
- `PlanStepSettles` puts this together where a plan is made; the steps after it change the
  status and the step of the run alone, and no other command touches what is held.

The theorems are `RoutesTypes`, `PostureKept`, `NamesApart`, `AppliedReached`, `CountsMet`,
`AgainNothing`, and of single steps `HttpsKeptStartable` and `ExportsAdd`; `NamesApart` and `ExportsAdd` are those that
need `NumeralsDiffer`. Attempting the first form of
`HttpsStaysStartable` showed that it compared what an edit loaded with what it saved, also
where another command had saved in between; it now speaks of edits that end with a save,
against the configuration they held.

### Autostart

`AutostartProofs` rests on `BinariesArePaths`: a path is not a word for a missing file.
`EnabledMeansRebootStarts` is not inductive: it does not say what an enable that has not
reported yet has done. `Done` does, step by step, of an enable that is alone; `Solitude`
says that a command that believes so is, so that nobody else undoes it.

`DisabledStaysAway` says of disable that no boot brings the service back, and that a link
or a running service is left only after an overlap or a failure taken for benign. Its
invariant, `DisableInv`, has two parts. `Forgotten`: a disable that is alone finds the file
it removed absent until the manager has read that. `NothingLeft`: with neither an overlap
nor such a failure behind it, a unit that is gone is neither linked nor running, and
neither is one whose disable went on.

### What is only model-checked

- Liveness and nothing else, for it is beyond the prover: `CommandsEnd`,
  `StartingIsLeft`, `CallsEnd`, `SetupsEnd`, `EnabledStarts`.

## Plan

Every invariant and action property that a run expects to hold is a theorem. What is left:

1. Liveness stays with TLC: `ENABLED`, and so fairness, is out of the prover's reach.
2. The four hazards no property covers, in `PROJECT.json` with the reason.
3. The commands under "Not modelled" that keep no state.

## Not modelled

- `proxy relay list`, `probe` and `verify`, `autostart status`, `config show` and the
  other commands that read and print: they keep no state. (status, doctor and logs do
  read what moves, and are modelled.)
- The command line itself (`src/cli.ts`, `completions.ts`, output and help), and the text
  of reports, warnings, lists and rendered files, beyond what a property is about.
- Platform tables and the lookup of the host's interfaces (`src/platform/`,
  `src/network/`): constants.
- What wireproxy, HAProxy and Docker check or do inside; the upgrade of older documents;
  redaction.
- `src/m004/`, `src/tailscale/` and `scripts/`: one-shot scripts that gather the evidence
  of past milestones and are no part of the program.
- Port ranges of private-network mode, which may pass 65535 or meet one another: the
  code does not look, and no document says that it should.
