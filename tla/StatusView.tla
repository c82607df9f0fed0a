----------------------------- MODULE StatusView -----------------------------
(***************************************************************************)
(* proxy status, proxy doctor and proxy logs over an installation that     *)
(* moves (src/commands/status.ts, doctor.ts, logs.ts): the config is       *)
(* loaded first, then the files on disk and the last-start report are read *)
(* while `docker compose ps` runs, and the answers are put together.       *)
(*                                                                         *)
(* A reader sees the derived files, the relay cache and the validation     *)
(* report at one moment, the start report at another and the containers at *)
(* a third.  It changes nothing.                                           *)
(***************************************************************************)
EXTENDS Lifecycle, Naturals

CONSTANTS
  Verdicts,    \* what doctor's checks of a content come to, next to the manifest of one
  MaxMoves     \* bound: how often the installation moves during one reading

VARIABLES
  view,      \* what the reader that runs, or ran last, has read and said
  disturbed, \* history: what runs was last touched by something that went wrong
  outcome    \* history: how the last start ended, "none", or "unknown"

viewVars == <<view, disturbed, outcome>>

-----------------------------------------------------------------------------
(* What is read *)

\* A container as `ps --all` lists it, and classifyContainerState's word for it.
ContainerStates == {"absent", "exited", "created", "restarting", "running", "unhealthy", "unknown"}
LiveState == [absent |-> "stopped", exited |-> "stopped", created |-> "starting",
              restarting |-> "starting", running |-> "running",
              unhealthy |-> "degraded", unknown |-> "degraded"]

\* What is up runs, but for one container that Docker restarts, or lost sight of.
Plainly == [k \in Containers |-> IF docker.runs[k] = Absent THEN "absent" ELSE "running"]
Listings ==
  {Plainly} \cup
  {[Plainly EXCEPT ![k] = state] :
     k \in {k \in Containers : docker.runs[k] # Absent /\ "docker" \in Faults},
     state \in {"restarting", "unknown"}}

NoPs == [k \in Containers |-> "absent"]
Unread == [tool |-> "none", todo |-> {}, still |-> TRUE, moved |-> 0, doc |-> Missing,
           missing |-> ProxyFiles, manifest |-> Absent, relays |-> "absent", checked |-> "absent", report |-> "absent",
           compose |-> "unread", ps |-> NoPs]

Sources(tool) == IF tool = "logs" THEN {"compose"} ELSE {"artifacts", "report", "compose"}

\* No command is running: nothing is half done.
Still == \A p \in Procs : ~Active(p)

\* Without a config all three say so and end.  status and doctor read the same.
LoadView(tool) ==
  /\ view = Unread
  /\ config.content # Absent
  /\ view' = [Unread EXCEPT !.tool = tool, !.todo = Sources(tool),
                            !.still = Still, !.doc = config]

ReadArtifacts ==
  /\ "artifacts" \in view.todo
  /\ view' = [view EXCEPT !.todo = @ \ {"artifacts"}, !.relays = relays,
                          !.missing = {f \in ProxyFiles : files[f] = Absent},
                          !.manifest = files["manifest"],
                          !.checked = IF checked.entry = Absent THEN "absent"
                                      ELSE IF checked.ok THEN "ok" ELSE "failed"]

ReadReport ==
  /\ "report" \in view.todo
  /\ view' = [view EXCEPT !.todo = @ \ {"report"}, !.report = startReport]

\* No bundle yet, no Docker, or an answer that is not its JSON.
ComposeSilent == files["compose"] = Absent \/ "docker" \in Faults

InspectRuntime ==
  /\ "compose" \in view.todo /\ view.tool = "report"
  /\ \/ /\ ComposeSilent
        /\ view' = [view EXCEPT !.todo = @ \ {"compose"}, !.compose = "failed"]
     \/ /\ files["compose"] # Absent
        /\ \E ps \in Listings :
             view' = [view EXCEPT !.todo = @ \ {"compose"}, !.compose = "ok", !.ps = ps]

ReadLogs ==
  /\ "compose" \in view.todo /\ view.tool = "logs"
  /\ \E answer \in {"ok", "failed"} :
       /\ IF answer = "ok" THEN files["compose"] # Absent ELSE ComposeSilent
       /\ view' = [view EXCEPT !.todo = @ \ {"compose"}, !.compose = answer]

\* The report was read; a reader may begin again.
Said == view.tool # "none" /\ view.todo = {}
Dismiss == Said /\ view' = Unread

-----------------------------------------------------------------------------
(* What is said of it: pure functions of what was read *)

Live(v, k) == LiveState[v.ps[k]]
All(v, state) == \A k \in Containers : Live(v, k) = state
Some(v, state) == \E k \in Containers : Live(v, k) = state

\* Slip: only the saved document is asked.
SavedOnly(v) == v.doc.last

\* resolveLastStartDiagnostic: the report, unless it is missing or cannot be parsed.
LastStart(v) == IF v.report \in {"absent", "torn"} THEN v.doc.last ELSE v.report

\* Slip: a stop is not told from a crash.
SavedPhaseOnly(v) ==
  IF v.compose = "failed" THEN "error"
  ELSE IF All(v, "running") THEN "running"
  ELSE IF v.doc.phase \in {"validated", "running"} /\ LastStart(v) = "success" THEN "degraded"
  ELSE "stopped"

\* classifyOverallPhase
OverallPhase(v) ==
  IF v.compose = "failed" THEN "error"
  ELSE IF Some(v, "degraded") THEN "degraded"
  ELSE IF All(v, "running") THEN "running"
  ELSE IF Some(v, "running") \/ Some(v, "starting")
         THEN IF Some(v, "stopped") THEN "degraded" ELSE "starting"
  ELSE IF v.doc.phase = "running" THEN "degraded"
  ELSE IF v.doc.phase = "error" \/ LastStart(v) = "failure" THEN "error"
  ELSE "stopped"

\* buildDiagnostics: the warnings of a status report.
Diagnostics(v) ==
  {w \in {"no manifest", "no last start", "torn report", "compose", "container", "phase",
          "unvalidated", "failed start"} :
     \/ w = "no manifest" /\ v.manifest = Absent
     \/ w = "no last start" /\ v.report = "absent" /\ v.doc.last = "none"
     \/ w = "torn report" /\ v.report = "torn"
     \/ w = "compose" /\ v.compose = "failed"
     \/ /\ v.compose = "ok"
        /\ \/ w = "container" /\ ~All(v, "running")
           \/ w = "phase" /\ v.doc.phase = "running" /\ ~All(v, "running")
           \/ w = "unvalidated" /\ v.doc.phase = "unvalidated"
           \/ w = "failed start" /\ LastStart(v) = "failure"}

\* Slip: a report that passed is believed whatever became of the config.
ReportOnly(v) ==
  IF ProxyFiles \cap v.missing # {} THEN "fail"
  ELSE IF v.checked = "failed" \/ v.doc.phase = "error" THEN "fail"
  ELSE IF v.checked = "absent" THEN "degraded"
  ELSE "pass"

ValidationCheck(v) ==
  IF ProxyFiles \cap v.missing # {} THEN "fail"
  ELSE IF v.checked = "failed" \/ v.doc.phase = "error" THEN "fail"
  ELSE IF v.doc.phase = "unvalidated" \/ v.checked = "absent" THEN "degraded"
  ELSE "pass"

\* An old cache degrades; how old it is stays open.
RelayCacheCheck(v) == IF v.relays = "ok" THEN "pass" ELSE "fail"

\* Slip: containers that exist are good enough.
AnyContainer(v) == IF v.compose = "failed" THEN "fail"
                   ELSE IF \A k \in Containers : v.ps[k] = "absent" THEN "degraded"
                   ELSE "pass"

RuntimeCheck(v) ==
  IF v.compose = "failed" THEN "fail"
  ELSE IF \A k \in Containers : v.ps[k] = "absent"
         THEN IF v.doc.phase \in {"running", "error"} \/ LastStart(v) = "failure"
                THEN "fail" ELSE "degraded"
  ELSE IF ~All(v, "running") THEN "fail"
  ELSE "pass"

LastStartCheck(v) ==
  IF v.report = "torn" THEN "fail"
  ELSE [none |-> "degraded", success |-> "pass", failure |-> "fail"][LastStart(v)]

\* Exit source, platform, exposure, bind posture and host names (see Exposure): of
\* the saved content, but for the exposure and platform the manifest on disk was
\* rendered with, where there is one.
ContentCheck(v) ==
  LET shown == IF v.manifest = Absent THEN v.doc.content ELSE v.manifest
  IN Verdicts[<<v.doc.content, shown>>]

Checks(v) == {ValidationCheck(v), RelayCacheCheck(v), RuntimeCheck(v), LastStartCheck(v),
              ContentCheck(v)}

\* summarizeOverallOutcome
Overall(v) == IF "fail" \in Checks(v) THEN "fail"
              ELSE IF "degraded" \in Checks(v) THEN "degraded"
              ELSE "pass"

-----------------------------------------------------------------------------
(* Readers next to the commands *)

Read ==
  /\ \/ \E tool \in {"report", "logs"} : LoadView(tool)
     \/ ReadArtifacts \/ ReadReport \/ InspectRuntime \/ ReadLogs \/ Dismiss
  /\ UNCHANGED <<vars, disturbed, outcome>>

\* What a command has decided to record of a start.
Announced(p) == ~At(p, "persist") /\ proc'[p].at = "persist" /\ "report" \in proc'[p].todo

Unrecorded(p) == Crash(p) \/ SaveConfigThrows(p) \/ SaveStartReportThrows(p)
Upset(p) == Unrecorded(p) \/ ComposeUpFails(p) \/ ComposeDownFails(p)

Move ==
  /\ Next
  /\ \/ (view = Unread \/ Said) /\ view' = Unread
     \/ /\ view # Unread /\ ~Said /\ view.moved < MaxMoves
        /\ view' = [view EXCEPT !.moved = @ + 1]
  /\ disturbed' = \/ ContainersExit
                  \/ \E p \in Procs : Upset(p)
                  \/ disturbed /\ ~\E p \in Procs : ComposeUp(p) \/ ComposeDown(p)
  /\ \/ \E p \in Procs : Unrecorded(p) /\ outcome' = "unknown"
     \/ \E p \in Procs : Announced(p) /\ outcome' = proc'[p].doc.last
     \/ /\ ~\E p \in Procs : Unrecorded(p) \/ Announced(p)
        /\ UNCHANGED outcome

ViewInit ==
  /\ Init
  /\ view = Unread
  /\ disturbed = FALSE
  /\ outcome = "none"
ViewNext == Read \/ Move
ViewSpec == ViewInit /\ [][ViewNext]_<<vars, viewVars>>

-----------------------------------------------------------------------------
(* Properties.  A reading is quiet when no command ran and nothing moved from *)
(* its beginning until now: what it says can then be held against what is.    *)

Quiet == Said /\ view.tool = "report" /\ view.still /\ view.moved = 0
Listless == \E k \in Containers : docker.runs[k] # Absent /\ view.ps[k] # "running"

\* A quiet status says "degraded" only of a runtime that something went wrong
\* with since it was last brought up or down: never of one that was stopped,
\* edited, validated or set up again (classifyOverallPhase reads "running" with no
\* containers as degraded, so every orderly stop must withdraw that phase).
DegradedIsDisturbed ==
  Quiet /\ OverallPhase(view) = "degraded" => disturbed \/ Listless

\* A quiet reading tells how the last start ended that could record it, also when
\* setup, edits, stops and validations came after it: the one record they reset is
\* not the one that is shown.
LastStartIsTold ==
  Quiet /\ outcome # "unknown" => LastStart(view) = outcome

\* When a quiet doctor passes, all three containers are there; entry and route on
\* disk were rendered from the content that is saved ("validation artifact drift",
\* docs/usage.md:496), no matter what edits, stops, failed launches and validations
\* came between; and while the config says "running", every container runs that
\* content.  Where a rendering may be refused the files may be old: a later validate
\* finds them there, checks them as they are, and passes.
DoctorPassMeansInSync ==
  Quiet /\ Overall(view) = "pass" =>
    /\ \A k \in Containers : docker.runs[k] # Absent
    /\ Faults \cap {"reject", "write"} = {} =>
         \A f \in ProxyFiles : files[f] = config.content
    /\ config.phase = "running" => \A k \in Containers : docker.runs[k] = config.content

\* Whatever makes status say error, degraded or starting makes doctor fail, on the
\* same answers, however torn: the two never send an operator different ways.
DoctorSeesTrouble ==
  Said /\ view.tool = "report" /\ OverallPhase(view) \in {"error", "degraded", "starting"} =>
    Overall(view) = "fail"

\* test/cli/status-command.test.ts:856 "reports a validated-but-not-started runtime
\* as stopped when compose has no containers": with Docker in order.
NotStartedIsStopped ==
  (/\ Quiet /\ "docker" \notin Faults
   /\ view.doc.phase = "validated" /\ LastStart(view) = "none"
   /\ \A k \in Containers : docker.runs[k] = Absent)
  => OverallPhase(view) = "stopped"
=============================================================================
