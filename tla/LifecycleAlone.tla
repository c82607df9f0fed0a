---------------------------- MODULE LifecycleAlone ----------------------------
(***************************************************************************)
(* What Lifecycle promises when operators issue one command at a time,     *)
(* proved for every set of contents and commands and, but for the records  *)
(* of the last start, whatever crashes or fails.                           *)
(***************************************************************************)
EXTENDS LifecycleProofs

-----------------------------------------------------------------------------
(* The inductive invariant.  A command works on the content config.json       *)
(* holds, or is about to save it; a start has rendered what it passed, checked *)
(* what it announces, and confirms what runs.                                  *)

Solo == \A p, q \in Procs : Active(p) /\ Active(q) => p = q

InSync(content) == \A f \in FileNames : files[f] = content
RunsOnly(content) == \A k \in Containers : docker.runs[k] \in {content, Absent}
ChecksPassed == checked.ok /\ \A f \in ProxyFiles : checked[f] = files[f]

Saving(p) == proc[p].at \in {"persist", "failing"}

Committed(p) ==
  /\ proc[p].at \notin {"idle", "load", "persist", "failing"}
       => proc[p].doc.content = config.content
  /\ proc[p].at = "persist" /\ "config" \notin proc[p].todo => proc[p].doc = config
  /\ Saving(p) /\ proc[p].doc.phase # "unvalidated" => proc[p].doc.content = config.content

Renders(p) ==
  proc[p].cmd = "start" =>
    /\ proc[p].at \in {"route", "relays", "compose", "sidecar", "manifest", "check"}
         => files["entry"] = proc[p].doc.content
    /\ proc[p].at \in {"relays", "compose", "sidecar", "manifest", "check"}
         => files["route"] = proc[p].doc.content
    /\ proc[p].at \in {"sidecar", "manifest", "check"}
         => files["compose"] = proc[p].doc.content
    /\ proc[p].at \in {"manifest", "check"} => files["sidecar"] = proc[p].doc.content
    /\ proc[p].at = "check" => files["manifest"] = proc[p].doc.content

Launches(p) ==
  /\ proc[p].at = "up" =>
       InSync(proc[p].doc.content) /\ ChecksPassed /\ config.phase = "starting"
  /\ Saving(p) /\ proc[p].doc.phase \in Launched => InSync(proc[p].doc.content)
  /\ Saving(p) /\ proc[p].doc.phase = "starting" => ChecksPassed
  /\ Saving(p) /\ proc[p].doc.phase = "running" =>
       /\ RunsOnly(proc[p].doc.content)
       /\ "config" \in proc[p].todo => config.phase = "starting"

Works(p) == Committed(p) /\ Renders(p) /\ Launches(p)

AloneInv ==
  /\ Solo
  /\ InSyncWhileLaunched
  /\ RunningIsWhatRuns
  /\ \A p \in Procs : Works(p)

LEMMA InitAlone == Init => AloneInv
BY DEF Init, AloneInv, Solo, Active, Idle, Missing, InSyncWhileLaunched, Launched,
  RunningIsWhatRuns, Works, Committed, Renders, Launches, Saving

-----------------------------------------------------------------------------
(* Who moves *)

\* Only an active command takes a step.
LEMMA StepIsActive ==
  ASSUME NEW p \in Procs, Step(p)
  PROVE  ~At(p, "idle")
<1> USE DEF At
<1>1. CASE Refuse(p) \/ LoadSetup(p) \/ LoadEdit(p) \/ LoadRuntime(p)
  BY <1>1 DEF Refuse, LoadSetup, LoadEdit, LoadRuntime
<1>2. CASE HttpsOk(p) \/ HttpsFails(p) \/ LoadRelayCache(p) \/ KeepRelayCache(p)
           \/ RefreshRelayCache(p) \/ RefreshRelayCacheThrows(p)
  BY <1>2 DEF HttpsOk, HttpsFails, LoadRelayCache, KeepRelayCache, RefreshRelayCache,
     RefreshRelayCacheThrows
<1>3. CASE RenderFile(p) \/ RenderRelayCache(p) \/ PlanFails(p) \/ RenderThrows(p)
  BY <1>3 DEF RenderFile, RenderRelayCache, PlanFails, RenderThrows, FileNames, ProxyFiles,
     BundleFiles
<1>4. CASE CheckThrows(p) \/ \E passes \in BOOLEAN : Check(p, passes)
  BY <1>4 DEF CheckThrows, Check
<1>5. CASE SaveConfig(p) \/ SaveConfigThrows(p) \/ SaveStartReport(p) \/ SaveStartReportThrows(p)
  BY <1>5 DEF SaveConfig, SaveConfigThrows, SaveStartReport, SaveStartReportThrows, Writing
<1>6. CASE ComposeUp(p) \/ ComposeUpFails(p) \/ ComposeDown(p) \/ ComposeDownFails(p)
  BY <1>6 DEF ComposeUp, ComposeUpFails, ComposeDown, ComposeDownFails
<1> QED BY <1>1, <1>2, <1>3, <1>4, <1>5, <1>6 DEF Step

\* Hence nobody else does anything, before or after.
LEMMA OthersIdle ==
  ASSUME TypeInv, SavedInv, Solo, NEW p \in Procs, Step(p), NEW q \in Procs \ {p}
  PROVE  At(q, "idle") /\ At(q, "idle")'
<1>1. At(q, "idle") BY StepIsActive DEF Solo, Active, At
<1>2. proc'[q] = proc[q] BY StepKeepsCommitted
<1> QED BY <1>1, <1>2 DEF At

LEMMA IdleWorks ==
  ASSUME NEW p \in Procs, At(p, "idle")
  PROVE  Works(p)
BY DEF At, Works, Committed, Renders, Launches, Saving

LEMMA IdleWorksNext ==
  ASSUME NEW p \in Procs, At(p, "idle")'
  PROVE  Works(p)'
BY DEF At, Works, Committed, Renders, Launches, Saving

\* A command that exits, or is to save a document that launches nothing, has
\* nothing else to answer for.
LEMMA QuietWorks ==
  ASSUME TypeInv, NEW p \in Procs, config' = config,
         \/ Exit(p)
         \/ Fail(p) /\ Doc(p).content = config.content
         \/ \E doc : /\ Persist(p, doc, {"config"})
                     /\ doc.phase \notin Launched
                     /\ doc.phase # "unvalidated" => doc.content = config.content
  PROVE  Works(p)'
<1>1. proc \in [Procs -> Running] BY DEF TypeInv, TypeOK
<1> USE DEF Works, Committed, Renders, Launches, Saving, Launched
<1>2. CASE Exit(p)
  BY <1>1, <1>2 DEF Exit, Idle
<1>3. CASE Fail(p) /\ Doc(p).content = config.content
  BY <1>1, <1>3, FailMoves DEF Idle
<1>4. CASE \E doc : /\ Persist(p, doc, {"config"})
                    /\ doc.phase \notin Launched
                    /\ doc.phase # "unvalidated" => doc.content = config.content
  BY <1>1, <1>4 DEF Persist, Become
<1> QED BY <1>2, <1>3, <1>4

-----------------------------------------------------------------------------
(* A step keeps the invariant *)

\* Before anything is rendered or asked of Docker.
LEMMA LoadKeepsWorks ==
  ASSUME TypeInv, AloneInv, NEW p \in Procs,
         \/ Refuse(p) \/ LoadSetup(p) \/ LoadEdit(p) \/ LoadRuntime(p)
         \/ HttpsOk(p) \/ HttpsFails(p) \/ LoadRelayCache(p) \/ KeepRelayCache(p)
         \/ RefreshRelayCache(p) \/ RefreshRelayCacheThrows(p)
  PROVE  Works(p)'
<1>1. /\ proc \in [Procs -> Running]
      /\ config \in Document
      /\ Works(p)
  BY DEF TypeInv, TypeOK, AloneInv
<1> USE DEF Launched
<1>2. CASE Refuse(p) \/ RefreshRelayCacheThrows(p)
  BY <1>2, QuietWorks DEF Refuse, RefreshRelayCacheThrows
<1>3. CASE LoadSetup(p)
  <2>1. PICK c \in Contents : Persist(p, [Missing EXCEPT !.content = c], {"config"})
    BY <1>3 DEF LoadSetup
  <2>2. [Missing EXCEPT !.content = c].phase = "unvalidated" BY DEF Missing
  <2> QED BY <1>3, <2>1, <2>2, QuietWorks DEF LoadSetup
<1>4. CASE LoadEdit(p)
  <2>1. PICK c \in Contents :
          Persist(p, [config EXCEPT !.content = c, !.phase = "unvalidated"], {"config"})
    BY <1>4 DEF LoadEdit
  <2>2. [config EXCEPT !.content = c, !.phase = "unvalidated"].phase = "unvalidated"
    BY <1>1 DEF Document
  <2> QED BY <1>4, <2>1, <2>2, QuietWorks DEF LoadEdit
<1>5. CASE LoadRuntime(p)
  BY <1>1, <1>5 DEF LoadRuntime, GoOn, Become, Works, Committed, Renders, Launches, Saving
<1>6. CASE HttpsOk(p)
  BY <1>1, <1>6 DEF HttpsOk, Goto, GoOn, Become, At, Cmd, Doc, Starts, Validates,
     Works, Committed, Renders, Launches, Saving
<1>7. At(p, "https") \/ At(p, "cache") => Doc(p).content = config.content
  BY <1>1 DEF Works, Committed, At, Doc
<1>8. CASE HttpsFails(p)
  BY <1>7, <1>8, QuietWorks DEF HttpsFails
<1>9. CASE LoadRelayCache(p)
  <2>1. CASE Fail(p) BY <1>7, <1>9, <2>1, QuietWorks DEF LoadRelayCache
  <2>2. CASE ~Fail(p)
    BY <1>1, <1>9, <2>2 DEF LoadRelayCache, Goto, GoOn, Become, At, Cmd, Doc,
       Works, Committed, Renders, Launches, Saving
  <2> QED BY <2>1, <2>2
<1>10. CASE KeepRelayCache(p) \/ RefreshRelayCache(p)
  BY <1>1, <1>10 DEF KeepRelayCache, RefreshRelayCache, Goto, GoOn, Become, At, Cmd, Doc,
     Works, Committed, Renders, Launches, Saving
<1> QED BY <1>2, <1>3, <1>4, <1>5, <1>6, <1>8, <1>9, <1>10

\* Rendering and validating.
LEMMA RenderKeepsWorks ==
  ASSUME TypeInv, AloneInv, NEW p \in Procs,
         \/ RenderFile(p) \/ RenderRelayCache(p) \/ PlanFails(p) \/ RenderThrows(p)
         \/ CheckThrows(p) \/ \E passes \in BOOLEAN : Check(p, passes)
  PROVE  Works(p)'
<1>1. /\ proc \in [Procs -> Running]
      /\ files \in [FileNames -> Rendered]
      /\ Doc(p) \in Document
      /\ Works(p)
  BY DEF TypeInv, TypeOK, AloneInv, Doc, Running
<1>2. /\ ~At(p, "idle") /\ ~At(p, "load") /\ ~At(p, "persist") /\ ~At(p, "failing")
      /\ config' = config
  BY DEF RenderFile, RenderRelayCache, PlanFails, RenderThrows, CheckThrows, Check, At,
     FileNames, ProxyFiles, BundleFiles
<1>3. Doc(p).content = config.content
  BY <1>1, <1>2 DEF Works, Committed, At, Doc
<1>4. CASE Exit(p) \/ Fail(p)
  BY <1>2, <1>3, <1>4, QuietWorks
<1> USE DEF Works, Committed, Renders, Launches, Saving
<1>5. CASE RenderFile(p) /\ ~Exit(p)
  <2>1. PICK f \in FileNames :
          /\ At(p, f)
          /\ files' = [files EXCEPT ![f] = Doc(p).content]
          /\ Goto(p, AfterRender(p, f))
    BY <1>5 DEF RenderFile
  <2>2. proc'[p] = [cmd |-> Cmd(p), at |-> AfterRender(p, f), doc |-> Doc(p), todo |-> {}]
    BY <1>1, <2>1 DEF Goto, GoOn, Become
  <2>3. f = "entry" => Works(p)'
    BY <1>1, <1>2, <1>3, <2>1, <2>2 DEF AfterRender, At, Cmd, Doc
  <2>4. f = "route" => Works(p)'
    BY <1>1, <1>2, <1>3, <2>1, <2>2 DEF AfterRender, At, Cmd, Doc
  <2>5. f = "compose" => Works(p)'
    BY <1>1, <1>2, <1>3, <2>1, <2>2 DEF AfterRender, At, Cmd, Doc
  <2>6. f = "sidecar" => Works(p)'
    BY <1>1, <1>2, <1>3, <2>1, <2>2 DEF AfterRender, At, Cmd, Doc
  <2>7. f = "manifest" => Works(p)'
    BY <1>1, <1>2, <1>3, <2>1, <2>2 DEF AfterRender, At, Cmd, Doc
  <2> QED BY <2>3, <2>4, <2>5, <2>6, <2>7 DEF FileNames, ProxyFiles, BundleFiles
<1>6. CASE RenderRelayCache(p)
  BY <1>1, <1>2, <1>3, <1>6 DEF RenderRelayCache, Goto, GoOn, Become, At, Cmd, Doc, Starts
<1>7. CASE PlanFails(p) \/ RenderThrows(p) \/ CheckThrows(p)
  BY <1>4, <1>7 DEF PlanFails, RenderThrows, CheckThrows
<1>8. CASE \E passes \in BOOLEAN : Check(p, passes)
  <2>1. PICK passes \in BOOLEAN : Check(p, passes) BY <1>8
  <2>2. CASE \E phase \in {"validated", "error"} :
               Persist(p, WithStatus(Doc(p), phase), {"config"})
    <3>1. PICK phase \in {"validated", "error"} :
            Persist(p, WithStatus(Doc(p), phase), {"config"})
      BY <2>2
    <3>2. /\ WithStatus(Doc(p), phase).phase = phase
          /\ WithStatus(Doc(p), phase).content = config.content
      BY <1>1, <1>3 DEF WithStatus, Document
    <3>3. WithStatus(Doc(p), phase).phase \notin Launched BY <3>2 DEF Launched
    <3> QED BY <1>2, <3>1, <3>2, <3>3, QuietWorks
  <2>3. CASE Cmd(p) = "start" /\ passes
             /\ Persist(p, WithStatus(Doc(p), "starting"), {"config"})
    <3>1. /\ WithStatus(Doc(p), "starting").phase = "starting"
          /\ WithStatus(Doc(p), "starting").content = config.content
      BY <1>1, <1>3 DEF WithStatus, Document
    <3>2. InSync(config.content)
      BY <1>1, <1>3, <2>1, <2>3 DEF InSync, Check, At, Cmd, Doc, FileNames, ProxyFiles, BundleFiles
    <3>3. InSync(config.content)' BY <1>2, <2>1, <3>2 DEF InSync, Check
    <3>4. ChecksPassed'
      BY <1>3, <2>1, <2>3, <3>2
      DEF InSync, ChecksPassed, Check, TextOf, FileNames, ProxyFiles, BundleFiles
    <3>5. proc'[p] = [cmd |-> Cmd(p), at |-> "persist",
                      doc |-> WithStatus(Doc(p), "starting"), todo |-> {"config"}]
      BY <1>1, <2>3 DEF Persist, Become
    <3> QED BY <1>2, <3>1, <3>3, <3>4, <3>5
  <2> QED BY <1>4, <2>1, <2>2, <2>3 DEF Check
<1> QED BY <1>4, <1>5, <1>6, <1>7, <1>8

\* Saving the outcome.
LEMMA SaveKeepsWorks ==
  ASSUME TypeInv, AloneInv, NEW p \in Procs,
         \/ SaveConfig(p) \/ SaveConfigThrows(p)
         \/ SaveStartReport(p) \/ SaveStartReportThrows(p)
  PROVE  Works(p)'
<1>1. /\ proc \in [Procs -> Running]
      /\ Works(p)
      /\ files' = files /\ checked' = checked /\ docker' = docker
      /\ Saving(p)
  BY DEF TypeInv, TypeOK, AloneInv, SaveConfig, SaveConfigThrows, SaveStartReport,
     SaveStartReportThrows, Writing, Saving
<1> USE DEF Works, Committed, Renders, Launches, Saving
<1>2. CASE SaveConfig(p)
  <2>1. /\ config' = Doc(p)
        /\ \/ proc'[p] = Idle
           \/ /\ proc'[p].at = proc[p].at /\ proc'[p].doc = Doc(p)
              /\ "config" \notin proc'[p].todo
           \/ /\ At(p, "persist") /\ proc'[p].doc = Doc(p)
              /\ \/ Cmd(p) \in {"setup", "export"} /\ proc'[p].cmd = Cmd(p) /\ proc'[p].at = "entry"
                 \/ Doc(p).phase = "starting" /\ proc'[p].at = "up"
                 \/ proc'[p].cmd = "rebundle" /\ proc'[p].at = "compose"
           \/ proc'[p].at = "load"
    BY <1>1, <1>2, WrittenMoves DEF SaveConfig, Left
  <2> QED BY <1>1, <2>1 DEF Idle, Doc, At, InSync, RunsOnly, ChecksPassed, Launched
<1>3. CASE SaveStartReport(p)
  <2>1. /\ config' = config
        /\ \/ proc'[p] = Idle
           \/ /\ proc'[p].at = proc[p].at /\ proc'[p].doc = Doc(p)
              /\ proc'[p].todo \subseteq proc[p].todo
              /\ "config" \in proc[p].todo => "config" \in proc'[p].todo
           \/ /\ At(p, "persist") /\ proc'[p].doc = Doc(p) /\ "config" \notin proc[p].todo
              /\ \/ Cmd(p) \in {"setup", "export"} /\ proc'[p].cmd = Cmd(p) /\ proc'[p].at = "entry"
                 \/ Doc(p).phase = "starting" /\ proc'[p].at = "up"
                 \/ proc'[p].cmd = "rebundle" /\ proc'[p].at = "compose"
           \/ proc'[p].at = "load"
    BY <1>1, <1>3, WrittenMoves DEF SaveStartReport, Left
  <2> QED BY <1>1, <2>1 DEF Idle, Doc, At, InSync, RunsOnly, ChecksPassed, Launched
<1>4. CASE SaveConfigThrows(p)
  <2>1. /\ config' \in {config, Doc(p)}
        /\ \/ proc'[p] = Idle
           \/ /\ proc'[p].at = "failing" /\ proc'[p].doc = Doc(p)
              /\ "config" \notin proc'[p].todo
    BY <1>1, <1>4, WriteFailedMoves DEF SaveConfigThrows, Left
  <2> QED BY <1>1, <2>1 DEF Idle, Doc, InSync, RunsOnly, ChecksPassed, Launched
<1>5. CASE SaveStartReportThrows(p)
  <2>1. /\ config' = config
        /\ \/ proc'[p] = Idle
           \/ /\ proc'[p].at = "failing" /\ proc'[p].doc = Doc(p)
              /\ proc'[p].todo \subseteq proc[p].todo
    BY <1>1, <1>5, WriteFailedMoves DEF SaveStartReportThrows, Left
  <2> QED BY <1>1, <2>1 DEF Idle, Doc, InSync, RunsOnly, ChecksPassed, Launched
<1> QED BY <1>2, <1>3, <1>4, <1>5

\* Docker Compose.
LEMMA ComposeKeepsWorks ==
  ASSUME TypeInv, AloneInv, NEW p \in Procs,
         \/ ComposeUp(p) \/ ComposeUpFails(p) \/ ComposeDown(p) \/ ComposeDownFails(p)
  PROVE  Works(p)'
<1>1. /\ proc \in [Procs -> Running]
      /\ Doc(p) \in Document
      /\ Works(p)
      /\ config' = config /\ files' = files
  BY DEF TypeInv, TypeOK, AloneInv, Doc, Running, ComposeUp, ComposeUpFails, ComposeDown,
     ComposeDownFails
<1>2. At(p, "up") \/ At(p, "down") => Doc(p).content = config.content
  BY <1>1 DEF Works, Committed, At, Doc
<1>3. CASE ComposeUp(p)
  <2>1. /\ WithOutcome(Doc(p), "running", "success").phase = "running"
        /\ WithOutcome(Doc(p), "running", "success").content = config.content
    BY <1>1, <1>2, <1>3 DEF WithOutcome, Document, ComposeUp
  <2>2. proc'[p] = [cmd |-> Cmd(p), at |-> "persist",
                    doc |-> WithOutcome(Doc(p), "running", "success"),
                    todo |-> {"config", "report"}]
    BY <1>1, <1>3 DEF ComposeUp, Persist, Become
  <2>3. InSync(config.content) /\ config.phase = "starting"
    BY <1>1, <1>2, <1>3 DEF ComposeUp, Works, Launches, At, Doc
  <2>4. InSync(config.content)' BY <1>1, <2>3 DEF InSync
  <2>5. RunsOnly(config.content)'
    BY <1>1, <1>3, <2>3, ContainersMountFiles DEF ComposeUp, Mounted, InSync, RunsOnly
  <2> QED BY <1>1, <2>1, <2>2, <2>3, <2>4, <2>5 DEF Works, Committed, Renders, Launches, Saving
<1>4. CASE ComposeUpFails(p)
  BY <1>1, <1>2, <1>4, QuietWorks DEF ComposeUpFails
<1>5. CASE ComposeDown(p)
  <2>1. /\ WithStatus(Doc(p), "validated").phase \notin Launched
        /\ WithStatus(Doc(p), "validated").content = config.content
    BY <1>1, <1>2, <1>5 DEF WithStatus, Document, ComposeDown, Launched
  <2> QED BY <1>1, <1>5, <2>1, QuietWorks DEF ComposeDown
<1>6. CASE ComposeDownFails(p)
  BY <1>1, <1>6, QuietWorks DEF ComposeDownFails
<1> QED BY <1>3, <1>4, <1>5, <1>6

\* A step that leaves config.json, the files and the containers as they are.
SameWorld == config' = config /\ files' = files /\ docker' = docker

\* What a step does to the world: nothing, or what its stage is for.
LEMMA StepOnWorld ==
  ASSUME NEW p \in Procs, Step(p)
  PROVE  \/ SameWorld
         \/ /\ RenderFile(p) \/ RenderThrows(p)
            /\ \E f \in FileNames : At(p, f) /\ files' = [files EXCEPT ![f] = Doc(p).content]
            /\ config' = config /\ docker' = docker
         \/ /\ SaveConfig(p) \/ SaveConfigThrows(p)
            /\ Writing(p, "config")
            /\ config' = Doc(p) /\ files' = files /\ docker' = docker
         \/ ComposeUp(p) \/ ComposeUpFails(p) \/ ComposeDown(p) \/ ComposeDownFails(p)
<1> USE DEF SameWorld
<1>1. CASE Refuse(p) \/ LoadSetup(p) \/ LoadEdit(p) \/ LoadRuntime(p)
           \/ HttpsOk(p) \/ HttpsFails(p) \/ LoadRelayCache(p) \/ KeepRelayCache(p)
           \/ RefreshRelayCache(p) \/ RefreshRelayCacheThrows(p)
  BY <1>1 DEF Refuse, LoadSetup, LoadEdit, LoadRuntime, HttpsOk, HttpsFails,
     LoadRelayCache, KeepRelayCache, RefreshRelayCache, RefreshRelayCacheThrows
<1>2. CASE \/ RenderRelayCache(p) \/ PlanFails(p) \/ CheckThrows(p)
           \/ \E passes \in BOOLEAN : Check(p, passes)
  BY <1>2 DEF RenderRelayCache, PlanFails, CheckThrows, Check
<1>3. CASE RenderFile(p) \/ RenderThrows(p)
  BY <1>3 DEF RenderFile, RenderThrows
<1>4. CASE SaveConfig(p) \/ SaveConfigThrows(p) \/ SaveStartReport(p) \/ SaveStartReportThrows(p)
  BY <1>4 DEF SaveConfig, SaveConfigThrows, SaveStartReport, SaveStartReportThrows
<1> QED BY <1>1, <1>2, <1>3, <1>4 DEF Step

LEMMA StepKeepsSync ==
  ASSUME TypeInv, AloneInv, NEW p \in Procs, Step(p)
  PROVE  InSyncWhileLaunched' /\ RunningIsWhatRuns'
<1>1. /\ files \in [FileNames -> Rendered]
      /\ Works(p)
      /\ InSyncWhileLaunched /\ RunningIsWhatRuns
  BY DEF TypeInv, TypeOK, AloneInv
<1> USE DEF InSyncWhileLaunched, RunningIsWhatRuns
<1>2. CASE SameWorld
  BY <1>1, <1>2 DEF SameWorld
<1>3. CASE /\ \E f \in FileNames : At(p, f) /\ files' = [files EXCEPT ![f] = Doc(p).content]
           /\ config' = config /\ docker' = docker
  <2>1. PICK f \in FileNames : At(p, f) /\ files' = [files EXCEPT ![f] = Doc(p).content]
    BY <1>3
  <2>2. Doc(p).content = config.content
    BY <1>1, <2>1 DEF Works, Committed, At, Doc, FileNames, ProxyFiles, BundleFiles
  <2> QED BY <1>1, <1>3, <2>1, <2>2
<1>4. CASE Writing(p, "config") /\ config' = Doc(p) /\ files' = files /\ docker' = docker
  BY <1>1, <1>4 DEF Writing, Works, Launches, Saving, InSync, RunsOnly, Doc, Launched
<1>5. CASE ComposeUp(p) \/ ComposeUpFails(p)
  BY <1>1, <1>5 DEF ComposeUp, ComposeUpFails, Works, Launches, At
<1>6. CASE ComposeDown(p) \/ ComposeDownFails(p)
  BY <1>1, <1>6 DEF ComposeDown, ComposeDownFails, Down
<1> QED BY <1>2, <1>3, <1>4, <1>5, <1>6, StepOnWorld

LEMMA StepKeepsAlone ==
  ASSUME TypeInv, SavedInv, AloneInv, NEW p \in Procs, Step(p)
  PROVE  AloneInv'
<1>1. Solo BY DEF AloneInv
<1>2. \A q \in Procs \ {p} : At(q, "idle")' BY <1>1, OthersIdle
<1>3. Solo' BY <1>2 DEF Solo, Active, At
<1>4. Works(p)'
  BY LoadKeepsWorks, RenderKeepsWorks, SaveKeepsWorks, ComposeKeepsWorks DEF Step
<1>5. \A q \in Procs : Works(q)' BY <1>2, <1>4, IdleWorksNext
<1> QED BY <1>3, <1>5, StepKeepsSync DEF AloneInv

LEMMA NextKeepsAlone ==
  ASSUME ~Overlap
  PROVE  TypeInv /\ SavedInv /\ AloneInv /\ [Next]_vars => AloneInv'
<1> SUFFICES ASSUME TypeInv, SavedInv, AloneInv, [Next]_vars PROVE AloneInv'
  OBVIOUS
<1>1. /\ proc \in [Procs -> Running]
      /\ docker \in Compose
  BY DEF TypeInv, TypeOK
<1>2. ASSUME NEW p \in Procs, Step(p) PROVE AloneInv'
  BY <1>2, StepKeepsAlone
<1>3. ASSUME NEW p \in Procs, NEW c \in Commands, Begin(p, c) PROVE AloneInv'
  <2>1. \A q \in Procs : ~Active(q) BY <1>3 DEF Begin
  <2>2. \A q \in Procs \ {p} : At(q, "idle")' BY <1>1, <1>3, <2>1 DEF Begin, Enter, Become, Active, At
  <2>3. proc'[p].at = "load" BY <1>1, <1>3 DEF Begin, Enter, Become
  <2>4. Works(p)' BY <2>3 DEF Works, Committed, Renders, Launches, Saving
  <2>5. Solo' BY <2>2 DEF Solo, Active, At
  <2>6. InSyncWhileLaunched' /\ RunningIsWhatRuns'
    BY <1>3 DEF Begin, AloneInv, InSyncWhileLaunched, RunningIsWhatRuns
  <2> QED BY <2>2, <2>4, <2>5, <2>6, IdleWorksNext DEF AloneInv
<1>4. ASSUME NEW p \in Procs, Crash(p) PROVE AloneInv'
  <2>1. \A q \in Procs : At(q, "idle")'
    BY <1>1, <1>4 DEF Crash, Exit, Idle, AloneInv, Solo, Active, At
  <2>2. Solo' BY <2>1 DEF Solo, Active, At
  <2>3. InSyncWhileLaunched' /\ RunningIsWhatRuns'
    BY <1>4 DEF Crash, AloneInv, InSyncWhileLaunched, RunningIsWhatRuns
  <2> QED BY <2>1, <2>2, <2>3, IdleWorksNext DEF AloneInv
<1>5. ASSUME ContainersExit \/ ContainersRestart PROVE AloneInv'
  <2>1. \A k \in Containers : docker'.runs[k] \in {docker.runs[k], files[k], Absent}
    BY <1>1, <1>5 DEF ContainersExit, ContainersRestart, Down, Compose
  <2>2. UNCHANGED <<config, files, checked, proc>>
    BY <1>5 DEF ContainersExit, ContainersRestart
  <2>3. ASSUME NEW p \in Procs PROVE Works(p)'
    <3>1. Works(p) BY DEF AloneInv
    <3>2. ASSUME RunsOnly(proc[p].doc.content), InSync(proc[p].doc.content)
          PROVE  RunsOnly(proc[p].doc.content)'
      BY <2>1, <2>2, <3>2, ContainersMountFiles DEF RunsOnly, InSync
    <3> QED BY <2>2, <3>1, <3>2 DEF Works, Committed, Renders, Launches, Saving, InSync,
            ChecksPassed, Launched
  <2>4. RunningIsWhatRuns'
    BY <2>1, <2>2, ContainersMountFiles
    DEF AloneInv, InSyncWhileLaunched, Launched, RunningIsWhatRuns
  <2> QED BY <2>2, <2>3, <2>4 DEF AloneInv, Solo, Active, InSyncWhileLaunched
<1>6. CASE UNCHANGED vars
  BY <1>6 DEF vars, AloneInv, Solo, Active, InSyncWhileLaunched, RunningIsWhatRuns, Works,
     Committed, Renders, Launches, Saving, InSync, RunsOnly, ChecksPassed
<1> QED BY <1>2, <1>3, <1>4, <1>5, <1>6 DEF Next

\* The invariants the proofs below rest on, all at once.
AloneSafe == TypeInv /\ SavedInv /\ MountInv /\ AloneInv

LEMMA AloneIsSafe == ASSUME ~Overlap PROVE Spec => []AloneSafe
BY InitTypes, NextKeepsTypes, InitSaved, NextKeepsSaved, InitMount, NextKeepsMount,
   InitAlone, NextKeepsAlone, PTL DEF Spec, AloneSafe

-----------------------------------------------------------------------------
(* What it shows *)

\* One command at a time, whichever died or failed halfway before: while
\* config.json says "starting" or "running", every derived file is of its content.
THEOREM LaunchedInSync == ASSUME ~Overlap PROVE Spec => []InSyncWhileLaunched
<1>1. AloneSafe => InSyncWhileLaunched BY DEF AloneSafe, AloneInv
<1> QED BY <1>1, AloneIsSafe, PTL

\* And while it says "running", no container runs anything else, whichever Docker
\* took down or restarted.
THEOREM RunningRunsConfig == ASSUME ~Overlap PROVE Spec => []RunningIsWhatRuns
<1>1. AloneSafe => RunningIsWhatRuns BY DEF AloneSafe, AloneInv
<1> QED BY <1>1, AloneIsSafe, PTL

\* Compose is only brought up on the proxy configs the last validation passed.
THEOREM LaunchesValidated == ASSUME ~Overlap PROVE Spec => LaunchOnlyValidated
<1>1. AloneSafe /\ [Next]_vars =>
        [\A p \in Procs : ComposeUp(p) =>
           /\ checked.ok
           /\ \A f \in ProxyFiles : checked[f] = docker'.runs[f]]_vars
  <2> SUFFICES ASSUME AloneSafe, NEW p \in Procs, ComposeUp(p)
               PROVE  checked.ok /\ \A f \in ProxyFiles : checked[f] = docker'.runs[f]
    OBVIOUS
  <2>1. ChecksPassed
    BY DEF AloneSafe, AloneInv, Works, Launches, ComposeUp, At
  <2> QED BY <2>1 DEF ChecksPassed, ComposeUp, Mounted, ProxyFiles, Containers
<1> QED BY <1>1, AloneIsSafe, PTL DEF Spec, LaunchOnlyValidated

-----------------------------------------------------------------------------
(* The refinement of Installation.  A save edits, judges, announces or        *)
(* confirms; Compose launches; containers vanish or restart; everything else  *)
(* is a stutter.                                                              *)

LEMMA InitPromises == Init => Promise!Init
BY DEF Init, Promise!Init, Missing, Down, Containers, Promise!Containers

LEMMA SavePromises ==
  ASSUME AloneSafe, TypeInv', NEW p \in Procs, Writing(p, "config"),
         config' = Doc(p), docker' = docker
  PROVE  Promise!Next
<1>1. /\ Doc(p) \in Document /\ Doc(p).content \in Contents
      /\ Works(p)
      /\ Saving(p) /\ "config" \in proc[p].todo
  BY DEF AloneSafe, AloneInv, TypeInv, TypeOK, Loaded, Doc, Running, Writing, Saving
<1>2. Doc(p).phase # "unvalidated" => config'.content = config.content
  BY <1>1 DEF Works, Committed, Doc
<1>3. CASE Doc(p).phase = "unvalidated"
  BY <1>1, <1>3 DEF Promise!Edit, Promise!Next
<1>4. CASE Doc(p).phase \in {"validated", "error"}
  BY <1>2, <1>4 DEF Promise!Judge, Promise!Next
<1>5. CASE Doc(p).phase = "starting"
  BY <1>1, <1>2, <1>5, LifecycleAssumption DEF Promise!Announce, Promise!Next
<1>6. CASE Doc(p).phase = "running"
  <2>1. config.phase = "starting" /\ RunsOnly(Doc(p).content)
    BY <1>1, <1>6 DEF Works, Launches, Doc
  <2> QED BY <1>2, <1>6, <2>1
          DEF Promise!Confirm, Promise!Next, RunsOnly, Containers, Promise!Containers
<1> QED BY <1>1, <1>3, <1>4, <1>5, <1>6 DEF Document, Phases

LEMMA ComposePromises ==
  ASSUME AloneSafe, TypeInv', NEW p \in Procs,
         ComposeUp(p) \/ ComposeUpFails(p) \/ ComposeDown(p) \/ ComposeDownFails(p)
  PROVE  [Promise!Next]_(Promise!vars)
<1>1. /\ Works(p)
      /\ config' = config
      /\ docker'.runs \in [Containers -> Contents \union {Absent}]
  BY DEF AloneSafe, AloneInv, TypeInv, TypeOK, Compose, Rendered, ComposeUp, ComposeUpFails,
     ComposeDown, ComposeDownFails
<1> USE DEF Promise!vars, Promise!Next, Promise!SomeRun, Containers, Promise!Containers
<1>2. CASE ComposeUp(p) \/ ComposeUpFails(p)
  <2>1. config.phase = "starting" /\ InSync(config.content)
    BY <1>1, <1>2 DEF ComposeUp, ComposeUpFails, At, Works, Committed, Launches
  <2>2. \/ docker' = docker
        \/ \A k \in Containers : docker'.runs[k] \in {docker.runs[k], config.content}
    BY <1>2, <2>1, ContainersMountFiles DEF ComposeUp, ComposeUpFails, Mounted, InSync
  <2> QED BY <1>1, <2>1, <2>2 DEF Promise!Launch
<1>3. CASE ComposeDown(p) \/ ComposeDownFails(p)
  <2>1. \/ docker' = docker
        \/ \A k \in Containers : docker'.runs[k] \in {docker.runs[k], Absent}
    BY <1>3 DEF ComposeDown, ComposeDownFails, Down
  <2> QED BY <1>1, <2>1 DEF Promise!Vanish
<1> QED BY <1>2, <1>3

LEMMA HostPromises ==
  ASSUME AloneSafe, TypeInv', ContainersExit \/ ContainersRestart
  PROVE  [Promise!Next]_(Promise!vars)
<1>1. /\ config' = config
      /\ docker \in Compose
      /\ docker'.runs \in [Containers -> Contents \union {Absent}]
      /\ files \in [FileNames -> Rendered]
  BY DEF AloneSafe, TypeInv, TypeOK, Compose, Rendered, ContainersExit, ContainersRestart
<1> USE DEF Promise!vars, Promise!Next, Promise!SomeRun, Promise!Containers
<1>2. CASE ContainersExit
  BY <1>1, <1>2 DEF ContainersExit, Down, Containers, Promise!Vanish
<1>3. CASE ContainersRestart
  <2>1. \A k \in Containers :
          /\ docker.runs[k] = Absent => docker'.runs[k] = Absent
          /\ \/ docker'.runs[k] = docker.runs[k]
             \/ docker.runs[k] # Absent /\ docker'.runs[k] = files[k]
    BY <1>1, <1>3 DEF ContainersRestart, Compose
  <2>2. \A k \in Containers : docker.runs[k] # Absent => files[k] \in Contents
    BY <1>1, ContainersMountFiles DEF AloneSafe, MountInv, Rendered
  <2>3. config.phase \in {"starting", "running"} => \A k \in Containers : files[k] = config.content
    BY ContainersMountFiles DEF AloneSafe, AloneInv, InSyncWhileLaunched, Launched
  <2> QED BY <1>1, <2>1, <2>2, <2>3 DEF Containers, Promise!Restart
<1> QED BY <1>2, <1>3

LEMMA NextPromises ==
  ASSUME AloneSafe, TypeInv', [Next]_vars
  PROVE  [Promise!Next]_(Promise!vars)
<1>1. CASE config' = config /\ docker' = docker
  BY <1>1 DEF Promise!vars
<1>2. ASSUME NEW p \in Procs, Step(p) PROVE [Promise!Next]_(Promise!vars)
  BY <1>1, <1>2, StepOnWorld, SavePromises, ComposePromises DEF SameWorld
<1>3. ASSUME NEW p \in Procs, NEW c \in Commands, Begin(p, c)
      PROVE  [Promise!Next]_(Promise!vars)
  BY <1>1, <1>3 DEF Begin
<1>4. ASSUME NEW p \in Procs, Crash(p) PROVE [Promise!Next]_(Promise!vars)
  BY <1>1, <1>4 DEF Crash
<1>5. CASE UNCHANGED vars
  BY <1>1, <1>5 DEF vars
<1> QED BY <1>2, <1>3, <1>4, <1>5, HostPromises DEF Next

\* One command at a time, the nine commands, step by step, implement Installation,
\* whatever dies or fails: claims in config.json are withdrawn by every edit, made
\* only in order, and never outlive what the containers run.
THEOREM PromiseKept == ASSUME ~Overlap PROVE Spec => KeepsPromise
<1>1. AloneSafe /\ AloneSafe' /\ [Next]_vars => [Promise!Next]_(Promise!vars)
  BY NextPromises DEF AloneSafe
<1> QED BY <1>1, InitPromises, AloneIsSafe, PTL DEF Spec, KeepsPromise, Promise!Spec

-----------------------------------------------------------------------------
(* The two records of the last start.  Here the faults matter: a command that *)
(* dies between its two writes, or one of them failing, leaves them apart     *)
(* until the next start.  Without such faults they agree.                     *)

Undisturbed == Faults \subseteq {"reject", "docker"}

Agrees(last) == last \in {"none", startReport}

Records(p) ==
  /\ ~At(p, "failing")
  /\ proc[p].at \notin {"idle", "load", "persist"} => Agrees(proc[p].doc.last)
  /\ At(p, "persist") /\ "report" \notin proc[p].todo => Agrees(proc[p].doc.last)
  /\ At(p, "persist") /\ "config" \notin proc[p].todo => proc[p].doc = config

RecordsInv ==
  /\ (\A p \in Procs : ~At(p, "persist")) => Agrees(config.last)
  /\ \A p \in Procs : Records(p)

LEMMA InitRecords == Init => RecordsInv
BY DEF Init, RecordsInv, Records, Agrees, At, Idle, Missing

\* A save: the two records agree once both are written.
LEMMA SaveKeepsRecords ==
  ASSUME AloneSafe, RecordsInv, Undisturbed, NEW p \in Procs,
         \/ SaveConfig(p) \/ SaveConfigThrows(p)
         \/ SaveStartReport(p) \/ SaveStartReportThrows(p)
  PROVE  /\ At(p, "persist")' \/ Agrees(config.last)'
         /\ Records(p)'
<1>1. proc \in [Procs -> Running] /\ Records(p)
  BY DEF AloneSafe, TypeInv, TypeOK, RecordsInv
<1> USE DEF Records, Agrees, At
<1>2. CASE SaveConfig(p)
  <2>1. /\ config' = Doc(p) /\ startReport' = startReport
        /\ At(p, "persist") /\ Written(p, "config")
    BY <1>1, <1>2 DEF SaveConfig, Writing
  <2>2. \/ proc'[p] = Idle /\ Left(p, "config") = {}
        \/ /\ At(p, "persist")' /\ proc'[p].doc = Doc(p)
           /\ proc'[p].todo = Left(p, "config") /\ Left(p, "config") # {}
        \/ /\ Left(p, "config") = {}
           /\ proc'[p].at \in {"entry", "up", "compose"} /\ proc'[p].doc = Doc(p)
        \/ Left(p, "config") = {} /\ proc'[p].at = "load"
    BY <1>1, <2>1 DEF Written, AfterPersist, Become, Exit, Goto, GoOn, Enter
  <2>3. Left(p, "config") = {} => "report" \notin proc[p].todo BY DEF Left
  <2>4. Left(p, "config") # {} => "report" \in Left(p, "config")
    BY <1>1 DEF Left, Running
  <2> QED BY <1>1, <2>1, <2>2, <2>3, <2>4 DEF Idle, Doc, Left
<1>3. CASE SaveStartReport(p)
  <2>1. /\ config' = config /\ startReport' = Doc(p).last
        /\ At(p, "persist") /\ Written(p, "report")
    BY <1>1, <1>3 DEF SaveStartReport, Writing
  <2>2. \/ proc'[p] = Idle /\ Left(p, "report") = {}
        \/ /\ At(p, "persist")' /\ proc'[p].doc = Doc(p)
           /\ proc'[p].todo = Left(p, "report") /\ Left(p, "report") # {}
        \/ /\ Left(p, "report") = {}
           /\ proc'[p].at \in {"entry", "up", "compose"} /\ proc'[p].doc = Doc(p)
        \/ Left(p, "report") = {} /\ proc'[p].at = "load"
    BY <1>1, <2>1 DEF Written, AfterPersist, Become, Exit, Goto, GoOn, Enter
  <2>3. Left(p, "report") = {} => "config" \notin proc[p].todo BY DEF Left
  <2>4. Left(p, "report") # {} => "config" \in Left(p, "report")
    BY <1>1 DEF Left, Running
  <2> QED BY <1>1, <2>1, <2>2, <2>3, <2>4 DEF Idle, Doc, Left
<1>4. CASE SaveConfigThrows(p) \/ SaveStartReportThrows(p)
  BY <1>4 DEF SaveConfigThrows, SaveStartReportThrows, Undisturbed
<1> QED BY <1>2, <1>3, <1>4

\* Any other step carries a record that agrees, or is to write both.
LEMMA OtherKeepsRecords ==
  ASSUME AloneSafe, RecordsInv, Undisturbed, NEW p \in Procs, Step(p), ~At(p, "persist")
  PROVE  config' = config /\ startReport' = startReport /\ Records(p)'
<1>1. /\ proc \in [Procs -> Running]
      /\ Doc(p) \in Document
      /\ config \in Document
      /\ Records(p)
  BY DEF AloneSafe, TypeInv, TypeOK, Doc, Running, RecordsInv
<1>2. Agrees(config.last)
  <2>1. \A q \in Procs \ {p} : At(q, "idle")
    BY OthersIdle DEF AloneSafe, AloneInv
  <2> QED BY <2>1 DEF RecordsInv, At
<1> USE DEF Records, Agrees, At
<1>3. CASE /\ config' = config /\ startReport' = startReport
           /\ \/ Exit(p)
              \/ Fail(p) /\ Agrees(Doc(p).last)
              \/ \E doc : Persist(p, doc, {"config"}) /\ Agrees(doc.last)
              \/ \E doc : Persist(p, doc, {"config", "report"})
              \/ \E doc, cmd : \E step \in Steps \ {"idle", "load", "persist", "failing"} :
                    Become(p, cmd, step, doc, {}) /\ Agrees(doc.last)
  <2>1. CASE Exit(p)
    BY <1>1, <1>3, <2>1 DEF Exit, Idle
  <2>2. CASE Fail(p) /\ Agrees(Doc(p).last)
    BY <1>1, <1>3, <2>2, FailMoves DEF Idle
  <2>3. CASE \E doc : Persist(p, doc, {"config"}) /\ Agrees(doc.last)
    BY <1>1, <1>3, <2>3 DEF Persist, Become
  <2>4. CASE \E doc : Persist(p, doc, {"config", "report"})
    BY <1>1, <1>3, <2>4 DEF Persist, Become
  <2>5. CASE \E doc, cmd : \E step \in Steps \ {"idle", "load", "persist", "failing"} :
               Become(p, cmd, step, doc, {}) /\ Agrees(doc.last)
    BY <1>1, <1>3, <2>5 DEF Become
  <2> QED BY <1>3, <2>1, <2>2, <2>3, <2>4, <2>5
<1>4. ~At(p, "load") => Agrees(Doc(p).last)
  BY <1>1, StepIsActive DEF Doc
<1>5. CASE Refuse(p) \/ LoadSetup(p) \/ LoadEdit(p)
  <2>1. /\ \A c \in Contents : [Missing EXCEPT !.content = c].last = "none"
        /\ \A c \in Contents :
             [config EXCEPT !.content = c, !.phase = "unvalidated"].last = config.last
    BY <1>1 DEF Missing, Document
  <2> QED BY <1>2, <1>3, <1>5, <2>1 DEF Refuse, LoadSetup, LoadEdit
<1>6. CASE LoadRuntime(p)
  BY <1>2, <1>3, <1>6 DEF LoadRuntime, GoOn, Steps
<1>7. CASE HttpsOk(p) \/ HttpsFails(p) \/ LoadRelayCache(p) \/ KeepRelayCache(p)
           \/ RefreshRelayCache(p) \/ RefreshRelayCacheThrows(p)
  BY <1>3, <1>4, <1>7 DEF HttpsOk, HttpsFails, LoadRelayCache, KeepRelayCache,
     RefreshRelayCache, RefreshRelayCacheThrows, Goto, GoOn, Steps, FileNames, ProxyFiles
<1>8. CASE RenderFile(p) \/ RenderRelayCache(p) \/ PlanFails(p) \/ RenderThrows(p)
  <2>1. ~At(p, "load")
    BY <1>8 DEF RenderFile, RenderRelayCache, PlanFails, RenderThrows, FileNames, ProxyFiles,
       BundleFiles
  <2>2. \A f \in FileNames : AfterRender(p, f) \in Steps \ {"idle", "load", "persist", "failing"}
    BY DEF AfterRender, Steps, FileNames, ProxyFiles, BundleFiles
  <2>3. CASE RenderFile(p)
    BY <1>3, <1>4, <2>1, <2>2, <2>3 DEF RenderFile, Goto, GoOn
  <2>4. CASE RenderRelayCache(p)
    BY <1>3, <1>4, <2>1, <2>4 DEF RenderRelayCache, Goto, GoOn, Steps, FileNames, BundleFiles
  <2>5. CASE PlanFails(p) \/ RenderThrows(p)
    BY <1>3, <1>4, <2>1, <2>5 DEF PlanFails, RenderThrows
  <2> QED BY <1>8, <2>3, <2>4, <2>5
<1>9. CASE CheckThrows(p) \/ \E passes \in BOOLEAN : Check(p, passes)
  <2>1. \A phase : WithStatus(Doc(p), phase).last = Doc(p).last
    BY <1>1 DEF WithStatus, Document
  <2> QED BY <1>3, <1>4, <1>9, <2>1 DEF CheckThrows, Check
<1>10. CASE ComposeUp(p) \/ ComposeUpFails(p) \/ ComposeDown(p) \/ ComposeDownFails(p)
  <2>1. WithStatus(Doc(p), "validated").last = Doc(p).last
    BY <1>1 DEF WithStatus, Document
  <2> QED BY <1>3, <1>4, <1>10, <2>1 DEF ComposeUp, ComposeUpFails, ComposeDown, ComposeDownFails
<1>11. CASE SaveConfig(p) \/ SaveConfigThrows(p) \/ SaveStartReport(p) \/ SaveStartReportThrows(p)
  BY <1>1, <1>11 DEF SaveConfig, SaveConfigThrows, SaveStartReport, SaveStartReportThrows, Writing
<1> QED BY <1>5, <1>6, <1>7, <1>8, <1>9, <1>10, <1>11 DEF Step

LEMMA NextKeepsRecords ==
  ASSUME ~Overlap, Undisturbed
  PROVE  AloneSafe /\ RecordsInv /\ [Next]_vars => RecordsInv'
<1> SUFFICES ASSUME AloneSafe, RecordsInv, [Next]_vars PROVE RecordsInv'
  OBVIOUS
<1>1. proc \in [Procs -> Running] BY DEF AloneSafe, TypeInv, TypeOK
<1>2. ASSUME NEW p \in Procs, Step(p) PROVE RecordsInv'
  <2>1. \A q \in Procs \ {p} : At(q, "idle") /\ At(q, "idle")'
    BY <1>2, OthersIdle DEF AloneSafe, AloneInv
  <2>2. \A q \in Procs \ {p} : Records(q)' BY <2>1 DEF Records, At
  <2>3. CASE At(p, "persist")
    <3>1. \/ SaveConfig(p) \/ SaveConfigThrows(p)
          \/ SaveStartReport(p) \/ SaveStartReportThrows(p)
      BY <1>2, <2>3 DEF Step, At, Refuse, LoadSetup, LoadEdit, LoadRuntime, HttpsOk, HttpsFails,
         LoadRelayCache, KeepRelayCache, RefreshRelayCache, RefreshRelayCacheThrows,
         RenderFile, RenderRelayCache, PlanFails, RenderThrows, CheckThrows, Check,
         ComposeUp, ComposeUpFails, ComposeDown, ComposeDownFails,
         FileNames, ProxyFiles, BundleFiles
    <3> QED BY <2>2, <3>1, SaveKeepsRecords DEF RecordsInv
  <2>4. CASE ~At(p, "persist")
    <3>1. config' = config /\ startReport' = startReport /\ Records(p)'
      BY <1>2, <2>4, OtherKeepsRecords
    <3>2. \A q \in Procs : ~At(q, "persist") BY <2>1, <2>4 DEF At
    <3> QED BY <2>2, <3>1, <3>2 DEF RecordsInv, Agrees
  <2> QED BY <2>3, <2>4
<1>3. ASSUME NEW p \in Procs, NEW c \in Commands, Begin(p, c) PROVE RecordsInv'
  BY <1>1, <1>3 DEF Begin, Enter, Become, Active, At, RecordsInv, Records, Agrees
<1>4. ASSUME NEW p \in Procs, Crash(p) PROVE RecordsInv'
  BY <1>4 DEF Crash, Undisturbed
<1>5. CASE ContainersExit \/ ContainersRestart \/ UNCHANGED vars
  BY <1>5 DEF ContainersExit, ContainersRestart, vars, RecordsInv, Records, Agrees, At
<1> QED BY <1>2, <1>3, <1>4, <1>5 DEF Next

\* One command at a time, and as long as no command dies and no write fails: when
\* none is running, config.json and last-start.json tell of the same start,
\* also after a rejected one, and one that Docker failed.
THEOREM RecordsAgree == ASSUME ~Overlap, Undisturbed PROVE Spec => []StartRecordsAgree
<1>1. RecordsInv => StartRecordsAgree
  BY DEF RecordsInv, StartRecordsAgree, Agrees, Active, At
<1> QED BY <1>1, InitRecords, NextKeepsRecords, AloneIsSafe, PTL DEF Spec
=============================================================================
