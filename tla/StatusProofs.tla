---------------------------- MODULE StatusProofs ----------------------------
(***************************************************************************)
(* Theorems about what status and doctor say, for every set of processes,  *)
(* contents, commands, faults and verdicts.                                *)
(***************************************************************************)
EXTENDS StatusView, LifecycleAlone

\* A container that is not listed is stopped, to status.
LEMMA AbsentIsStopped ==
  ASSUME NEW v, NEW k \in Containers, v.ps[k] = "absent"
  PROVE  Live(v, k) = "stopped"
BY DEF Live, LiveState

\* Of a runtime that is neither down altogether nor up altogether doctor says
\* "fail".
LEMMA HalfUpFails ==
  ASSUME NEW v, NEW k \in Containers, Live(v, k) # "stopped", ~All(v, "running")
  PROVE  RuntimeCheck(v) = "fail"
<1>1. v.ps[k] # "absent" BY AbsentIsStopped
<1> QED BY <1>1 DEF RuntimeCheck

\* One failing check is enough.
LEMMA OneFails ==
  ASSUME NEW v, "fail" \in {ValidationCheck(v), RuntimeCheck(v), LastStartCheck(v)}
  PROVE  Overall(v) = "fail"
BY DEF Overall, Checks

\* Status never says "error", "degraded" or "starting" of answers over which
\* doctor does not fail: of any answers at all, torn or contradictory.
LEMMA TroubleIsSeen ==
  ASSUME NEW v, OverallPhase(v) \in {"error", "degraded", "starting"}
  PROVE  Overall(v) = "fail"
<1>1. CASE v.compose = "failed"
  BY <1>1, OneFails DEF RuntimeCheck
<1>2. CASE \E k \in Containers : Live(v, k) \in {"degraded", "running", "starting"}
  <2>1. PICK k \in Containers : Live(v, k) \in {"degraded", "running", "starting"}
    BY <1>2
  <2>2. CASE v.compose # "failed"
    <3>1. ~All(v, "running")
      BY <2>2 DEF OverallPhase, All, Some
    <3> QED BY <2>1, <3>1, HalfUpFails, OneFails
  <2> QED BY <1>1, <2>2
<1>3. CASE /\ v.compose # "failed"
           /\ \A k \in Containers : Live(v, k) \notin {"degraded", "running", "starting"}
  <2>1. ~All(v, "running")
    BY <1>3 DEF All, Containers
  <2>2. v.doc.phase \in {"running", "error"} \/ LastStart(v) = "failure"
    BY <1>3, <2>1 DEF OverallPhase, Some
  <2> QED BY <1>3, <2>1, <2>2, OneFails DEF RuntimeCheck, ValidationCheck, LastStartCheck
<1> QED BY <1>1, <1>2, <1>3

\* The two never send an operator different ways, whatever the installation went
\* through and however torn the answers are.
THEOREM DoctorSeesAllTrouble == ViewSpec => []DoctorSeesTrouble
<1>1. DoctorSeesTrouble BY TroubleIsSeen DEF DoctorSeesTrouble
<1> QED BY <1>1, PTL

-----------------------------------------------------------------------------
(* A reading against what is.  Readers change nothing, so the installation is *)
(* one of Lifecycle; of one command at a time all of LifecycleAlone holds.    *)

LEMMA ViewersOnlyRead == ViewSpec => Spec
<1>1. [ViewNext]_<<vars, viewVars>> => [Next]_vars
  BY DEF ViewNext, Read, Move, viewVars
<1> QED BY <1>1, PTL DEF ViewSpec, ViewInit, Spec

ViewFields == {"tool", "todo", "still", "moved", "doc", "missing", "manifest", "relays", "checked",
               "report", "compose", "ps"}

\* What a reader nobody moved under has read so far is what is.
UpToDate ==
  /\ Still /\ view.doc = config
  /\ "artifacts" \notin view.todo =>
       /\ view.relays = relays
       /\ view.missing = {f \in ProxyFiles : files[f] = Absent}
       /\ view.checked = IF checked.entry = Absent THEN "absent"
                         ELSE IF checked.ok THEN "ok" ELSE "failed"
  /\ "report" \notin view.todo => view.report = startReport
  /\ "compose" \notin view.todo =>
       view.compose = "failed" \/ (view.compose = "ok" /\ view.ps \in Listings)

ReadInv ==
  /\ DOMAIN view = ViewFields
  /\ view.moved \in Nat
  /\ view.tool = "report" /\ view.still /\ view.moved = 0 => UpToDate

LEMMA UnreadFacts ==
  DOMAIN Unread = ViewFields /\ Unread.tool = "none" /\ Unread.moved = 0
BY DEF Unread, ViewFields

LEMMA InitRead == ViewInit => ReadInv
BY UnreadFacts DEF ViewInit, ReadInv

LEMMA ReadKeepsRead == ReadInv /\ Read => ReadInv'
<1> SUFFICES ASSUME ReadInv, Read PROVE ReadInv'
  OBVIOUS
<1>1. /\ config' = config /\ relays' = relays /\ files' = files /\ checked' = checked
      /\ startReport' = startReport /\ docker' = docker /\ proc' = proc
  BY DEF Read, vars
<1>2. Still' = Still /\ Listings' = Listings
  BY <1>1 DEF Still, Active, Listings, Plainly
<1>3. ASSUME NEW tool, LoadView(tool) PROVE ReadInv'
  <2>1. /\ DOMAIN view' = ViewFields
        /\ view'.tool = tool /\ view'.todo = Sources(tool) /\ view'.moved = 0
        /\ view'.still = Still /\ view'.doc = config
    BY <1>3 DEF LoadView, Unread, ViewFields
  <2> QED BY <1>1, <1>2, <2>1 DEF ReadInv, UpToDate, Sources
<1>4. CASE ReadArtifacts
  <2> DEFINE missing == {f \in ProxyFiles : files[f] = Absent}
             word == IF checked.entry = Absent THEN "absent" ELSE IF checked.ok THEN "ok" ELSE "failed"
  <2>1. /\ DOMAIN view' = ViewFields /\ view'.todo = view.todo \ {"artifacts"}
        /\ view'.relays = relays /\ view'.missing = missing /\ view'.checked = word
        /\ \A f \in ViewFields \ {"todo", "relays", "missing", "manifest", "checked"} : view'[f] = view[f]
    BY <1>4 DEF ReadArtifacts, ReadInv, ViewFields
  <2> QED BY <1>1, <1>2, <2>1 DEF ReadInv, UpToDate, ViewFields
<1>5. CASE ReadReport
  <2>1. /\ DOMAIN view' = ViewFields /\ view'.todo = view.todo \ {"report"}
        /\ view'.report = startReport
        /\ \A f \in ViewFields \ {"todo", "report"} : view'[f] = view[f]
    BY <1>5 DEF ReadReport, ReadInv, ViewFields
  <2> QED BY <1>1, <1>2, <2>1 DEF ReadInv, UpToDate, ViewFields
<1>6. CASE InspectRuntime
  <2>1. /\ DOMAIN view' = ViewFields /\ view'.todo = view.todo \ {"compose"}
        /\ view'.compose = "failed" \/ (view'.compose = "ok" /\ view'.ps \in Listings)
        /\ \A f \in ViewFields \ {"todo", "compose", "ps"} : view'[f] = view[f]
    BY <1>6 DEF InspectRuntime, ReadInv, ViewFields
  <2> QED BY <1>1, <1>2, <2>1 DEF ReadInv, UpToDate, ViewFields
<1>7. CASE ReadLogs
  BY <1>7 DEF ReadLogs, ReadInv, ViewFields
<1>8. CASE Dismiss
  BY <1>8, UnreadFacts DEF Dismiss, ReadInv
<1> QED BY <1>3, <1>4, <1>5, <1>6, <1>7, <1>8 DEF Read

LEMMA ViewKeepsRead == ReadInv /\ [ViewNext]_<<vars, viewVars>> => ReadInv'
<1> SUFFICES ASSUME ReadInv, [ViewNext]_<<vars, viewVars>> PROVE ReadInv'
  OBVIOUS
<1>1. CASE Move
  <2>1. CASE view' = Unread
    BY <2>1, UnreadFacts DEF ReadInv
  <2>2. CASE view' = [view EXCEPT !.moved = @ + 1]
    BY <2>2 DEF ReadInv, ViewFields
  <2> QED BY <1>1, <2>1, <2>2 DEF Move
<1>2. CASE UNCHANGED <<vars, viewVars>>
  BY <1>2 DEF vars, viewVars, ReadInv, UpToDate, Still, Active, Listings, Plainly
<1> QED BY <1>1, <1>2, ReadKeepsRead DEF ViewNext

\* `ps` lists what runs, and nothing else; a container in trouble is listed, but not
\* as running.
LEMMA ListingFacts ==
  ASSUME NEW ps \in Listings, NEW k \in Containers
  PROVE  /\ ps[k] = "running" => docker.runs[k] # Absent
         /\ docker.runs[k] = Absent => ps[k] = "absent"
         /\ ps[k] \in {"absent", "running", "restarting", "unknown"}
<1>1. CASE ps = Plainly
  BY <1>1 DEF Plainly
<1>2. CASE \E j \in Containers, state \in {"restarting", "unknown"} :
              docker.runs[j] # Absent /\ ps = [Plainly EXCEPT ![j] = state]
  BY <1>2 DEF Plainly
<1> QED BY <1>1, <1>2 DEF Listings

-----------------------------------------------------------------------------
(* What a step of a command carries on: between its saves it makes no record, *)
(* but the one of a start it announces, and never comes to claim "running"    *)
(* without Compose.                                                           *)

Carries(p) ==
  \/ proc'[p] = Idle
  \/ Announced(p) /\ (ComposeUp(p) \/ proc'[p].doc.phase = "error")
  \/ /\ proc'[p].at # "failing" /\ "report" \notin proc'[p].todo
     /\ proc'[p].doc.last \in {"none", config.last, Doc(p).last}
     /\ proc'[p].at = "persist" => proc'[p].doc.phase # "running"

LEMMA FailCarries ==
  ASSUME NEW p \in Procs, proc \in [Procs -> Running], Fail(p), ~Saving(p)
  PROVE  Carries(p)
BY FailMoves DEF Carries, Announced, At, Saving

LEMMA StepCarries ==
  ASSUME TypeInv, NEW p \in Procs, Step(p), ~Saving(p)
  PROVE  config' = config /\ startReport' = startReport /\ Carries(p)
<1>1. /\ proc \in [Procs -> Running]
      /\ Doc(p) \in Document
      /\ config \in Document
  BY DEF TypeInv, TypeOK, Doc, Running
<1>2. CASE /\ config' = config /\ startReport' = startReport
           /\ \/ Exit(p) \/ Fail(p)
              \/ \E doc : /\ Persist(p, doc, {"config"}) /\ doc.phase # "running"
                          /\ doc.last \in {"none", config.last, Doc(p).last}
              \/ \E doc, cmd : \E step \in Steps \ {"persist", "failing"} :
                    Become(p, cmd, step, doc, {}) /\ doc.last \in {config.last, Doc(p).last}
  <2>1. CASE Exit(p)
    BY <1>1, <1>2, <2>1 DEF Exit, Carries
  <2>2. CASE Fail(p)
    BY <1>1, <1>2, <2>2, FailCarries
  <2>3. CASE \E doc : /\ Persist(p, doc, {"config"}) /\ doc.phase # "running"
                      /\ doc.last \in {"none", config.last, Doc(p).last}
    BY <1>1, <1>2, <2>3 DEF Persist, Become, Carries
  <2>4. CASE \E doc, cmd : \E step \in Steps \ {"persist", "failing"} :
               Become(p, cmd, step, doc, {}) /\ doc.last \in {config.last, Doc(p).last}
    BY <1>1, <1>2, <2>4 DEF Become, Carries
  <2> QED BY <1>2, <2>1, <2>2, <2>3, <2>4
<1>3. \A phase : /\ WithStatus(Doc(p), phase).last = Doc(p).last
                 /\ WithStatus(Doc(p), phase).phase = phase
  BY <1>1 DEF WithStatus, Document
<1>5. CASE Refuse(p) \/ LoadSetup(p) \/ LoadEdit(p)
  <2>1. /\ \A c \in Contents : /\ [Missing EXCEPT !.content = c].last = "none"
                               /\ [Missing EXCEPT !.content = c].phase = "unvalidated"
        /\ \A c \in Contents :
             /\ [config EXCEPT !.content = c, !.phase = "unvalidated"].last = config.last
             /\ [config EXCEPT !.content = c, !.phase = "unvalidated"].phase = "unvalidated"
    BY <1>1 DEF Missing, Document
  <2> QED BY <1>2, <1>5, <2>1 DEF Refuse, LoadSetup, LoadEdit
<1>6. CASE LoadRuntime(p)
  BY <1>2, <1>6 DEF LoadRuntime, GoOn, Steps
<1>7. CASE HttpsOk(p) \/ HttpsFails(p) \/ LoadRelayCache(p) \/ KeepRelayCache(p)
           \/ RefreshRelayCache(p) \/ RefreshRelayCacheThrows(p)
  BY <1>2, <1>7 DEF HttpsOk, HttpsFails, LoadRelayCache, KeepRelayCache,
     RefreshRelayCache, RefreshRelayCacheThrows, Goto, GoOn, Steps, FileNames, ProxyFiles
<1>8. CASE RenderFile(p) \/ RenderRelayCache(p) \/ PlanFails(p) \/ RenderThrows(p)
  <2>1. \A f \in FileNames : AfterRender(p, f) \in Steps \ {"persist", "failing"}
    BY DEF AfterRender, Steps, FileNames, ProxyFiles, BundleFiles
  <2>2. CASE RenderFile(p)
    BY <1>2, <2>1, <2>2 DEF RenderFile, Goto, GoOn
  <2>3. CASE RenderRelayCache(p)
    BY <1>2, <2>3 DEF RenderRelayCache, Goto, GoOn, Steps, FileNames, BundleFiles
  <2>4. CASE PlanFails(p) \/ RenderThrows(p)
    BY <1>2, <2>4 DEF PlanFails, RenderThrows
  <2> QED BY <1>8, <2>2, <2>3, <2>4
<1>9. CASE CheckThrows(p) \/ \E passes \in BOOLEAN : Check(p, passes)
  BY <1>2, <1>3, <1>9 DEF CheckThrows, Check
<1>10. CASE ComposeUpFails(p) \/ ComposeDown(p) \/ ComposeDownFails(p)
  BY <1>2, <1>3, <1>10 DEF ComposeUpFails, ComposeDown, ComposeDownFails
<1>11. CASE ComposeUp(p)
  BY <1>1, <1>11 DEF ComposeUp, Persist, Become, Carries, Announced, At
<1>12. CASE SaveConfig(p) \/ SaveConfigThrows(p) \/ SaveStartReport(p) \/ SaveStartReportThrows(p)
  BY <1>12 DEF SaveConfig, SaveConfigThrows, SaveStartReport, SaveStartReportThrows, Writing, Saving
<1> QED BY <1>5, <1>6, <1>7, <1>8, <1>9, <1>10, <1>11, <1>12 DEF Step

\* At its saves a command does nothing but save.
LEMMA SavingSaves ==
  ASSUME NEW p \in Procs, Step(p), Saving(p)
  PROVE  \/ SaveConfig(p) \/ SaveConfigThrows(p)
         \/ SaveStartReport(p) \/ SaveStartReportThrows(p)
BY DEF Step, Saving, At, Refuse, LoadSetup, LoadEdit, LoadRuntime, HttpsOk, HttpsFails,
   LoadRelayCache, KeepRelayCache, RefreshRelayCache, RefreshRelayCacheThrows,
   RenderFile, RenderRelayCache, PlanFails, RenderThrows, CheckThrows, Check,
   ComposeUp, ComposeUpFails, ComposeDown, ComposeDownFails, FileNames, ProxyFiles, BundleFiles

\* Who dies at a save, or fails at one, is alone and does not begin anew.
LEMMA UnrecordedEnds ==
  ASSUME AloneSafe, NEW p \in Procs, Unrecorded(p)
  PROVE  \A q \in Procs : proc'[q].at \in {"idle", "failing"}
<1>1. proc \in [Procs -> Running] /\ Solo
  BY DEF AloneSafe, TypeInv, TypeOK, AloneInv
<1>2. Active(p) /\ \A q \in Procs \ {p} : At(q, "idle")
  BY <1>1 DEF Unrecorded, Crash, SaveConfigThrows, SaveStartReportThrows, Writing, Active, At, Solo
<1>3. CASE Crash(p)
  BY <1>1, <1>2, <1>3 DEF Crash, Exit, Idle, At
<1>4. CASE \E target : WriteFailed(p, target)
  BY <1>1, <1>2, <1>4, WriteFailedMoves DEF At, Idle
<1> QED BY <1>3, <1>4 DEF Unrecorded, SaveConfigThrows, SaveStartReportThrows

-----------------------------------------------------------------------------
(* The last start.  Its outcome is in the report, or about to be written; one *)
(* that never was is nowhere.                                                 *)

Pending(p) == At(p, "persist") /\ "report" \in proc[p].todo

Told ==
  /\ outcome \in Outcomes \cup {"unknown"}
  /\ outcome = "none" =>
       /\ startReport = "absent" /\ config.last = "none"
       /\ \A p \in Procs : proc[p].doc.last = "none"
  /\ outcome \in {"success", "failure"} => startReport = outcome \/ \E p \in Procs : Pending(p)
  /\ \A p \in Procs : /\ Pending(p) => outcome = proc[p].doc.last
                      /\ At(p, "failing") => outcome = "unknown"

LEMMA InitTold == ViewInit => Told
BY DEF ViewInit, Init, Told, Outcomes, Missing, Idle, Pending, At

\* A save of a record, with the other one or without.
LEMMA SaveTells ==
  ASSUME AloneSafe, Told, NEW p \in Procs, Step(p), SaveConfig(p) \/ SaveStartReport(p),
         outcome' = outcome
  PROVE  Told'
<1>1. /\ proc \in [Procs -> Running] /\ Loaded
      /\ \A q \in Procs \ {p} : At(q, "idle") /\ At(q, "idle")' /\ proc'[q] = proc[q]
  BY OthersIdle, StepKeepsCommitted DEF AloneSafe, AloneInv, TypeInv, TypeOK
<1>2. CASE At(p, "failing")
  <2>1. outcome = "unknown" BY <1>2 DEF Told
  <2>2. proc'[p] = Idle \/ At(p, "failing")'
    BY <1>1, <1>2, WrittenMoves DEF SaveConfig, SaveStartReport, At
  <2> QED BY <1>1, <2>1, <2>2 DEF Told, Pending, At, Idle
<1>3. CASE At(p, "persist") /\ SaveConfig(p)
  <2>1. config' = Doc(p) /\ startReport' = startReport /\ "config" \in proc[p].todo
    BY <1>3 DEF SaveConfig, Writing
  <2>2. Pending(p) => At(p, "persist")' /\ proc'[p].doc = Doc(p) /\ "report" \in proc'[p].todo
    BY <1>1, <1>3 DEF SaveConfig, Written, Become, Left, Pending, At, Running
  <2>3. /\ Pending(p)' => Pending(p) /\ proc'[p].doc = Doc(p)
        /\ ~At(p, "failing")' /\ proc'[p].doc \in {Doc(p), Missing}
    BY <1>1, <1>3, WrittenMoves DEF SaveConfig, Pending, At, Left, Idle
  <2> QED BY <1>1, <2>1, <2>2, <2>3 DEF Told, Doc, Missing, Pending, At
<1>4. CASE At(p, "persist") /\ SaveStartReport(p)
  <2>1. /\ config' = config /\ startReport' = Doc(p).last
        /\ Pending(p) /\ outcome = Doc(p).last /\ outcome # "none"
    BY <1>1, <1>4 DEF SaveStartReport, Writing, Pending, Told, Doc, Loaded
  <2>2. ~Pending(p)' /\ ~At(p, "failing")'
    BY <1>1, <1>4, WrittenMoves DEF SaveStartReport, Pending, At, Left, Idle
  <2> QED BY <1>1, <2>1, <2>2 DEF Told, Pending, At
<1> QED BY <1>2, <1>3, <1>4 DEF SaveConfig, SaveStartReport, Writing, At

LEMMA MoveTells == AloneSafe /\ AloneSafe' /\ Told /\ Move => Told'
<1> SUFFICES ASSUME AloneSafe, AloneSafe', Told, Move PROVE Told'
  OBVIOUS
<1>1. CASE \E p \in Procs : Unrecorded(p) /\ outcome' = "unknown"
  <2>1. \A q \in Procs : proc'[q].at \in {"idle", "failing"} BY <1>1, UnrecordedEnds
  <2> QED BY <1>1, <2>1 DEF Told, Pending, At
<1>2. CASE \E p \in Procs : Announced(p) /\ outcome' = proc'[p].doc.last
  <2>1. PICK p \in Procs : Announced(p) /\ outcome' = proc'[p].doc.last BY <1>2
  <2>2. proc' \in [Procs -> Running] /\ Loaded' /\ Solo'
    BY DEF AloneSafe, TypeInv, TypeOK, AloneInv
  <2>3. Pending(p)' /\ \A q \in Procs \ {p} : At(q, "idle")'
    BY <2>1, <2>2 DEF Announced, Pending, At, Solo, Active
  <2>4. outcome' \in Outcomes \ {"none"} BY <2>1, <2>2, <2>3 DEF Loaded, Pending, Running, Document
  <2> QED BY <2>1, <2>3, <2>4 DEF Told, Pending, At
<1>3. CASE ~(\E p \in Procs : Unrecorded(p) \/ Announced(p)) /\ outcome' = outcome
  <2>1. ASSUME NEW p \in Procs, Step(p) PROVE Told'
    <3>1. CASE Saving(p)
      <4>1. SaveConfig(p) \/ SaveStartReport(p)
        BY <1>3, <2>1, <3>1, SavingSaves DEF Unrecorded
      <4> QED BY <1>3, <2>1, <4>1, SaveTells
    <3>2. CASE ~Saving(p)
      <4>1. /\ config' = config /\ startReport' = startReport /\ Carries(p)
            /\ \A q \in Procs \ {p} : At(q, "idle") /\ At(q, "idle")' /\ proc'[q] = proc[q]
        BY <2>1, <3>2, StepCarries, OthersIdle, StepKeepsCommitted DEF AloneSafe, AloneInv
      <4>2. /\ ~At(p, "failing")' /\ ~Pending(p)'
            /\ proc'[p].doc.last \in {"none", config.last, Doc(p).last}
        BY <1>3, <4>1 DEF Carries, At, Pending, Idle, Missing
      <4>3. \A q \in Procs : ~Pending(q) BY <3>2, <4>1 DEF Pending, At, Saving
      <4> QED BY <1>3, <4>1, <4>2, <4>3 DEF Told, Pending, At, Doc
    <3> QED BY <3>1, <3>2
  <2>2. ASSUME NEW p \in Procs, NEW c \in Commands, Begin(p, c) PROVE Told'
    <3>1. proc \in [Procs -> Running] BY DEF AloneSafe, TypeInv, TypeOK
    <3>2. /\ config' = config /\ startReport' = startReport
          /\ proc'[p].at = "load" /\ proc'[p].doc = Missing
          /\ \A q \in Procs \ {p} : proc'[q] = proc[q]
      BY <2>2, <3>1 DEF Begin, Enter, Become
    <3>3. ~Pending(p) BY <2>2 DEF Begin, Pending, At
    <3> QED BY <1>3, <3>2, <3>3 DEF Told, Pending, At, Missing
  <2>3. ASSUME NEW p \in Procs, Crash(p) PROVE Told'
    BY <1>3, <2>3 DEF Unrecorded
  <2>4. CASE ContainersExit \/ ContainersRestart
    BY <1>3, <2>4 DEF ContainersExit, ContainersRestart, Told, Pending, At
  <2> QED BY <2>1, <2>2, <2>3, <2>4 DEF Move, Next
<1> QED BY <1>1, <1>2, <1>3 DEF Move

\* A step of a reader, or none, leaves the installation and its history alone.
LEMMA ReadersLeave ==
  ASSUME [ViewNext]_<<vars, viewVars>>, ~Move
  PROVE  UNCHANGED <<vars, disturbed, outcome>>
BY DEF ViewNext, Read, viewVars

LEMMA ViewKeepsTold ==
  AloneSafe /\ AloneSafe' /\ Told /\ [ViewNext]_<<vars, viewVars>> => Told'
<1> SUFFICES ASSUME AloneSafe, AloneSafe', Told, [ViewNext]_<<vars, viewVars>> PROVE Told'
  OBVIOUS
<1>1. CASE ~Move
  <2>1. UNCHANGED <<config, startReport, proc, outcome>> BY <1>1, ReadersLeave DEF vars
  <2> QED BY <2>1 DEF Told, Pending, At
<1> QED BY <1>1, MoveTells

\* Of commands one at a time, whatever failed, crashed or was rejected: status and
\* doctor tell how the last start ended that could record it.
THEOREM LastStartTold == ASSUME ~Overlap PROVE ViewSpec => []LastStartIsTold
<1>1. ReadInv /\ Told => LastStartIsTold
  <2> SUFFICES ASSUME ReadInv, Told, Quiet, outcome # "unknown"
               PROVE  LastStart(view) = outcome
    BY DEF LastStartIsTold
  <2>1. UpToDate /\ view.todo = {} BY DEF ReadInv, Quiet, Said
  <2>2. /\ view.doc = config /\ view.report = startReport
        /\ \A p \in Procs : ~Pending(p)
    BY <2>1 DEF UpToDate, Still, Active, Pending, At
  <2> QED BY <2>2 DEF Told, Outcomes, LastStart
<1> QED BY <1>1, InitRead, ViewKeepsRead, InitTold, ViewKeepsTold, ViewersOnlyRead, AloneIsSafe, PTL
        DEF ViewSpec

-----------------------------------------------------------------------------
(* Order.  As long as nothing went wrong since Compose last brought what runs *)
(* up or down, all of it runs or none; and a config that says "running" of     *)
(* nothing is one a stop is about to withdraw.                                *)

Full == \A k \in Containers : docker.runs[k] # Absent
Empty == \A k \in Containers : docker.runs[k] = Absent

Withdraws(p) == At(p, "persist") /\ "config" \in proc[p].todo /\ proc[p].doc.phase # "running"

Orderly ==
  ~disturbed =>
    /\ Full \/ Empty
    /\ config.phase = "running" => Full \/ \E p \in Procs : Withdraws(p)
    /\ \A p \in Procs : Saving(p) /\ proc[p].doc.phase = "running" => Full

LEMMA InitOrderly == ViewInit => Orderly
BY DEF ViewInit, Init, Orderly, Down, Full, Empty, Missing, Idle, Saving

\* What is orderly stays so while it is full: there is nothing to be said of phases.
LEMMA FullIsOrderly == Full => Orderly
BY DEF Orderly

LEMMA UpIsFull ==
  ASSUME AloneSafe, NEW p \in Procs, ComposeUp(p)
  PROVE  Full'
<1>1. MountsRendered BY DEF AloneSafe, MountInv, Progress, ComposeUp, At
<1> QED BY <1>1 DEF ComposeUp, Mounted, MountsRendered, Full

LEMMA DownIsOrderly ==
  ASSUME AloneSafe, NEW p \in Procs, ComposeDown(p)
  PROVE  Orderly'
<1>1. /\ proc \in [Procs -> Running] /\ Doc(p) \in Document /\ Step(p)
  BY DEF AloneSafe, TypeInv, TypeOK, Doc, Running, Step
<1>2. \A q \in Procs \ {p} : At(q, "idle")'
  BY <1>1, OthersIdle DEF AloneSafe, AloneInv
<1>3. Empty' BY DEF ComposeDown, Down, Empty
<1>4. Withdraws(p)'
  BY <1>1 DEF ComposeDown, Persist, Become, Withdraws, At, WithStatus, Document
<1> QED BY <1>2, <1>3, <1>4 DEF Orderly, Withdraws, Saving, At

\* Where nothing runs and nothing goes wrong, a step of a command cannot come to say
\* that it does.
LEMMA EmptyStepOrderly ==
  ASSUME AloneSafe, Orderly, ~disturbed, ~Full, NEW p \in Procs, Step(p),
         ~Upset(p), ~ComposeUp(p), docker' = docker
  PROVE  Orderly'
<1>1. /\ proc \in [Procs -> Running] /\ Doc(p) \in Document
      /\ \A q \in Procs \ {p} : At(q, "idle") /\ At(q, "idle")'
  BY OthersIdle DEF AloneSafe, TypeInv, TypeOK, AloneInv, Doc, Running
<1>2. /\ Empty /\ Empty'
      /\ config.phase = "running" => Withdraws(p)
      /\ Saving(p) => Doc(p).phase # "running"
  BY <1>1 DEF Orderly, Withdraws, At, Empty, Full, Doc
<1>3. SUFFICES /\ config'.phase = "running" => Withdraws(p)'
               /\ Saving(p)' => proc'[p].doc.phase # "running"
  BY <1>1, <1>2 DEF Orderly, Saving, At
<1>4. CASE ~Saving(p)
  <2>1. config' = config /\ Carries(p) BY <1>4, StepCarries DEF AloneSafe
  <2>2. config.phase # "running" BY <1>2, <1>4 DEF Withdraws, Saving, At
  <2> QED BY <2>1, <2>2 DEF Carries, Saving, Idle
<1>5. CASE Saving(p)
  <2>1. SaveConfig(p) \/ SaveStartReport(p)
    BY <1>5, SavingSaves DEF Upset, Unrecorded
  <2>2. Saving(p)' => proc'[p].doc = Doc(p)
    BY <1>1, <2>1, WrittenMoves DEF SaveConfig, SaveStartReport, Saving, Idle
  <2>3. CASE SaveConfig(p)
    BY <1>2, <1>5, <2>2, <2>3 DEF SaveConfig
  <2>4. CASE SaveStartReport(p)
    <3>1. Withdraws(p) => Withdraws(p)'
      BY <1>1, <2>4 DEF SaveStartReport, Written, Become, Left, Withdraws, At, Running, Doc
    <3> QED BY <1>2, <1>5, <2>2, <2>4, <3>1 DEF SaveStartReport
  <2> QED BY <2>1, <2>3, <2>4
<1> QED BY <1>4, <1>5

LEMMA MoveOrders == AloneSafe /\ Orderly /\ Move => Orderly'
<1> SUFFICES ASSUME AloneSafe, Orderly, Move, ~disturbed' PROVE Orderly'
  BY DEF Orderly
<1>1. /\ ~ContainersExit /\ ~\E p \in Procs : Upset(p)
      /\ disturbed => \E p \in Procs : ComposeUp(p) \/ ComposeDown(p)
  BY DEF Move
<1>2. CASE \E p \in Procs : ComposeUp(p) \/ ComposeDown(p)
  <2>1. Full' \/ Orderly' BY <1>2, UpIsFull, DownIsOrderly
  <2> QED BY <2>1 DEF Orderly
<1>3. CASE ~(\E p \in Procs : ComposeUp(p) \/ ComposeDown(p))
  <2>1. ASSUME NEW p \in Procs, Step(p) PROVE Orderly'
    <3>1. docker' = docker
      BY <1>1, <1>3, <2>1, StepOnWorld DEF SameWorld, Upset
    <3>2. CASE Full
      BY <3>1, <3>2 DEF Full, Orderly
    <3>3. CASE ~Full
      BY <1>1, <1>3, <2>1, <3>1, <3>3, EmptyStepOrderly
    <3> QED BY <3>2, <3>3
  <2>2. ASSUME NEW p \in Procs, NEW c \in Commands, Begin(p, c) PROVE Orderly'
    <3>1. proc \in [Procs -> Running] BY DEF AloneSafe, TypeInv, TypeOK
    <3>2. /\ config' = config /\ docker' = docker /\ proc'[p].at = "load"
          /\ \A q \in Procs \ {p} : proc'[q] = proc[q]
      BY <2>2, <3>1 DEF Begin, Enter, Become
    <3>3. ~Withdraws(p) BY <2>2 DEF Begin, Withdraws, At
    <3> QED BY <1>1, <1>3, <3>2, <3>3 DEF Orderly, Full, Empty, Withdraws, Saving, At
  <2>3. ASSUME NEW p \in Procs, Crash(p) PROVE Orderly'
    BY <1>1, <2>3 DEF Upset, Unrecorded
  <2>4. CASE ContainersRestart
    <3>1. /\ config' = config /\ proc' = proc
          /\ \A k \in Containers : docker'.runs[k] # Absent <=> docker.runs[k] # Absent
      BY <2>4 DEF ContainersRestart, AloneSafe, MountInv, TypeInv, TypeOK, Compose
    <3> QED BY <1>1, <1>3, <3>1 DEF Orderly, Full, Empty, Withdraws, Saving, At
  <2> QED BY <1>1, <2>1, <2>2, <2>3, <2>4 DEF Move, Next
<1> QED BY <1>2, <1>3

LEMMA ViewKeepsOrderly ==
  AloneSafe /\ Orderly /\ [ViewNext]_<<vars, viewVars>> => Orderly'
<1> SUFFICES ASSUME AloneSafe, Orderly, [ViewNext]_<<vars, viewVars>> PROVE Orderly'
  OBVIOUS
<1>1. CASE ~Move
  <2>1. UNCHANGED <<config, docker, proc, disturbed>> BY <1>1, ReadersLeave DEF vars
  <2> QED BY <2>1 DEF Orderly, Full, Empty, Withdraws, Saving, At
<1> QED BY <1>1, MoveOrders

\* Of commands one at a time: a status nobody moved under says "degraded" only where
\* something went wrong since the runtime was last brought up or down, or a container
\* is in trouble now; never of what was stopped, edited or set up again in order.
THEOREM DegradedOnlyIfDisturbed == ASSUME ~Overlap PROVE ViewSpec => []DegradedIsDisturbed
<1>1. ReadInv /\ Orderly => DegradedIsDisturbed
  <2> SUFFICES ASSUME ReadInv, Orderly, Quiet, ~disturbed, ~Listless
               PROVE  OverallPhase(view) # "degraded"
    BY DEF DegradedIsDisturbed
  <2>1. UpToDate /\ view.todo = {} BY DEF ReadInv, Quiet, Said
  <2>2. /\ view.doc = config
        /\ view.compose = "failed" \/ (view.compose = "ok" /\ view.ps \in Listings)
        /\ \A p \in Procs : ~Withdraws(p)
    BY <2>1 DEF UpToDate, Still, Active, Withdraws, At
  <2>3. (Full \/ Empty) /\ (config.phase = "running" => Full) BY <2>2 DEF Orderly
  <2>4. CASE view.compose = "failed"
    BY <2>4 DEF OverallPhase
  <2>5. CASE view.compose # "failed" /\ Full
    <3>1. \A k \in Containers : Live(view, k) = "running"
      BY <2>5 DEF Full, Listless, Live, LiveState
    <3> QED BY <2>5, <3>1 DEF OverallPhase, All, Some
  <2>6. CASE view.compose # "failed" /\ Empty /\ ~Full
    <3>1. \A k \in Containers : Live(view, k) = "stopped"
      BY <2>2, <2>6, ListingFacts DEF Empty, Live, LiveState
    <3>2. "entry" \in Containers BY DEF Containers
    <3>3. view.doc.phase # "running" BY <2>2, <2>3, <2>6
    <3> QED BY <2>6, <3>1, <3>2, <3>3 DEF OverallPhase, All, Some
  <2> QED BY <2>3, <2>4, <2>5, <2>6
<1> QED BY <1>1, InitRead, ViewKeepsRead, InitOrderly, ViewKeepsOrderly, ViewersOnlyRead, AloneIsSafe,
        PTL DEF ViewSpec

-----------------------------------------------------------------------------
(* Sync.  A launch is not all that vouches for the files: a validation that    *)
(* does not render passes what it finds, and a stop says "validated" of        *)
(* whatever there is.  Where a cache is there to render from, and a container  *)
(* still runs, the files are nevertheless those of the config, as long as      *)
(* renderings are neither refused nor fail.                                    *)

NoRefusals == Faults \cap {"reject", "write"} = {}

SomeRun == \E k \in Containers : docker.runs[k] # Absent
Cached == relays = "ok" \/ \E p \in Procs : At(p, "fetching")
ProxiesOf(content) == \A f \in ProxyFiles : files[f] = content
Sound == Cached /\ SomeRun => ProxiesOf(config.content)

\* Whoever renders has rendered what it passed; a validate that does not render
\* checks files of a config whose phase it does not question.
RendersOrTrusts(p) ==
  /\ proc[p].at \in {"route", "relays", "compose", "sidecar", "manifest"}
       => files["entry"] = proc[p].doc.content
  /\ proc[p].at \in {"relays", "compose", "sidecar", "manifest"}
       => files["route"] = proc[p].doc.content
  /\ At(p, "check") => \/ ProxiesOf(proc[p].doc.content)
                       \/ Cmd(p) = "validate" /\ config.phase # "unvalidated"
  /\ Cmd(p) = "validate" =>
       /\ proc[p].at \in {"idle", "load", "https", "check", "persist", "failing", "up"}
       /\ At(p, "https") => proc[p].doc = config

Vouches(p) ==
  /\ RendersOrTrusts(p)
  /\ At(p, "fetch") => relays = "ok"
  /\ Saving(p) /\ proc[p].doc.phase # "unvalidated" => Sound

SyncInv ==
  /\ config.phase # "unvalidated" => Sound
  /\ \A p \in Procs : Vouches(p)

LEMMA InitSync == Init => SyncInv
BY DEF Init, SyncInv, Vouches, RendersOrTrusts, Missing, Idle, At, Cmd, Saving

LEMMA IdleVouches ==
  ASSUME NEW p \in Procs, At(p, "idle")'
  PROVE  Vouches(p)'
BY DEF Vouches, RendersOrTrusts, At, Cmd, Saving

\* A step that renders nothing, and starts and caches nothing, leaves things sound.
LEMMA SoundStays ==
  ASSUME Sound, Cached' => Cached, SomeRun' => SomeRun,
         config'.content = config.content, files' = files
  PROVE  Sound'
BY DEF Sound, ProxiesOf

\* What a step of p may use.  Of one command at a time only p may be fetching.
Moving(p) ==
  /\ proc \in [Procs -> Running]
  /\ files \in [FileNames -> Rendered]
  /\ config \in Document /\ Doc(p) \in Document
  /\ Works(p) /\ Vouches(p)
  /\ config.phase # "unvalidated" => Sound
  /\ Cached => relays = "ok" \/ At(p, "fetching")
  /\ relays = "ok" \/ At(p, "fetching") => Cached
  /\ Cached' => relays' = "ok" \/ At(p, "fetching")'

\* What it has to show.
Settles(p) == (config.phase # "unvalidated" => Sound) /\ Vouches(p)

\* Before anything is loaded, or rejected: nothing becomes old by it.
LEMMA LoadVouches ==
  ASSUME NEW p \in Procs, Moving(p),
         Refuse(p) \/ LoadSetup(p) \/ LoadEdit(p) \/ LoadRuntime(p) \/ HttpsOk(p)
  PROVE  Settles(p)'
<1>1. /\ config' = config /\ files' = files /\ relays' = relays /\ docker' = docker
      /\ At(p, "load") \/ At(p, "https")
  BY DEF Refuse, LoadSetup, LoadEdit, LoadRuntime, HttpsOk
<1>2. proc \in [Procs -> Running] BY DEF Moving
<1>3. \/ proc'[p] = Idle
      \/ proc'[p].at = "persist" /\ proc'[p].doc.phase = "unvalidated"
      \/ proc'[p].at = "down" /\ proc'[p].cmd \in {"stop", "restart"}
      \/ proc'[p].at = "https" /\ proc'[p].doc = config
      \/ proc'[p].at = "cache" /\ proc'[p].cmd # "validate"
      \/ /\ proc'[p].at = "check" /\ proc'[p].cmd = "validate"
         /\ At(p, "https") /\ Cmd(p) = "validate" /\ Doc(p).phase # "unvalidated"
  <2>1. CASE Refuse(p)
    BY <1>2, <2>1 DEF Refuse, Exit
  <2>2. CASE LoadSetup(p) \/ LoadEdit(p)
    <3>1. \A c : /\ [Missing EXCEPT !.content = c].phase = "unvalidated"
                 /\ [config EXCEPT !.content = c, !.phase = "unvalidated"].phase = "unvalidated"
      BY DEF Missing, Document, Moving
    <3>2. \E doc : Persist(p, doc, {"config"}) /\ doc.phase = "unvalidated"
      BY <2>2, <3>1 DEF LoadSetup, LoadEdit, Moving
    <3> QED BY <1>2, <3>2 DEF Persist, Become
  <2>3. CASE LoadRuntime(p)
    <3>1. proc'[p] = [cmd |-> Cmd(p), at |-> IF Cmd(p) \in {"stop", "restart"} THEN "down" ELSE "https",
                      doc |-> config, todo |-> {}]
      BY <1>2, <2>3 DEF LoadRuntime, GoOn, Become
    <3> QED BY <3>1
  <2>4. CASE HttpsOk(p)
    <3>1. At(p, "https") /\ (Cmd(p) = "validate" \/ Cmd(p) # "validate") BY <2>4 DEF HttpsOk
    <3>2. CASE Goto(p, "cache") /\ Cmd(p) \in Starts
      BY <1>2, <3>2 DEF Goto, GoOn, Become, Starts
    <3>3. CASE Become(p, "refresh", "cache", Doc(p), {})
      BY <1>2, <3>3 DEF Become
    <3>4. CASE Goto(p, "check") /\ Cmd(p) \in Validates /\ ~ShouldRefresh(p)
      <4>1. Cmd(p) = "validate" /\ Doc(p).phase # "unvalidated"
        BY <3>4 DEF ShouldRefresh, Validates
      <4> QED BY <1>2, <3>1, <3>4, <4>1 DEF Goto, GoOn, Become
    <3> QED BY <2>4, <3>2, <3>3, <3>4 DEF HttpsOk
  <2> QED BY <2>1, <2>2, <2>3, <2>4
<1>4. ~At(p, "fetching")' BY <1>3 DEF At, Idle
<1>5. config'.phase # "unvalidated" => Sound'
  BY <1>1, <1>4, SoundStays DEF Moving, SomeRun
<1>6. At(p, "https") /\ Cmd(p) = "validate" => Doc(p) = config
  BY DEF Moving, Vouches, RendersOrTrusts, Doc
<1> QED BY <1>1, <1>3, <1>5, <1>6 DEF Settles, Vouches, RendersOrTrusts, Saving, At, Cmd, Idle

\* Who finds no cache to render from fails, and vouches for nothing.
LEMMA CacheVouches ==
  ASSUME NEW p \in Procs, Moving(p),
         LoadRelayCache(p) \/ KeepRelayCache(p) \/ RefreshRelayCache(p)
  PROVE  Settles(p)'
<1>1. config' = config /\ files' = files /\ docker' = docker
  BY DEF LoadRelayCache, KeepRelayCache, RefreshRelayCache
<1>2. proc[p].at \in {"cache", "fetch", "fetching"} /\ Cmd(p) # "validate"
  BY DEF LoadRelayCache, KeepRelayCache, RefreshRelayCache, Moving, Vouches, RendersOrTrusts, At
<1>3. CASE LoadRelayCache(p) /\ relays # "ok"
  <2>1. relays' = relays /\ Fail(p) BY <1>3 DEF LoadRelayCache
  <2>2. /\ proc'[p] = Idle \/ At(p, "persist")'
        /\ proc'[p].cmd \in {Cmd(p), "none"}
    <3>1. proc \in [Procs -> Running] BY DEF Moving
    <3>2. \/ proc'[p] = Idle
          \/ proc'[p].cmd = Cmd(p) /\ proc'[p].at = "persist"
      BY <2>1, <3>1, FailMoves
    <3>3. Idle.cmd = "none" BY DEF Idle
    <3> QED BY <3>2, <3>3 DEF At
  <2>3. Sound' BY <1>3, <2>1, <2>2 DEF Moving, Sound, At, Idle
  <2> QED BY <1>1, <1>2, <2>2, <2>3 DEF Settles, Vouches, RendersOrTrusts, Saving, At, Cmd, Idle
<1>4. CASE /\ relays = "ok" \/ At(p, "fetch") \/ At(p, "fetching")
           /\ \E step \in {"fetch", "entry", "fetching"} :
                /\ Goto(p, step)
                /\ step = "fetching" => At(p, "fetch")
                /\ step = "fetch" => relays' = "ok"
  <2>1. PICK step \in {"fetch", "entry", "fetching"} :
          Goto(p, step) /\ (step = "fetch" => relays' = "ok")
    BY <1>4
  <2>2. proc'[p].at = step /\ proc'[p].cmd = Cmd(p)
    BY <2>1 DEF Goto, GoOn, Become, Moving
  <2>3. Cached BY <1>4 DEF Moving, Vouches, At
  <2>4. config'.phase # "unvalidated" => Sound'
    BY <1>1, <2>3, SoundStays DEF Moving, SomeRun
  <2> QED BY <1>2, <2>1, <2>2, <2>4 DEF Settles, Vouches, RendersOrTrusts, Saving, At, Cmd
<1> QED BY <1>3, <1>4 DEF LoadRelayCache, KeepRelayCache, RefreshRelayCache

\* Rendering a content that is saved brings the files no further from it.
LEMMA RenderVouches ==
  ASSUME NEW p \in Procs, Moving(p), RenderFile(p) \/ RenderRelayCache(p)
  PROVE  Settles(p)'
<1>1. /\ config' = config /\ docker' = docker
      /\ Doc(p).content = config.content /\ Cmd(p) # "validate"
  BY DEF RenderFile, RenderRelayCache, Moving, Works, Committed, Vouches, RendersOrTrusts, At, Doc,
     FileNames, ProxyFiles, BundleFiles
<1>2. CASE RenderFile(p)
  <2>1. PICK f \in FileNames :
          /\ At(p, f) /\ files' = [files EXCEPT ![f] = Doc(p).content] /\ relays' = relays
          /\ Exit(p) \/ Goto(p, AfterRender(p, f))
    BY <1>2 DEF RenderFile
  <2>2. \/ proc'[p] = Idle
        \/ /\ proc'[p].at = AfterRender(p, f) /\ proc'[p].doc = Doc(p) /\ proc'[p].cmd = Cmd(p)
    BY <2>1 DEF Exit, Goto, GoOn, Become, Moving
  <2>3. AfterRender(p, f) \in {"route", "relays", "sidecar", "manifest", "check"}
    BY DEF AfterRender, FileNames, ProxyFiles, BundleFiles
  <2>4. ProxiesOf(config.content) => ProxiesOf(config.content)'
    BY <1>1, <2>1 DEF ProxiesOf, Moving, FileNames
  <2>5. ~At(p, "fetching")' BY <2>2, <2>3 DEF At, Idle
  <2>6. Cached' => Cached BY <2>1, <2>5 DEF Moving
  <2>7. config'.phase # "unvalidated" => Sound'
    BY <1>1, <2>4, <2>6 DEF Moving, Sound, SomeRun, ProxiesOf
  <2>8. RendersOrTrusts(p)'
    <3>1. CASE proc'[p] = Idle BY <3>1 DEF RendersOrTrusts, Idle, At, Cmd
    <3>2. CASE /\ proc'[p].at = AfterRender(p, f)
               /\ proc'[p].doc = Doc(p) /\ proc'[p].cmd = Cmd(p)
      <4>1. f = "entry" => RendersOrTrusts(p)'
        BY <1>1, <2>1, <3>2 DEF AfterRender, Moving, Vouches, RendersOrTrusts, At, Cmd, Doc
      <4>2. f = "route" => RendersOrTrusts(p)'
        BY <1>1, <2>1, <3>2 DEF AfterRender, Moving, Vouches, RendersOrTrusts, At, Cmd, Doc
      <4>3. f \in {"compose", "sidecar"} => RendersOrTrusts(p)'
        BY <1>1, <2>1, <3>2 DEF AfterRender, Moving, Vouches, RendersOrTrusts, At, Cmd, Doc
      <4>4. f = "manifest" => RendersOrTrusts(p)'
        BY <1>1, <2>1, <3>2 DEF AfterRender, Moving, Vouches, RendersOrTrusts, At, Cmd, Doc,
           ProxiesOf, ProxyFiles
      <4> QED BY <4>1, <4>2, <4>3, <4>4 DEF FileNames, ProxyFiles, BundleFiles
    <3> QED BY <2>2, <3>1, <3>2
  <2> QED BY <2>2, <2>3, <2>7, <2>8 DEF Settles, Vouches, Saving, At, Idle
<1>3. CASE RenderRelayCache(p)
  <2>1. /\ files' = files /\ At(p, "relays")
        /\ proc'[p].at \in {"compose", "check"} /\ proc'[p].doc = Doc(p) /\ proc'[p].cmd = Cmd(p)
    BY <1>3 DEF RenderRelayCache, Goto, GoOn, Become, Moving, At
  <2>2. ProxiesOf(Doc(p).content)
    BY <2>1 DEF Moving, Vouches, RendersOrTrusts, At, Doc, ProxiesOf, ProxyFiles
  <2>3. Sound' BY <1>1, <2>1, <2>2 DEF Sound, ProxiesOf
  <2> QED BY <1>1, <2>1, <2>2, <2>3
          DEF Settles, Vouches, RendersOrTrusts, ProxiesOf, ProxyFiles, Saving, At, Cmd
<1> QED BY <1>2, <1>3

\* What passes was rendered, or is of a config that is trusted already.
LEMMA CheckVouches ==
  ASSUME NEW p \in Procs, Moving(p), NoRefusals, NEW passes \in BOOLEAN, Check(p, passes)
  PROVE  Settles(p)'
<1>1. passes /\ At(p, "check") BY DEF NoRefusals, Check
<1>2. /\ config' = config /\ files' = files /\ relays' = relays /\ docker' = docker
      /\ \E doc : Persist(p, doc, {"config"})
  BY <1>1 DEF Check
<1>3. Doc(p).content = config.content
  BY <1>1 DEF Moving, Works, Committed, At, Doc
<1>4. Sound BY <1>1, <1>3 DEF Moving, Vouches, RendersOrTrusts, Doc, Sound, Cmd
<1>5. At(p, "persist")' /\ Cmd(p)' = Cmd(p)
  BY <1>2 DEF Persist, Become, Moving, At, Cmd
<1>6. Sound' BY <1>2, <1>4, <1>5, SoundStays DEF Moving, SomeRun, At
<1> QED BY <1>5, <1>6 DEF Settles, Vouches, RendersOrTrusts, Saving, At

\* A document that is saved is vouched for, or claims nothing.
LEMMA SaveVouches ==
  ASSUME NEW p \in Procs, Moving(p), SaveConfig(p) \/ SaveConfigThrows(p) \/ SaveStartReport(p)
  PROVE  Settles(p)'
<1>1. /\ config' \in {config, Doc(p)}
      /\ files' = files /\ relays' = relays /\ docker' = docker /\ Saving(p)
  BY DEF SaveConfig, SaveConfigThrows, SaveStartReport, Writing, Saving
<1>2. PICK target : Written(p, target) \/ WriteFailed(p, target)
  BY DEF SaveConfig, SaveConfigThrows, SaveStartReport
<1>3. \/ proc'[p] = Idle
      \/ Saving(p)' /\ proc'[p].doc = Doc(p) /\ proc'[p].cmd = Cmd(p)
      \/ proc'[p].at = "entry" /\ proc'[p].cmd \in {"setup", "export"}
      \/ proc'[p].at = "up"
      \/ /\ proc'[p].at = "compose" /\ proc'[p].cmd = "rebundle"
         /\ proc'[p].doc = Doc(p) /\ Doc(p).phase = "running"
      \/ proc'[p].at = "load"
  <2>1. CASE Written(p, target)
    BY <1>1, <2>1, WrittenMoves DEF Moving, Saving
  <2>2. CASE WriteFailed(p, target)
    BY <2>2, WriteFailedMoves DEF Moving, Saving
  <2> QED BY <1>2, <2>1, <2>2
<1>4. Cached' => Cached
  BY <1>1, <1>3 DEF Moving, At, Saving, Idle
<1>5. ASSUME Doc(p).phase # "unvalidated" PROVE Sound'
  <2>1. Sound BY <1>1, <1>5 DEF Moving, Vouches, Doc
  <2>2. config'.content = config.content BY <1>1, <1>5 DEF Moving, Works, Committed, Doc
  <2> QED BY <1>1, <1>4, <2>1, <2>2, SoundStays DEF SomeRun
<1>6. config'.phase # "unvalidated" => Sound'
  BY <1>1, <1>4, <1>5, SoundStays DEF Moving, SomeRun
<1>7. Doc(p).phase = "running" => files'["entry"] = Doc(p).content /\ files'["route"] = Doc(p).content
  BY <1>1 DEF Moving, Works, Launches, Launched, InSync, Doc, FileNames, ProxyFiles
<1>8. RendersOrTrusts(p)'
  BY <1>3, <1>7 DEF RendersOrTrusts, Saving, At, Cmd, Idle
<1>9. Saving(p)' => Doc(p)' = Doc(p) BY <1>3 DEF Saving, Doc, Idle
<1>10. ~At(p, "fetch")' BY <1>3 DEF Saving, At, Idle
<1> QED BY <1>5, <1>6, <1>8, <1>9, <1>10 DEF Settles, Vouches, Doc

\* What Compose starts was rendered; what it takes down vouches for nothing.
LEMMA ComposeVouches ==
  ASSUME NEW p \in Procs, Moving(p),
         ComposeUp(p) \/ ComposeUpFails(p) \/ ComposeDown(p) \/ ComposeDownFails(p)
  PROVE  Settles(p)'
<1>1. /\ config' = config /\ files' = files /\ relays' = relays
      /\ At(p, "up") \/ At(p, "down")
      /\ \/ Exit(p) \/ Fail(p) \/ \E doc, targets : Persist(p, doc, targets)
  BY DEF ComposeUp, ComposeUpFails, ComposeDown, ComposeDownFails
<1>2. proc'[p] = Idle \/ (At(p, "persist")' /\ proc'[p].cmd = Cmd(p))
  <2>1. CASE Exit(p) BY <2>1 DEF Exit, Moving
  <2>2. CASE Fail(p) BY <2>2, FailMoves DEF Moving, At
  <2>3. CASE \E doc, targets : Persist(p, doc, targets)
    BY <2>3 DEF Persist, Become, Moving, At
  <2> QED BY <1>1, <2>1, <2>2, <2>3
<1>3. Cached' => Cached BY <1>1, <1>2 DEF Moving, At, Idle
<1>4. CASE ComposeUp(p) \/ ComposeUpFails(p)
  <2>1. At(p, "up") BY <1>4 DEF ComposeUp, ComposeUpFails
  <2>2. Doc(p).content = config.content /\ InSync(Doc(p).content)
    BY <2>1 DEF Moving, Works, Committed, Launches, At, Doc
  <2>3. ProxiesOf(config.content) BY <2>2 DEF InSync, ProxiesOf, FileNames
  <2>4. Sound' BY <1>1, <2>3 DEF Sound, ProxiesOf
  <2> QED BY <1>2, <2>1, <2>4 DEF Settles, Vouches, RendersOrTrusts, Saving, At, Cmd, Idle
<1>5. CASE ComposeDown(p)
  <2>1. ~SomeRun' BY <1>5 DEF ComposeDown, Down, SomeRun
  <2>2. Sound' BY <2>1 DEF Sound
  <2>3. Cmd(p) # "validate" BY <1>5 DEF ComposeDown, Moving, Vouches, RendersOrTrusts, At
  <2> QED BY <1>2, <2>2, <2>3 DEF Settles, Vouches, RendersOrTrusts, Saving, At, Cmd, Idle
<1>6. CASE ComposeDownFails(p)
  <2>1. SomeRun' => SomeRun BY <1>6 DEF ComposeDownFails, SomeRun
  <2>2. config'.phase # "unvalidated" => Sound' BY <1>1, <1>3, <2>1, SoundStays DEF Moving
  <2>3. proc'[p] = Idle BY <1>6 DEF ComposeDownFails, Exit, Moving
  <2> QED BY <2>2, <2>3 DEF Settles, Vouches, RendersOrTrusts, Saving, At, Cmd, Idle
<1> QED BY <1>4, <1>5, <1>6

LEMMA StepKeepsSynced ==
  ASSUME AloneSafe, SyncInv, NoRefusals, NEW p \in Procs, Step(p)
  PROVE  SyncInv'
<1>1. \A q \in Procs \ {p} : At(q, "idle") /\ At(q, "idle")'
  BY OthersIdle DEF AloneSafe, AloneInv
<1>2. Moving(p)
  <2>1. /\ Cached => relays = "ok" \/ At(p, "fetching")
        /\ relays = "ok" \/ At(p, "fetching") => Cached
        /\ Cached' => relays' = "ok" \/ At(p, "fetching")'
    BY <1>1 DEF Cached, At
  <2> QED BY <2>1 DEF Moving, SyncInv, AloneSafe, TypeInv, TypeOK, AloneInv, Doc, Running
<1>3. ~(HttpsFails(p) \/ RefreshRelayCacheThrows(p) \/ PlanFails(p) \/ RenderThrows(p)
        \/ CheckThrows(p) \/ SaveStartReportThrows(p))
  BY DEF NoRefusals, HttpsFails, RefreshRelayCacheThrows, PlanFails, RenderThrows, CheckThrows,
     SaveStartReportThrows
<1>4. Settles(p)'
  BY <1>2, <1>3, LoadVouches, CacheVouches, RenderVouches, CheckVouches, SaveVouches, ComposeVouches
  DEF Step
<1>5. \A q \in Procs \ {p} : Vouches(q)' BY <1>1, IdleVouches
<1> QED BY <1>4, <1>5 DEF Settles, SyncInv

LEMMA NextKeepsSynced ==
  ASSUME ~Overlap, NoRefusals
  PROVE  AloneSafe /\ SyncInv /\ [Next]_vars => SyncInv'
<1> SUFFICES ASSUME AloneSafe, SyncInv, [Next]_vars PROVE SyncInv'
  OBVIOUS
<1>1. proc \in [Procs -> Running] BY DEF AloneSafe, TypeInv, TypeOK
<1>2. ASSUME NEW p \in Procs, NEW c \in Commands, Begin(p, c) PROVE SyncInv'
  <2>1. /\ config' = config /\ files' = files /\ relays' = relays /\ docker' = docker
        /\ \A q \in Procs : ~Active(q)
        /\ proc'[p].at = "load" /\ \A q \in Procs \ {p} : proc'[q] = proc[q]
    <3>1. \A q \in Procs : ~Active(q) BY <1>2 DEF Begin
    <3> QED BY <1>1, <1>2, <3>1 DEF Begin, Enter, Become
  <2>2. \A q \in Procs \ {p} : Vouches(q)' BY <2>1, IdleVouches DEF Active, At
  <2>3. Vouches(p)' BY <2>1 DEF Vouches, RendersOrTrusts, Saving, At, Cmd
  <2>4. Cached' => Cached BY <2>1 DEF Cached, At
  <2>5. config'.phase # "unvalidated" => Sound'
    BY <2>1, <2>4, SoundStays DEF SyncInv, SomeRun
  <2> QED BY <2>2, <2>3, <2>5 DEF SyncInv
<1>3. ASSUME NEW p \in Procs, Crash(p) PROVE SyncInv'
  <2>1. \A q \in Procs : At(q, "idle")'
    BY <1>1, <1>3 DEF Crash, Exit, Idle, AloneSafe, AloneInv, Solo, Active, At
  <2>2. Cached' => Cached BY <1>3, <2>1 DEF Crash, Cached, At
  <2>3. config'.phase # "unvalidated" => Sound'
    BY <1>3, <2>2, SoundStays DEF SyncInv, SomeRun, Crash
  <2> QED BY <2>1, <2>3, IdleVouches DEF SyncInv
<1>4. CASE ContainersExit \/ ContainersRestart
  <2>1. UNCHANGED <<config, files, relays, proc>> /\ (SomeRun' => SomeRun)
    BY <1>4 DEF ContainersExit, ContainersRestart, Down, SomeRun, AloneSafe, TypeInv, TypeOK, Compose
  <2>2. Cached' = Cached BY <2>1 DEF Cached, At
  <2>3. Sound => Sound' BY <2>1, <2>2, SoundStays
  <2>4. \A p \in Procs : RendersOrTrusts(p)' = RendersOrTrusts(p)
    BY <2>1 DEF RendersOrTrusts, At, Cmd, ProxiesOf
  <2> QED BY <2>1, <2>3, <2>4 DEF SyncInv, Vouches, Saving, At
<1>5. CASE UNCHANGED vars
  BY <1>5 DEF vars, SyncInv, Vouches, RendersOrTrusts, Sound, Cached, SomeRun, ProxiesOf, Saving, At,
     Cmd
<1> QED BY <1>2, <1>3, <1>4, <1>5, StepKeepsSynced DEF Next

\* Of commands one at a time: when a doctor nobody moved under passes, all containers
\* run, on the config's content while it says "running", and, where renderings are
\* neither refused nor fail, the proxy configs on disk are rendered from it: after
\* crashed starts, torn caches, failing saves and whatever Docker does.
THEOREM DoctorPassIsInSync == ASSUME ~Overlap PROVE ViewSpec => []DoctorPassMeansInSync
<1>1. AloneSafe /\ ReadInv /\ (NoRefusals => SyncInv) => DoctorPassMeansInSync
  <2> SUFFICES ASSUME AloneSafe, ReadInv, NoRefusals => SyncInv, Quiet, Overall(view) = "pass"
               PROVE  /\ Full
                      /\ NoRefusals => ProxiesOf(config.content)
                      /\ config.phase = "running" =>
                           \A k \in Containers : docker.runs[k] = config.content
    BY DEF DoctorPassMeansInSync, Full, NoRefusals, ProxiesOf
  <2>1. UpToDate /\ view.todo = {} BY DEF ReadInv, Quiet, Said
  <2>2. /\ view.doc = config /\ view.relays = relays
        /\ view.compose = "failed" \/ (view.compose = "ok" /\ view.ps \in Listings)
    BY <2>1 DEF UpToDate
  <2>3. /\ ValidationCheck(view) = "pass" /\ RelayCacheCheck(view) = "pass"
        /\ RuntimeCheck(view) = "pass"
    <3>1. /\ ValidationCheck(view) \in {"pass", "degraded", "fail"}
          /\ RelayCacheCheck(view) \in {"pass", "degraded", "fail"}
          /\ RuntimeCheck(view) \in {"pass", "degraded", "fail"}
      BY DEF ValidationCheck, RelayCacheCheck, RuntimeCheck
    <3>2. "fail" \notin Checks(view) /\ "degraded" \notin Checks(view)
      BY DEF Overall
    <3>3. {ValidationCheck(view), RelayCacheCheck(view), RuntimeCheck(view)}
            \subseteq Checks(view)
      BY DEF Checks
    <3> QED BY <3>1, <3>2, <3>3
  <2>4. view.compose = "ok" /\ \A k \in Containers : Live(view, k) = "running"
    BY <2>2, <2>3 DEF RuntimeCheck, All
  <2>5. Full
    <3>1. SUFFICES ASSUME NEW k \in Containers PROVE docker.runs[k] # Absent
      BY DEF Full
    <3>2. Live(view, k) = "running" BY <2>4
    <3> QED BY <2>2, <2>4, <3>2, ListingFacts DEF Live, LiveState
  <2>6. relays = "ok" /\ config.phase # "unvalidated"
    BY <2>2, <2>3 DEF RelayCacheCheck, ValidationCheck
  <2>7. NoRefusals => ProxiesOf(config.content)
    BY <2>5, <2>6 DEF SyncInv, Sound, Cached, SomeRun, Full, Containers
  <2>8. RunningIsWhatRuns BY DEF AloneSafe, AloneInv
  <2> QED BY <2>5, <2>7, <2>8 DEF Full, RunningIsWhatRuns
<1>2. CASE NoRefusals
  BY <1>1, <1>2, InitRead, ViewKeepsRead, InitSync, NextKeepsSynced, ViewersOnlyRead, AloneIsSafe, PTL
  DEF ViewSpec, Spec
<1>3. CASE ~NoRefusals
  BY <1>1, <1>3, InitRead, ViewKeepsRead, ViewersOnlyRead, AloneIsSafe, PTL DEF ViewSpec
<1> QED BY <1>2, <1>3
=============================================================================
