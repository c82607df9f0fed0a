--------------------------- MODULE LifecycleProofs ---------------------------
(***************************************************************************)
(* Theorems about Lifecycle, for every set of processes, contents,         *)
(* commands and faults.                                                    *)
(***************************************************************************)
EXTENDS Lifecycle, TLAPS

-----------------------------------------------------------------------------
(* How a command moves on keeps its record well-typed *)

Targets == SUBSET {"config", "report"}

LEMMA BecomeTypes ==
  ASSUME NEW p \in Procs, proc \in [Procs -> Running],
         NEW cmd \in AllCommands \union {"none", "rebundle"}, NEW step \in Steps,
         NEW doc \in Document, NEW targets \in Targets,
         Become(p, cmd, step, doc, targets)
  PROVE  proc' \in [Procs -> Running]
BY DEF Become, Running, Targets

LEMMA MissingTypes == Missing \in Document
BY DEF Missing, Document, Rendered, Phases, Outcomes

LEMMA ExitTypes ==
  ASSUME NEW p \in Procs, proc \in [Procs -> Running], Exit(p)
  PROVE  proc' \in [Procs -> Running]
BY MissingTypes DEF Exit, Running, Idle, Steps

LEMMA GoOnTypes ==
  ASSUME NEW p \in Procs, proc \in [Procs -> Running],
         NEW step \in Steps, NEW doc \in Document, GoOn(p, step, doc)
  PROVE  proc' \in [Procs -> Running]
<1>1. Cmd(p) \in AllCommands \union {"none", "rebundle"} BY DEF Cmd, Running
<1>2. {} \in Targets BY DEF Targets
<1> QED BY <1>1, <1>2, BecomeTypes DEF GoOn

LEMMA GotoTypes ==
  ASSUME NEW p \in Procs, proc \in [Procs -> Running], NEW step \in Steps, Goto(p, step)
  PROVE  proc' \in [Procs -> Running]
BY GoOnTypes DEF Goto, Doc, Running

LEMMA EnterTypes ==
  ASSUME NEW p \in Procs, proc \in [Procs -> Running], NEW cmd \in AllCommands, Enter(p, cmd)
  PROVE  proc' \in [Procs -> Running]
BY BecomeTypes, MissingTypes DEF Enter, Targets, Steps

LEMMA PersistTypes ==
  ASSUME NEW p \in Procs, proc \in [Procs -> Running],
         NEW doc \in Document, NEW targets \in Targets, Persist(p, doc, targets)
  PROVE  proc' \in [Procs -> Running]
BY BecomeTypes DEF Persist, Cmd, Running, Steps

LEMMA StatusTypes ==
  ASSUME NEW doc \in Document, NEW phase \in Phases
  PROVE  WithStatus(doc, phase) \in Document
BY DEF WithStatus, Document

LEMMA OutcomeTypes ==
  ASSUME NEW doc \in Document, NEW phase \in Phases, NEW last \in Outcomes
  PROVE  WithOutcome(doc, phase, last) \in Document
BY DEF WithOutcome, Document

LEMMA FailTypes ==
  ASSUME NEW p \in Procs, proc \in [Procs -> Running], Fail(p)
  PROVE  proc' \in [Procs -> Running]
<1>1. Doc(p) \in Document BY DEF Doc, Running
<1>2. /\ WithOutcome(Doc(p), "error", "failure") \in Document
      /\ WithStatus(Doc(p), "error") \in Document
  BY <1>1, StatusTypes, OutcomeTypes DEF Phases, Outcomes
<1>3. CASE Persist(p, WithOutcome(Doc(p), "error", "failure"), {"config", "report"})
  BY <1>2, <1>3, PersistTypes DEF Targets
<1>4. CASE Persist(p, WithStatus(Doc(p), "error"), {"config"})
  BY <1>2, <1>4, PersistTypes DEF Targets
<1>5. CASE Exit(p)
  BY <1>5, ExitTypes
<1> QED BY <1>3, <1>4, <1>5 DEF Fail

LEMMA WrittenTypes ==
  ASSUME NEW p \in Procs, proc \in [Procs -> Running], NEW target,
         Written(p, target) \/ WriteFailed(p, target)
  PROVE  proc' \in [Procs -> Running]
<1>1. /\ Cmd(p) \in AllCommands \union {"none", "rebundle"}
      /\ Doc(p) \in Document
      /\ Left(p, target) \in Targets
      /\ proc[p].at \in Steps /\ "failing" \in Steps
  BY DEF Cmd, Doc, Running, Targets, Left, Steps
<1>2. CASE \E step \in Steps : Become(p, Cmd(p), step, Doc(p), Left(p, target))
  BY <1>1, <1>2, BecomeTypes
<1>3. CASE Goto(p, "entry") \/ Goto(p, "up")
  BY <1>3, GotoTypes DEF Steps, FileNames, ProxyFiles
<1>4. CASE Become(p, "rebundle", "compose", Doc(p), {})
  <2>1. "compose" \in Steps /\ {} \in Targets BY DEF Steps, FileNames, BundleFiles, Targets
  <2> QED BY <1>1, <1>4, <2>1, BecomeTypes
<1>5. CASE Enter(p, "start")
  BY <1>5, EnterTypes DEF AllCommands
<1>6. CASE Exit(p)
  BY <1>6, ExitTypes
<1> QED BY <1>1, <1>2, <1>3, <1>4, <1>5, <1>6 DEF Written, WriteFailed, AfterPersist

-----------------------------------------------------------------------------
(* Types.  A command past its load works on a document with a content, and a *)
(* start that is to write its report has an outcome to write.                *)

Loaded ==
  \A p \in Procs :
    /\ proc[p].at \notin {"idle", "load"} => proc[p].doc.content \in Contents
    /\ "report" \in proc[p].todo => proc[p].doc.last # "none"

TypeInv == TypeOK /\ Loaded

LEMMA InitTypes == Init => TypeInv
BY MissingTypes DEF Init, TypeInv, TypeOK, Loaded, Missing, Rendered, CheckReport, Compose,
  Down, Running, Idle, NoFiles, Steps

LEMMA StepKeepsProc ==
  ASSUME TypeInv, NEW p \in Procs, Step(p)
  PROVE  proc' \in [Procs -> Running]
<1>1. /\ proc \in [Procs -> Running]
      /\ Doc(p) \in Document
      /\ config \in Document
  BY DEF TypeInv, TypeOK, Doc, Running
<1>2. /\ {"https", "cache", "fetch", "fetching", "relays", "check", "down"} \subseteq Steps
      /\ FileNames \subseteq Steps
  BY DEF Steps
<1>3. {"entry", "compose", "route", "sidecar", "manifest"} \subseteq FileNames
  BY DEF FileNames, ProxyFiles, BundleFiles
<1>4. {"config"} \in Targets /\ {"config", "report"} \in Targets
  BY DEF Targets
<1>5. CASE Fail(p) \/ Exit(p)
  BY <1>1, <1>5, FailTypes, ExitTypes
<1>6. CASE \E step \in Steps : Goto(p, step)
  BY <1>1, <1>6, GotoTypes
<1>7. CASE \E c \in Contents : Persist(p, [Missing EXCEPT !.content = c], {"config"})
  <2>1. PICK c \in Contents : Persist(p, [Missing EXCEPT !.content = c], {"config"}) BY <1>7
  <2>2. [Missing EXCEPT !.content = c] \in Document BY MissingTypes DEF Document, Rendered
  <2> QED BY <1>1, <1>4, <2>1, <2>2, PersistTypes
<1>8. CASE LoadEdit(p)
  <2>1. PICK c \in Contents :
          Persist(p, [config EXCEPT !.content = c, !.phase = "unvalidated"], {"config"})
    BY <1>8 DEF LoadEdit
  <2>2. [config EXCEPT !.content = c, !.phase = "unvalidated"] \in Document
    BY <1>1 DEF Document, Rendered, Phases
  <2> QED BY <1>1, <1>4, <2>1, <2>2, PersistTypes
<1>9. CASE LoadRuntime(p)
  BY <1>1, <1>2, <1>9, GoOnTypes DEF LoadRuntime
<1>10. CASE \E phase \in Phases : Persist(p, WithStatus(Doc(p), phase), {"config"})
  BY <1>1, <1>4, <1>10, StatusTypes, PersistTypes
<1>11. CASE Persist(p, WithOutcome(Doc(p), "running", "success"), {"config", "report"})
  BY <1>1, <1>4, <1>11, OutcomeTypes, PersistTypes DEF Phases, Outcomes
<1>12. CASE Become(p, "refresh", "cache", Doc(p), {})
  BY <1>1, <1>2, <1>12, BecomeTypes DEF AllCommands, Targets
<1>13. CASE \E target : Written(p, target) \/ WriteFailed(p, target)
  BY <1>1, <1>13, WrittenTypes
<1> USE <1>5, <1>6, <1>7, <1>8, <1>9, <1>10, <1>11, <1>12, <1>13
<1>14. CASE Refuse(p) \/ HttpsFails(p) \/ RefreshRelayCacheThrows(p) \/ PlanFails(p)
           \/ RenderThrows(p) \/ CheckThrows(p) \/ ComposeUpFails(p) \/ ComposeDownFails(p)
  BY <1>14 DEF Refuse, HttpsFails, RefreshRelayCacheThrows, PlanFails, RenderThrows,
     CheckThrows, ComposeUpFails, ComposeDownFails
<1>15. CASE LoadSetup(p)
  BY <1>15 DEF LoadSetup
<1>16. CASE HttpsOk(p)
  BY <1>2, <1>16 DEF HttpsOk
<1>17. CASE LoadRelayCache(p) \/ KeepRelayCache(p) \/ RefreshRelayCache(p)
  BY <1>2, <1>3, <1>17 DEF LoadRelayCache, KeepRelayCache, RefreshRelayCache
<1>18. CASE RenderFile(p)
  <2>1. PICK f \in FileNames : Exit(p) \/ Goto(p, AfterRender(p, f)) BY <1>18 DEF RenderFile
  <2>2. AfterRender(p, f) \in Steps
    BY <1>2, <1>3 DEF AfterRender, FileNames, ProxyFiles, BundleFiles
  <2> QED BY <2>1, <2>2
<1>19. CASE RenderRelayCache(p)
  BY <1>2, <1>3, <1>19 DEF RenderRelayCache
<1>20. CASE \E passes \in BOOLEAN : Check(p, passes)
  BY <1>20 DEF Check, Phases
<1>21. CASE SaveConfig(p) \/ SaveConfigThrows(p) \/ SaveStartReport(p) \/ SaveStartReportThrows(p)
  BY <1>21 DEF SaveConfig, SaveConfigThrows, SaveStartReport, SaveStartReportThrows
<1>22. CASE ComposeUp(p)
  BY <1>22 DEF ComposeUp
<1>23. CASE ComposeDown(p)
  BY <1>23 DEF ComposeDown, Phases
<1> QED BY <1>8, <1>9, <1>14, <1>15, <1>16, <1>17, <1>18, <1>19, <1>20, <1>21, <1>22, <1>23 DEF Step

\* What a failure leaves of the command: nothing, or an outcome to save.
LEMMA FailMoves ==
  ASSUME NEW p \in Procs, proc \in [Procs -> Running], Fail(p)
  PROVE  /\ \A q \in Procs \ {p} : proc'[q] = proc[q]
         /\ \/ proc'[p] = Idle
            \/ /\ Cmd(p) \in Starts \union Validates \union {"setup"}
               /\ proc'[p].cmd = Cmd(p) /\ proc'[p].at = "persist"
               /\ proc'[p].doc.content = Doc(p).content
               /\ proc'[p].doc.phase = "error"
               /\ \/ proc'[p].todo = {"config"} /\ proc'[p].doc.last = Doc(p).last
                  \/ proc'[p].todo = {"config", "report"} /\ proc'[p].doc.last = "failure"
<1> USE DEF Persist, Exit, Become
<1>1. Doc(p) \in Document BY DEF Doc, Running
<1>2. CASE Exit(p)
  BY <1>2
<1>3. CASE Cmd(p) \in Starts
           /\ Persist(p, WithOutcome(Doc(p), "error", "failure"), {"config", "report"})
  BY <1>1, <1>3 DEF WithOutcome, Document
<1>4. CASE Cmd(p) \in Validates \union {"setup"}
           /\ Persist(p, WithStatus(Doc(p), "error"), {"config"})
  BY <1>1, <1>4 DEF WithStatus, Document
<1> QED BY <1>2, <1>3, <1>4 DEF Fail

\* What a successful write leaves of it: the writes still due, or the next stage.
LEMMA WrittenMoves ==
  ASSUME NEW p \in Procs, proc \in [Procs -> Running], NEW target,
         Written(p, target)
  PROVE  /\ \A q \in Procs \ {p} : proc'[q] = proc[q]
         /\ \/ proc'[p] = Idle
            \/ /\ proc'[p].cmd = Cmd(p) /\ proc'[p].at = proc[p].at
               /\ proc'[p].doc = Doc(p) /\ proc'[p].todo = Left(p, target)
            \/ /\ Left(p, target) = {} /\ At(p, "persist")
               /\ \/ /\ Doc(p).phase = "unvalidated" /\ Cmd(p) \in {"setup", "export"}
                     /\ proc'[p].cmd = Cmd(p) /\ proc'[p].at = "entry"
                     /\ proc'[p].doc = Doc(p) /\ proc'[p].todo = {}
                  \/ /\ Doc(p).phase = "starting"
                     /\ proc'[p].cmd = Cmd(p) /\ proc'[p].at = "up"
                     /\ proc'[p].doc = Doc(p) /\ proc'[p].todo = {}
                  \/ /\ Doc(p).phase = "running"
                     /\ proc'[p].cmd = "rebundle" /\ proc'[p].at = "compose"
                     /\ proc'[p].doc = Doc(p) /\ proc'[p].todo = {}
                  \/ /\ Cmd(p) = "restart"
                     /\ proc'[p].cmd = "start" /\ proc'[p].at = "load"
                     /\ proc'[p].doc = Missing /\ proc'[p].todo = {}
<1> USE DEF Written, Become, Exit
<1>1. CASE Left(p, target) # {}
  BY <1>1
<1>2. CASE Left(p, target) = {} /\ ~At(p, "persist")
  BY <1>2
<1>3. CASE Left(p, target) = {} /\ At(p, "persist")
  BY <1>3 DEF AfterPersist, Goto, GoOn, Enter
<1> QED BY <1>1, <1>2, <1>3

\* What a failed one leaves: the writes still due, after which the command ends.
LEMMA WriteFailedMoves ==
  ASSUME NEW p \in Procs, proc \in [Procs -> Running], NEW target,
         WriteFailed(p, target)
  PROVE  /\ \A q \in Procs \ {p} : proc'[q] = proc[q]
         /\ \/ proc'[p] = Idle
            \/ /\ proc'[p].cmd = Cmd(p) /\ proc'[p].at = "failing"
               /\ proc'[p].doc = Doc(p) /\ proc'[p].todo = Left(p, target)
BY DEF WriteFailed, Become, Exit

LEMMA StepKeepsLoaded ==
  ASSUME TypeInv, NEW p \in Procs, Step(p)
  PROVE  Loaded'
<1>1. /\ proc \in [Procs -> Running]
      /\ Doc(p) \in Document
      /\ config \in Document
  BY DEF TypeInv, TypeOK, Doc, Running
<1>2. SUFFICES /\ proc'[p].at \notin {"idle", "load"} => proc'[p].doc.content \in Contents
               /\ "report" \in proc'[p].todo => proc'[p].doc.last # "none"
               /\ \A q \in Procs \ {p} : proc'[q] = proc[q]
  BY DEF Loaded, TypeInv
<1> USE DEF TypeInv, Loaded, Become, GoOn, Goto, Enter, Exit, Persist, Idle, At, Cmd, Doc,
            WithStatus, WithOutcome
<1>3. CASE Refuse(p) \/ CheckThrows(p) \/ RefreshRelayCacheThrows(p) \/ ComposeDownFails(p)
  BY <1>1, <1>3 DEF Refuse, CheckThrows, RefreshRelayCacheThrows, ComposeDownFails
<1>4. CASE LoadSetup(p)
  BY <1>1, <1>4 DEF LoadSetup, Missing
<1>5. CASE LoadEdit(p)
  BY <1>1, <1>5 DEF LoadEdit, Document
<1>6. CASE LoadRuntime(p)
  BY <1>1, <1>6 DEF LoadRuntime, Document, Rendered
<1>7. CASE HttpsOk(p)
  BY <1>1, <1>7 DEF HttpsOk
<1>F. CASE Fail(p) /\ ~At(p, "idle") /\ ~At(p, "load")
  BY <1>1, <1>F, FailMoves DEF Idle
<1>8. CASE HttpsFails(p) \/ PlanFails(p) \/ ComposeUpFails(p)
  BY <1>8, <1>F DEF HttpsFails, PlanFails, ComposeUpFails, At
<1>9. CASE LoadRelayCache(p)
  <2>1. CASE Fail(p) BY <1>9, <1>F, <2>1 DEF LoadRelayCache, At
  <2>2. CASE ~Fail(p) BY <1>1, <1>9, <2>2 DEF LoadRelayCache
  <2> QED BY <2>1, <2>2
<1>10. CASE KeepRelayCache(p) \/ RefreshRelayCache(p)
  BY <1>1, <1>10 DEF KeepRelayCache, RefreshRelayCache
<1>11. CASE RenderFile(p) \/ RenderRelayCache(p)
  BY <1>1, <1>11 DEF RenderFile, RenderRelayCache, FileNames, ProxyFiles, BundleFiles
<1>12. CASE RenderThrows(p)
  <2>1. ~At(p, "idle") /\ ~At(p, "load")
    BY <1>12 DEF RenderThrows, At, FileNames, ProxyFiles, BundleFiles
  <2>2. CASE Fail(p) BY <1>F, <2>1, <2>2
  <2>3. CASE Exit(p) BY <1>1, <2>3
  <2> QED BY <1>12, <2>2, <2>3 DEF RenderThrows
<1>13. CASE \E passes \in BOOLEAN : Check(p, passes)
  <2>1. At(p, "check") BY <1>13 DEF Check
  <2>2. CASE Fail(p) BY <1>F, <2>1, <2>2 DEF At
  <2>3. CASE \E phase \in Phases : Persist(p, WithStatus(Doc(p), phase), {"config"})
    BY <1>1, <2>1, <2>3 DEF Document
  <2> QED BY <1>13, <2>2, <2>3 DEF Check, Phases
<1>14. CASE SaveConfig(p) \/ SaveStartReport(p)
  <2>1. proc[p].at \in {"persist", "failing"} /\ \E target : Written(p, target)
    BY <1>14 DEF SaveConfig, SaveStartReport, Writing
  <2>2. PICK target : Written(p, target) BY <2>1
  <2>3. /\ \A q \in Procs \ {p} : proc'[q] = proc[q]
        /\ \/ proc'[p].at \in {"idle", "load"} /\ proc'[p].todo = {}
           \/ proc'[p].doc = Doc(p) /\ proc'[p].todo \subseteq proc[p].todo
    BY <1>1, <2>2, WrittenMoves DEF Left
  <2> QED BY <2>1, <2>3
<1>15. CASE SaveConfigThrows(p) \/ SaveStartReportThrows(p)
  <2>1. proc[p].at \in {"persist", "failing"} /\ \E target : WriteFailed(p, target)
    BY <1>15 DEF SaveConfigThrows, SaveStartReportThrows, Writing
  <2>2. PICK target : WriteFailed(p, target) BY <2>1
  <2>3. /\ \A q \in Procs \ {p} : proc'[q] = proc[q]
        /\ \/ proc'[p].at \in {"idle", "load"} /\ proc'[p].todo = {}
           \/ proc'[p].doc = Doc(p) /\ proc'[p].todo \subseteq proc[p].todo
    BY <1>1, <2>2, WriteFailedMoves DEF Left
  <2> QED BY <2>1, <2>3
<1>16. CASE ComposeUp(p)
  BY <1>1, <1>16 DEF ComposeUp, Document
<1>17. CASE ComposeDown(p)
  BY <1>1, <1>17 DEF ComposeDown, Document
<1> QED
  BY <1>3, <1>4, <1>5, <1>6, <1>7, <1>8, <1>9, <1>10, <1>11, <1>12, <1>13, <1>14, <1>15,
     <1>16, <1>17 DEF Step

\* A report that is torn is a report.
LEMMA TornIsReport ==
  ASSUME TypeInv, NEW p \in Procs
  PROVE  TornReport(p) \in CheckReport
<1>1. "entry" \in FileNames /\ "route" \in FileNames
  BY DEF FileNames, ProxyFiles, BundleFiles
<1>2. Doc(p).content \in Rendered /\ files \in [FileNames -> Rendered]
  BY DEF TypeInv, TypeOK, Doc, Running, Document
<1> QED BY <1>1, <1>2 DEF TornReport, TextOf, CheckReport

LEMMA StepKeepsFiles ==
  ASSUME TypeInv, NEW p \in Procs, Step(p)
  PROVE  /\ config' \in Document
         /\ files' \in [FileNames -> Rendered]
         /\ relays' \in {"absent", "torn", "ok"}
         /\ checked' \in CheckReport
         /\ startReport' \in {"absent", "torn", "success", "failure"}
         /\ docker' \in Compose
         /\ saved' \subseteq Contents
<1>1. /\ Doc(p) \in Document
      /\ ~At(p, "idle") /\ ~At(p, "load") => Doc(p).content \in Contents
      /\ "report" \in proc[p].todo => Doc(p).last \in {"success", "failure"}
  BY DEF TypeInv, TypeOK, Loaded, Doc, At, Running, Document, Outcomes
<1>2. /\ "entry" \in FileNames /\ "route" \in FileNames
      /\ Containers \subseteq FileNames
  BY DEF FileNames, ProxyFiles, BundleFiles, Containers
<1>3. Doc(p).content \in Rendered BY <1>1 DEF Document
<1> USE DEF TypeInv, TypeOK
<1>4. CASE Refuse(p) \/ CheckThrows(p) \/ RefreshRelayCacheThrows(p)
  BY <1>4, TornIsReport DEF Refuse, CheckThrows, RefreshRelayCacheThrows
<1>5. CASE LoadSetup(p) \/ LoadEdit(p) \/ LoadRuntime(p) \/ HttpsOk(p) \/ HttpsFails(p)
  BY <1>5 DEF LoadSetup, LoadEdit, LoadRuntime, HttpsOk, HttpsFails
<1>6. CASE LoadRelayCache(p) \/ KeepRelayCache(p) \/ RefreshRelayCache(p)
  BY <1>6 DEF LoadRelayCache, KeepRelayCache, RefreshRelayCache
<1>7. CASE RenderFile(p)
  BY <1>3, <1>7 DEF RenderFile
<1>8. CASE RenderRelayCache(p) \/ PlanFails(p)
  BY <1>8 DEF RenderRelayCache, PlanFails
<1>9. CASE RenderThrows(p)
  BY <1>3, <1>9 DEF RenderThrows
<1>10. CASE \E passes \in BOOLEAN : Check(p, passes)
  BY <1>2, <1>3, <1>10 DEF Check, TextOf, CheckReport
<1>11. CASE SaveConfig(p) \/ SaveConfigThrows(p)
  BY <1>1, <1>11 DEF SaveConfig, SaveConfigThrows, Writing, At
<1>12. CASE SaveStartReport(p) \/ SaveStartReportThrows(p)
  BY <1>1, <1>12 DEF SaveStartReport, SaveStartReportThrows, Writing
<1>13. CASE ComposeUp(p)
  BY <1>2, <1>13 DEF ComposeUp, Compose, Mounted
<1>14. CASE ComposeUpFails(p)
  BY <1>2, <1>14 DEF ComposeUpFails, Compose
<1>15. CASE ComposeDown(p) \/ ComposeDownFails(p)
  BY <1>15 DEF ComposeDown, ComposeDownFails, Compose, Down, Rendered
<1> QED
  BY <1>4, <1>5, <1>6, <1>7, <1>8, <1>9, <1>10, <1>11, <1>12, <1>13, <1>14, <1>15 DEF Step

LEMMA NextKeepsTypes == TypeInv /\ [Next]_vars => TypeInv'
<1> SUFFICES ASSUME TypeInv, [Next]_vars PROVE TypeInv'
  OBVIOUS
<1>1. ASSUME NEW p \in Procs, Step(p) PROVE TypeInv'
  BY <1>1, StepKeepsProc, StepKeepsLoaded, StepKeepsFiles DEF TypeInv, TypeOK
<1>2. ASSUME NEW p \in Procs, NEW c \in Commands, Begin(p, c) PROVE TypeInv'
  <2>1. c \in AllCommands BY LifecycleAssumption
  <2>2. proc' \in [Procs -> Running] BY <1>2, <2>1, EnterTypes DEF Begin, TypeInv, TypeOK
  <2> QED BY <1>2, <2>2 DEF Begin, Enter, Become, TypeInv, TypeOK, Loaded
<1>3. ASSUME NEW p \in Procs, Crash(p) PROVE TypeInv'
  <2>1. proc' \in [Procs -> Running] BY <1>3, ExitTypes DEF Crash, TypeInv, TypeOK
  <2>2. checked' \in CheckReport BY <1>3, TornIsReport DEF Crash, TypeInv, TypeOK
  <2> QED BY <1>3, <2>1, <2>2 DEF Crash, Exit, Idle, TypeInv, TypeOK, Loaded
<1>4. ASSUME ContainersExit \/ ContainersRestart PROVE TypeInv'
  <2>1. Containers \subseteq FileNames
    BY DEF Containers, FileNames, ProxyFiles, BundleFiles
  <2> QED BY <1>4, <2>1 DEF ContainersExit, ContainersRestart, Down, Compose, Rendered,
              TypeInv, TypeOK, Loaded
<1>5. CASE UNCHANGED vars
  BY <1>5 DEF vars, TypeInv, TypeOK, Loaded
<1> QED BY <1>1, <1>2, <1>3, <1>4, <1>5 DEF Next

THEOREM TypesInvariant == Spec => []TypeInv
BY InitTypes, NextKeepsTypes, PTL DEF Spec

\* Every variable keeps its type, whatever overlaps, dies or fails.
THEOREM TypeCorrect == Spec => []TypeOK
BY TypesInvariant, PTL DEF TypeInv


-----------------------------------------------------------------------------
(* A config that says "running" records a successful start.  What a command  *)
(* carries in memory must be as consistent as what is saved.                 *)

SuccessInv ==
  /\ RunningHasSucceeded
  /\ \A p \in Procs : proc[p].doc.phase = "running" => proc[p].doc.last = "success"

LEMMA InitSuccess == Init => SuccessInv
BY DEF Init, SuccessInv, RunningHasSucceeded, Missing, Idle

LEMMA StepKeepsSuccess ==
  ASSUME TypeInv, SuccessInv, NEW p \in Procs, Step(p)
  PROVE  SuccessInv'
<1>1. /\ proc \in [Procs -> Running]
      /\ Doc(p) \in Document
      /\ config \in Document
  BY DEF TypeInv, TypeOK, Doc, Running
<1>2. SUFFICES /\ config'.phase = "running" => config'.last = "success"
               /\ proc'[p].doc.phase = "running" => proc'[p].doc.last = "success"
               /\ \A q \in Procs \ {p} : proc'[q] = proc[q]
  BY DEF SuccessInv, RunningHasSucceeded
<1> USE DEF SuccessInv, RunningHasSucceeded, Become, GoOn, Goto, Exit, Persist, Idle, Missing,
            Cmd, Doc
<1>3. CASE Refuse(p) \/ CheckThrows(p) \/ RefreshRelayCacheThrows(p) \/ ComposeDownFails(p)
  BY <1>1, <1>3 DEF Refuse, CheckThrows, RefreshRelayCacheThrows, ComposeDownFails
<1>4. CASE LoadSetup(p)
  BY <1>1, <1>4 DEF LoadSetup
<1>5. CASE LoadEdit(p)
  BY <1>1, <1>5 DEF LoadEdit, Document
<1>6. CASE LoadRuntime(p) \/ HttpsOk(p)
  BY <1>1, <1>6 DEF LoadRuntime, HttpsOk
<1>7. CASE KeepRelayCache(p) \/ RefreshRelayCache(p)
  BY <1>1, <1>7 DEF KeepRelayCache, RefreshRelayCache
<1>8. CASE RenderFile(p) \/ RenderRelayCache(p)
  BY <1>1, <1>8 DEF RenderFile, RenderRelayCache
<1>F. CASE Fail(p) /\ config' = config
  BY <1>1, <1>F, FailMoves
<1>9. CASE HttpsFails(p) \/ PlanFails(p) \/ ComposeUpFails(p)
  BY <1>9, <1>F DEF HttpsFails, PlanFails, ComposeUpFails
<1>10. CASE LoadRelayCache(p)
  <2>1. CASE Fail(p) BY <1>10, <1>F, <2>1 DEF LoadRelayCache
  <2>2. CASE ~Fail(p) BY <1>1, <1>10, <2>2 DEF LoadRelayCache
  <2> QED BY <2>1, <2>2
<1>11. CASE RenderThrows(p)
  <2>1. config' = config BY <1>11 DEF RenderThrows
  <2>2. CASE Fail(p) BY <1>F, <2>1, <2>2
  <2>3. CASE Exit(p) BY <1>1, <2>1, <2>3
  <2> QED BY <1>11, <2>2, <2>3 DEF RenderThrows
<1>12. CASE \E passes \in BOOLEAN : Check(p, passes)
  <2>1. config' = config BY <1>12 DEF Check
  <2>2. CASE Fail(p) BY <1>F, <2>1, <2>2
  <2>3. CASE \E phase \in {"starting", "validated", "error"} :
               Persist(p, WithStatus(Doc(p), phase), {"config"})
    BY <1>1, <2>1, <2>3 DEF WithStatus, Document
  <2> QED BY <1>12, <2>2, <2>3 DEF Check
<1>13. CASE SaveConfig(p) \/ SaveStartReport(p)
  <2>1. config' \in {config, Doc(p)} BY <1>13 DEF SaveConfig, SaveStartReport
  <2>2. PICK target : Written(p, target) BY <1>13 DEF SaveConfig, SaveStartReport
  <2>3. /\ \A q \in Procs \ {p} : proc'[q] = proc[q]
        /\ proc'[p].doc \in {Doc(p), Missing}
    BY <1>1, <2>2, WrittenMoves
  <2> QED BY <2>1, <2>3
<1>14. CASE SaveConfigThrows(p) \/ SaveStartReportThrows(p)
  <2>1. config' \in {config, Doc(p)} BY <1>14 DEF SaveConfigThrows, SaveStartReportThrows
  <2>2. PICK target : WriteFailed(p, target)
    BY <1>14 DEF SaveConfigThrows, SaveStartReportThrows
  <2>3. /\ \A q \in Procs \ {p} : proc'[q] = proc[q]
        /\ proc'[p].doc \in {Doc(p), Missing}
    BY <1>1, <2>2, WriteFailedMoves
  <2> QED BY <2>1, <2>3
<1>15. CASE ComposeUp(p)
  <2>1. WithOutcome(Doc(p), "running", "success").last = "success"
    BY <1>1 DEF WithOutcome, Document
  <2>2. /\ config' = config
        /\ Persist(p, WithOutcome(Doc(p), "running", "success"), {"config", "report"})
    BY <1>15 DEF ComposeUp
  <2> QED BY <1>1, <2>1, <2>2
<1>16. CASE ComposeDown(p)
  <2>1. WithStatus(Doc(p), "validated").phase = "validated"
    BY <1>1 DEF WithStatus, Document
  <2> QED BY <1>1, <1>16, <2>1 DEF ComposeDown
<1> QED
  BY <1>3, <1>4, <1>5, <1>6, <1>7, <1>8, <1>9, <1>10, <1>11, <1>12, <1>13, <1>14, <1>15,
     <1>16
  DEF Step

LEMMA NextKeepsSuccess == TypeInv /\ SuccessInv /\ [Next]_vars => SuccessInv'
<1> SUFFICES ASSUME TypeInv, SuccessInv, [Next]_vars PROVE SuccessInv'
  OBVIOUS
<1>1. proc \in [Procs -> Running] BY DEF TypeInv, TypeOK
<1>2. ASSUME NEW p \in Procs, Step(p) PROVE SuccessInv'
  BY <1>2, StepKeepsSuccess
<1>3. ASSUME NEW p \in Procs, NEW c \in Commands, Begin(p, c) PROVE SuccessInv'
  BY <1>1, <1>3 DEF Begin, Enter, Become, Missing, SuccessInv, RunningHasSucceeded
<1>4. ASSUME NEW p \in Procs, Crash(p) PROVE SuccessInv'
  BY <1>1, <1>4 DEF Crash, Exit, Idle, Missing, SuccessInv, RunningHasSucceeded
<1>5. CASE ContainersExit \/ ContainersRestart \/ UNCHANGED vars
  BY <1>5 DEF ContainersExit, ContainersRestart, vars, SuccessInv, RunningHasSucceeded
<1> QED BY <1>2, <1>3, <1>4, <1>5 DEF Next

\* Whatever commands overlap, die or fail, config.json never says "running" without
\* the record of a start that succeeded.
THEOREM RunningSucceeded == Spec => []RunningHasSucceeded
<1>1. SuccessInv => RunningHasSucceeded BY DEF SuccessInv
<1> QED BY <1>1, InitSuccess, NextKeepsSuccess, TypesInvariant, PTL DEF Spec

-----------------------------------------------------------------------------
(* Nothing is rendered that was never saved.  A command that is not about to *)
(* save its document, or to give up, works on a content that was saved.      *)

Uncommitted(p) ==
  \/ proc[p].at \in {"idle", "load", "failing"}
  \/ proc[p].at = "persist" /\ "config" \in proc[p].todo

SavedInv ==
  /\ NothingRenderedUnsaved
  /\ config.content \in saved \union {Absent}
  /\ \A p \in Procs : Uncommitted(p) \/ proc[p].doc.content \in saved

LEMMA ContainersMountFiles == Containers \subseteq FileNames
BY DEF Containers, FileNames, ProxyFiles, BundleFiles

LEMMA InitSaved == Init => SavedInv
BY ContainersMountFiles DEF Init, SavedInv, NothingRenderedUnsaved, Missing, NoFiles, Down,
  Idle, Uncommitted

\* The part of a step that does not touch files or containers.
LEMMA StepKeepsCommitted ==
  ASSUME TypeInv, SavedInv, NEW p \in Procs, Step(p)
  PROVE  /\ config'.content \in saved' \union {Absent}
         /\ saved \subseteq saved'
         /\ Uncommitted(p)' \/ proc'[p].doc.content \in saved'
         /\ \A q \in Procs \ {p} : proc'[q] = proc[q]
<1>1. /\ proc \in [Procs -> Running]
      /\ Doc(p) \in Document
      /\ config \in Document
  BY DEF TypeInv, TypeOK, Doc, Running
<1> USE DEF SavedInv, Uncommitted, Become, GoOn, Goto, Exit, Persist, Idle, Cmd, Doc, At
<1>2. CASE /\ config' = config /\ saved' = saved
           /\ \/ Exit(p) \/ Fail(p)
              \/ \E doc : \/ Persist(p, doc, {"config"})
                         \/ Persist(p, doc, {"config", "report"})
  <2>1. CASE Fail(p) BY <1>1, <1>2, <2>1, FailMoves
  <2>2. CASE ~Fail(p) BY <1>1, <1>2, <2>2
  <2> QED BY <2>1, <2>2
<1>3. CASE Refuse(p) \/ CheckThrows(p) \/ RefreshRelayCacheThrows(p) \/ ComposeDownFails(p)
  BY <1>2, <1>3 DEF Refuse, CheckThrows, RefreshRelayCacheThrows, ComposeDownFails
<1>4. CASE LoadSetup(p) \/ LoadEdit(p)
  BY <1>2, <1>4 DEF LoadSetup, LoadEdit
<1>5. CASE LoadRuntime(p)
  BY <1>1, <1>5 DEF LoadRuntime
<1>6. CASE HttpsOk(p) \/ KeepRelayCache(p) \/ RefreshRelayCache(p)
  BY <1>1, <1>6 DEF HttpsOk, KeepRelayCache, RefreshRelayCache
<1>7. CASE HttpsFails(p) \/ PlanFails(p) \/ ComposeUpFails(p)
  BY <1>2, <1>7 DEF HttpsFails, PlanFails, ComposeUpFails
<1>8. CASE LoadRelayCache(p)
  <2>1. CASE Fail(p) BY <1>2, <1>8, <2>1 DEF LoadRelayCache
  <2>2. CASE ~Fail(p) BY <1>1, <1>8, <2>2 DEF LoadRelayCache
  <2> QED BY <2>1, <2>2
<1>9. CASE RenderFile(p) \/ RenderRelayCache(p)
  BY <1>1, <1>9 DEF RenderFile, RenderRelayCache, FileNames, ProxyFiles, BundleFiles
<1>10. CASE RenderThrows(p)
  BY <1>2, <1>10 DEF RenderThrows
<1>11. CASE \E passes \in BOOLEAN : Check(p, passes)
  <2>1. config' = config /\ saved' = saved BY <1>11 DEF Check
  <2>2. Fail(p) \/ \E doc : Persist(p, doc, {"config"})
    BY <1>11 DEF Check
  <2> QED BY <1>2, <2>1, <2>2
<1>12. CASE SaveConfig(p)
  <2>1. config' = Doc(p) /\ saved' = saved \union {Doc(p).content} /\ Written(p, "config")
    BY <1>12 DEF SaveConfig
  <2>2. /\ \A q \in Procs \ {p} : proc'[q] = proc[q]
        /\ proc'[p].at \in {"idle", "load"} \/ proc'[p].doc = Doc(p)
    BY <1>1, <2>1, WrittenMoves
  <2> QED BY <2>1, <2>2
<1>13. CASE SaveStartReport(p)
  <2>1. /\ config' = config /\ saved' = saved /\ Written(p, "report")
        /\ At(p, "persist") \/ At(p, "failing")
    BY <1>13 DEF SaveStartReport, Writing
  <2>2. /\ \A q \in Procs \ {p} : proc'[q] = proc[q]
        /\ \/ proc'[p].at \in {"idle", "load"}
           \/ proc'[p].at = proc[p].at /\ proc'[p].doc = Doc(p)
              /\ proc'[p].todo = Left(p, "report")
           \/ At(p, "persist") /\ Left(p, "report") = {} /\ proc'[p].doc = Doc(p)
    BY <1>1, <2>1, WrittenMoves
  <2> QED BY <2>1, <2>2 DEF Left
<1>14. CASE SaveConfigThrows(p) \/ SaveStartReportThrows(p)
  <2>1. \/ config' = config /\ saved' = saved
        \/ config' = Doc(p) /\ saved' = saved \union {Doc(p).content}
    BY <1>14 DEF SaveConfigThrows, SaveStartReportThrows
  <2>2. PICK target : WriteFailed(p, target)
    BY <1>14 DEF SaveConfigThrows, SaveStartReportThrows
  <2>3. /\ \A q \in Procs \ {p} : proc'[q] = proc[q]
        /\ proc'[p].at \in {"idle", "failing"}
    BY <1>1, <2>2, WriteFailedMoves
  <2> QED BY <2>1, <2>3
<1>15. CASE ComposeUp(p) \/ ComposeDown(p)
  BY <1>2, <1>15 DEF ComposeUp, ComposeDown
<1> QED
  BY <1>3, <1>4, <1>5, <1>6, <1>7, <1>8, <1>9, <1>10, <1>11, <1>12, <1>13, <1>14, <1>15
  DEF Step

LEMMA StepKeepsRendered ==
  ASSUME TypeInv, SavedInv, NEW p \in Procs, Step(p)
  PROVE  NothingRenderedUnsaved'
<1>1. /\ files \in [FileNames -> Rendered]
      /\ docker \in Compose
      /\ saved \subseteq saved'
  BY StepKeepsCommitted DEF TypeInv, TypeOK
<1>2. \A f \in FileNames : At(p, f) => Doc(p).content \in saved
  BY DEF SavedInv, Uncommitted, At, Doc, FileNames, ProxyFiles, BundleFiles
<1>3. CASE /\ \A k \in Containers : docker'.runs[k] \in {docker.runs[k], files[k], Absent}
           /\ \/ files' = files
              \/ \E f \in FileNames : At(p, f) /\ files' = [files EXCEPT ![f] = Doc(p).content]
  BY <1>1, <1>2, <1>3, ContainersMountFiles DEF SavedInv, NothingRenderedUnsaved
<1>4. CASE docker' = docker
           /\ \/ files' = files
              \/ \E f \in FileNames : At(p, f) /\ files' = [files EXCEPT ![f] = Doc(p).content]
  BY <1>3, <1>4
<1>5. CASE RenderFile(p) \/ RenderThrows(p)
  BY <1>4, <1>5 DEF RenderFile, RenderThrows
<1>6. CASE ComposeUp(p) \/ ComposeDown(p)
  BY <1>3, <1>6 DEF ComposeUp, ComposeDown, Mounted, Down
<1>7. CASE ComposeUpFails(p) \/ ComposeDownFails(p)
  BY <1>3, <1>4, <1>7 DEF ComposeUpFails, ComposeDownFails
<1>8. CASE Refuse(p) \/ LoadSetup(p) \/ LoadEdit(p) \/ LoadRuntime(p)
           \/ HttpsOk(p) \/ HttpsFails(p) \/ LoadRelayCache(p) \/ KeepRelayCache(p)
           \/ RefreshRelayCache(p) \/ RefreshRelayCacheThrows(p)
  BY <1>4, <1>8 DEF Refuse, LoadSetup, LoadEdit, LoadRuntime, HttpsOk, HttpsFails,
     LoadRelayCache, KeepRelayCache, RefreshRelayCache, RefreshRelayCacheThrows
<1>9. CASE \/ RenderRelayCache(p) \/ PlanFails(p) \/ CheckThrows(p)
           \/ \E passes \in BOOLEAN : Check(p, passes)
  BY <1>4, <1>9 DEF RenderRelayCache, PlanFails, CheckThrows, Check
<1>10. CASE SaveConfig(p) \/ SaveConfigThrows(p) \/ SaveStartReport(p) \/ SaveStartReportThrows(p)
  BY <1>4, <1>10 DEF SaveConfig, SaveConfigThrows, SaveStartReport, SaveStartReportThrows
<1> QED BY <1>5, <1>6, <1>7, <1>8, <1>9, <1>10 DEF Step

LEMMA NextKeepsSaved == TypeInv /\ SavedInv /\ [Next]_vars => SavedInv'
<1> SUFFICES ASSUME TypeInv, SavedInv, [Next]_vars PROVE SavedInv'
  OBVIOUS
<1>1. /\ proc \in [Procs -> Running]
      /\ docker \in Compose
  BY DEF TypeInv, TypeOK
<1>2. ASSUME NEW p \in Procs, Step(p) PROVE SavedInv'
  BY <1>2, StepKeepsCommitted, StepKeepsRendered DEF SavedInv, Uncommitted
<1>3. ASSUME NEW p \in Procs, NEW c \in Commands, Begin(p, c) PROVE SavedInv'
  BY <1>1, <1>3 DEF Begin, Enter, Become, SavedInv, NothingRenderedUnsaved, Uncommitted
<1>4. ASSUME NEW p \in Procs, Crash(p) PROVE SavedInv'
  BY <1>1, <1>4 DEF Crash, Exit, Idle, SavedInv, NothingRenderedUnsaved, Uncommitted
<1>5. CASE ContainersExit
  BY <1>5 DEF ContainersExit, Down, SavedInv, NothingRenderedUnsaved, Uncommitted
<1>6. CASE ContainersRestart
  BY <1>1, <1>6, ContainersMountFiles
  DEF ContainersRestart, Compose, SavedInv, NothingRenderedUnsaved, Uncommitted
<1>7. CASE UNCHANGED vars
  BY <1>7 DEF vars, SavedInv, NothingRenderedUnsaved, Uncommitted
<1> QED BY <1>2, <1>3, <1>4, <1>5, <1>6, <1>7 DEF Next

\* Every command saves a content before it renders it: no file and no container
\* ever holds a content that config.json never held, in any interleaving.
THEOREM RenderedWasSaved == Spec => []NothingRenderedUnsaved
<1>1. SavedInv => NothingRenderedUnsaved BY DEF SavedInv
<1> QED BY <1>1, InitSaved, NextKeepsSaved, TypesInvariant, PTL DEF Spec

-----------------------------------------------------------------------------
(* A project that is up is complete.  Files never go away, a start renders   *)
(* them in order, and only a start that rendered them all reaches `up`.      *)

MountsRendered == \A k \in Containers : files[k] # Absent

RenderedBy(p) ==
  /\ proc[p].at \in {"route", "relays", "compose", "sidecar", "manifest", "check"}
       => files["entry"] # Absent
  /\ proc[p].at \in {"relays", "compose", "sidecar", "manifest", "check"}
       => files["route"] # Absent
  /\ proc[p].at \in {"manifest", "check"} => files["sidecar"] # Absent

Progress(p) ==
  /\ proc[p].cmd = "start" => RenderedBy(p)
  /\ proc[p].at = "up" => MountsRendered
  /\ proc[p].at = "persist" /\ proc[p].doc.phase = "starting" => MountsRendered

MountInv ==
  /\ UpMeansComplete
  /\ \A k \in Containers : docker.runs[k] # Absent => files[k] # Absent
  /\ \A p \in Procs : Progress(p)

LEMMA InitMount == Init => MountInv
BY DEF Init, MountInv, UpMeansComplete, Down, Idle, Progress, RenderedBy

LEMMA StepKeepsFilesThere ==
  ASSUME TypeInv, NEW p \in Procs, Step(p)
  PROVE  \A f \in FileNames : files[f] # Absent => files'[f] # Absent
<1>1. files \in [FileNames -> Rendered] BY DEF TypeInv, TypeOK
<1>2. \A f \in FileNames : At(p, f) => Doc(p).content # Absent
  BY LifecycleAssumption DEF TypeInv, Loaded, At, Doc, FileNames, ProxyFiles, BundleFiles
<1>3. CASE files' = files
  BY <1>3
<1>4. CASE \E f \in FileNames : At(p, f) /\ files' = [files EXCEPT ![f] = Doc(p).content]
  BY <1>1, <1>2, <1>4
<1>5. CASE RenderFile(p) \/ RenderThrows(p)
  BY <1>3, <1>4, <1>5 DEF RenderFile, RenderThrows
<1>6. CASE Refuse(p) \/ LoadSetup(p) \/ LoadEdit(p) \/ LoadRuntime(p)
           \/ HttpsOk(p) \/ HttpsFails(p) \/ LoadRelayCache(p) \/ KeepRelayCache(p)
           \/ RefreshRelayCache(p) \/ RefreshRelayCacheThrows(p)
  BY <1>3, <1>6 DEF Refuse, LoadSetup, LoadEdit, LoadRuntime, HttpsOk, HttpsFails,
     LoadRelayCache, KeepRelayCache, RefreshRelayCache, RefreshRelayCacheThrows
<1>7. CASE \/ RenderRelayCache(p) \/ PlanFails(p) \/ CheckThrows(p)
           \/ \E passes \in BOOLEAN : Check(p, passes)
  BY <1>3, <1>7 DEF RenderRelayCache, PlanFails, CheckThrows, Check
<1>8. CASE SaveConfig(p) \/ SaveConfigThrows(p) \/ SaveStartReport(p) \/ SaveStartReportThrows(p)
  BY <1>3, <1>8 DEF SaveConfig, SaveConfigThrows, SaveStartReport, SaveStartReportThrows
<1>9. CASE ComposeUp(p) \/ ComposeUpFails(p) \/ ComposeDown(p) \/ ComposeDownFails(p)
  BY <1>3, <1>9 DEF ComposeUp, ComposeUpFails, ComposeDown, ComposeDownFails
<1> QED BY <1>5, <1>6, <1>7, <1>8, <1>9 DEF Step

\* What happens to the containers in a step: nothing, or what Compose does.
LEMMA StepKeepsMounted ==
  ASSUME TypeInv, MountInv, NEW p \in Procs, Step(p)
  PROVE  /\ UpMeansComplete'
         /\ \A k \in Containers : docker'.runs[k] # Absent => files'[k] # Absent
<1>1. \A k \in Containers : files[k] # Absent => files'[k] # Absent
  BY StepKeepsFilesThere, ContainersMountFiles
<1>2. CASE docker' = docker
  BY <1>1, <1>2 DEF MountInv, UpMeansComplete
<1>3. CASE ComposeUp(p)
  <2>1. MountsRendered BY <1>3 DEF ComposeUp, At, MountInv, Progress
  <2> QED BY <1>1, <1>3, <2>1 DEF ComposeUp, Mounted, UpMeansComplete, MountsRendered
<1>4. CASE ComposeUpFails(p)
  <2>1. MountsRendered BY <1>4 DEF ComposeUpFails, At, MountInv, Progress
  <2> QED BY <1>1, <1>2, <1>4, <2>1 DEF ComposeUpFails, UpMeansComplete, MountsRendered
<1>5. CASE ComposeDown(p) \/ ComposeDownFails(p)
  BY <1>1, <1>2, <1>5 DEF ComposeDown, ComposeDownFails, Down, MountInv, UpMeansComplete
<1>6. CASE Refuse(p) \/ LoadSetup(p) \/ LoadEdit(p) \/ LoadRuntime(p)
           \/ HttpsOk(p) \/ HttpsFails(p) \/ LoadRelayCache(p) \/ KeepRelayCache(p)
           \/ RefreshRelayCache(p) \/ RefreshRelayCacheThrows(p)
  BY <1>2, <1>6 DEF Refuse, LoadSetup, LoadEdit, LoadRuntime, HttpsOk, HttpsFails,
     LoadRelayCache, KeepRelayCache, RefreshRelayCache, RefreshRelayCacheThrows
<1>7. CASE \/ RenderFile(p) \/ RenderThrows(p)
           \/ RenderRelayCache(p) \/ PlanFails(p) \/ CheckThrows(p)
           \/ \E passes \in BOOLEAN : Check(p, passes)
  BY <1>2, <1>7 DEF RenderFile, RenderThrows, RenderRelayCache, PlanFails, CheckThrows, Check
<1>8. CASE SaveConfig(p) \/ SaveConfigThrows(p) \/ SaveStartReport(p) \/ SaveStartReportThrows(p)
  BY <1>2, <1>8 DEF SaveConfig, SaveConfigThrows, SaveStartReport, SaveStartReportThrows
<1> QED BY <1>3, <1>4, <1>5, <1>6, <1>7, <1>8 DEF Step

\* What becomes of the command that takes the step, and of the others.
LEMMA StepKeepsProgress ==
  ASSUME TypeInv, MountInv, NEW p \in Procs, Step(p)
  PROVE  \A q \in Procs : Progress(q)'
<1>1. /\ proc \in [Procs -> Running]
      /\ Doc(p) \in Document
      /\ config \in Document
      /\ files \in [FileNames -> Rendered]
  BY DEF TypeInv, TypeOK, Doc, Running
<1>2. /\ files["entry"] # Absent => files'["entry"] # Absent
      /\ files["route"] # Absent => files'["route"] # Absent
      /\ files["sidecar"] # Absent => files'["sidecar"] # Absent
  BY StepKeepsFilesThere DEF FileNames, ProxyFiles, BundleFiles
<1>3. Containers = {"entry", "route", "sidecar"} BY DEF Containers
<1>4. MountsRendered => MountsRendered' BY <1>2, <1>3 DEF MountsRendered
<1>5. SUFFICES /\ \A q \in Procs \ {p} : proc'[q] = proc[q]
               /\ Progress(p)'
  BY <1>2, <1>4 DEF MountInv, Progress, RenderedBy
<1>6. Progress(p) BY DEF MountInv
<1> USE DEF Progress, RenderedBy, Become, GoOn, Goto, Exit, Persist, Idle, Cmd, Doc, At
<1>7. CASE \/ Exit(p) \/ Fail(p)
           \/ \E doc : doc.phase # "starting" /\ (\/ Persist(p, doc, {"config"})
                                               \/ Persist(p, doc, {"config", "report"}))
  <2>1. CASE Fail(p) BY <1>1, <2>1, FailMoves
  <2>2. CASE Exit(p) BY <1>1, <2>2
  <2>3. CASE \E doc : doc.phase # "starting" /\ (\/ Persist(p, doc, {"config"})
                                              \/ Persist(p, doc, {"config", "report"}))
    BY <1>1, <2>3
  <2> QED BY <1>7, <2>1, <2>2, <2>3
<1>8. CASE Refuse(p) \/ CheckThrows(p) \/ RefreshRelayCacheThrows(p) \/ ComposeDownFails(p)
  BY <1>7, <1>8 DEF Refuse, CheckThrows, RefreshRelayCacheThrows, ComposeDownFails
<1>9. CASE LoadSetup(p)
  <2>1. \A c \in Contents : [Missing EXCEPT !.content = c].phase # "starting" BY DEF Missing
  <2> QED BY <1>7, <1>9, <2>1 DEF LoadSetup
<1>10. CASE LoadEdit(p)
  <2>1. \A c \in Contents : [config EXCEPT !.content = c, !.phase = "unvalidated"].phase # "starting"
    BY <1>1 DEF Document
  <2> QED BY <1>7, <1>10, <2>1 DEF LoadEdit
<1>11. CASE LoadRuntime(p) \/ HttpsOk(p)
  BY <1>1, <1>11 DEF LoadRuntime, HttpsOk, Starts, Validates
<1>12. CASE KeepRelayCache(p) \/ RefreshRelayCache(p)
  BY <1>1, <1>12 DEF KeepRelayCache, RefreshRelayCache
<1>13. CASE HttpsFails(p) \/ PlanFails(p) \/ ComposeUpFails(p)
  BY <1>7, <1>13 DEF HttpsFails, PlanFails, ComposeUpFails
<1>14. CASE LoadRelayCache(p)
  <2>1. CASE Fail(p) BY <1>7, <2>1
  <2>2. CASE ~Fail(p) BY <1>1, <1>14, <2>2 DEF LoadRelayCache
  <2> QED BY <2>1, <2>2
<1>15. CASE RenderFile(p)
  <2>1. PICK f \in FileNames :
          /\ At(p, f)
          /\ files' = [files EXCEPT ![f] = Doc(p).content]
          /\ Exit(p) \/ Goto(p, AfterRender(p, f))
    BY <1>15 DEF RenderFile
  <2>2. Doc(p).content # Absent
    BY <2>1, LifecycleAssumption DEF TypeInv, Loaded, FileNames, ProxyFiles, BundleFiles
  <2>3. CASE Exit(p) BY <1>7, <2>3
  <2>4. CASE Goto(p, AfterRender(p, f))
    <3>1. f = "entry" => Progress(p)' BY <1>1, <2>1, <2>2, <2>4 DEF AfterRender, FileNames
    <3>2. f = "route" => Progress(p)'
      BY <1>1, <1>2, <1>6, <2>1, <2>2, <2>4 DEF AfterRender, FileNames
    <3>3. f = "compose" => Progress(p)'
      BY <1>1, <1>2, <1>6, <2>1, <2>4 DEF AfterRender, FileNames
    <3>4. f = "sidecar" => Progress(p)'
      BY <1>1, <1>2, <1>6, <2>1, <2>2, <2>4 DEF AfterRender, FileNames
    <3>5. f = "manifest" => Progress(p)'
      BY <1>1, <1>2, <1>6, <2>1, <2>4 DEF AfterRender, FileNames
    <3>6. \A q \in Procs \ {p} : proc'[q] = proc[q] BY <1>1, <2>4
    <3> QED BY <3>1, <3>2, <3>3, <3>4, <3>5, <3>6 DEF FileNames, ProxyFiles, BundleFiles
  <2> QED BY <2>1, <2>3, <2>4
<1>16. CASE RenderRelayCache(p)
  BY <1>1, <1>2, <1>6, <1>16 DEF RenderRelayCache, Starts
<1>17. CASE RenderThrows(p)
  BY <1>7, <1>17 DEF RenderThrows
<1>18. CASE \E passes \in BOOLEAN : Check(p, passes)
  <2>1. Fail(p) \/ \E phase \in {"validated", "error"} :
                      Persist(p, WithStatus(Doc(p), phase), {"config"})
        \/ /\ At(p, "check") /\ Cmd(p) = "start" /\ files' = files
           /\ Persist(p, WithStatus(Doc(p), "starting"), {"config"})
    BY <1>18 DEF Check
  <2>2. \A phase \in {"validated", "error"} : WithStatus(Doc(p), phase).phase # "starting"
    BY <1>1 DEF WithStatus, Document
  <2>3. CASE /\ At(p, "check") /\ Cmd(p) = "start" /\ files' = files
             /\ Persist(p, WithStatus(Doc(p), "starting"), {"config"})
    <3>1. MountsRendered' BY <1>2, <1>3, <1>6, <2>3 DEF MountsRendered
    <3> QED BY <1>1, <2>3, <3>1
  <2> QED BY <1>7, <2>1, <2>2, <2>3
<1>19. CASE SaveConfig(p) \/ SaveStartReport(p)
  <2>1. PICK target : Written(p, target) BY <1>19 DEF SaveConfig, SaveStartReport
  <2>2. /\ \A q \in Procs \ {p} : proc'[q] = proc[q]
        /\ proc[p].at \in {"persist", "failing"}
        /\ \/ proc'[p].at \in {"idle", "load", "entry"}
           \/ proc'[p].cmd = "rebundle" /\ proc'[p].at = "compose"
           \/ proc'[p].at = "up" /\ At(p, "persist") /\ Doc(p).phase = "starting"
           \/ proc'[p].at = proc[p].at /\ proc'[p].doc = Doc(p)
    BY <1>1, <1>19, <2>1, WrittenMoves DEF SaveConfig, SaveStartReport, Writing
  <2> QED BY <1>4, <1>6, <2>2
<1>20. CASE SaveConfigThrows(p) \/ SaveStartReportThrows(p)
  <2>1. PICK target : WriteFailed(p, target)
    BY <1>20 DEF SaveConfigThrows, SaveStartReportThrows
  <2>2. /\ \A q \in Procs \ {p} : proc'[q] = proc[q]
        /\ proc'[p].at \in {"idle", "failing"}
    BY <1>1, <2>1, WriteFailedMoves
  <2> QED BY <2>2
<1>21. CASE ComposeUp(p)
  <2>1. WithOutcome(Doc(p), "running", "success").phase = "running"
    BY <1>1 DEF WithOutcome, Document
  <2> QED BY <1>7, <1>21, <2>1 DEF ComposeUp
<1>22. CASE ComposeDown(p)
  <2>1. WithStatus(Doc(p), "validated").phase = "validated"
    BY <1>1 DEF WithStatus, Document
  <2> QED BY <1>7, <1>22, <2>1 DEF ComposeDown
<1> QED
  BY <1>8, <1>9, <1>10, <1>11, <1>12, <1>13, <1>14, <1>15, <1>16, <1>17, <1>18, <1>19,
     <1>20, <1>21, <1>22 DEF Step

LEMMA NextKeepsMount == TypeInv /\ MountInv /\ [Next]_vars => MountInv'
<1> SUFFICES ASSUME TypeInv, MountInv, [Next]_vars PROVE MountInv'
  OBVIOUS
<1>1. /\ proc \in [Procs -> Running]
      /\ docker \in Compose
  BY DEF TypeInv, TypeOK
<1>2. ASSUME NEW p \in Procs, Step(p) PROVE MountInv'
  BY <1>2, StepKeepsMounted, StepKeepsProgress DEF MountInv
<1> USE DEF MountInv, UpMeansComplete, Progress, RenderedBy, MountsRendered
<1>3. ASSUME NEW p \in Procs, NEW c \in Commands, Begin(p, c) PROVE MountInv'
  BY <1>1, <1>3 DEF Begin, Enter, Become
<1>4. ASSUME NEW p \in Procs, Crash(p) PROVE MountInv'
  BY <1>1, <1>4 DEF Crash, Exit, Idle
<1>5. CASE ContainersExit
  BY <1>5 DEF ContainersExit, Down
<1>6. CASE ContainersRestart
  BY <1>1, <1>6 DEF ContainersRestart, Compose
<1>7. CASE UNCHANGED vars
  BY <1>7 DEF vars
<1> QED BY <1>2, <1>3, <1>4, <1>5, <1>6, <1>7 DEF Next

\* A project that is up runs all three containers, whatever overlapped or failed
\* before: no mount was missing when Compose created them.
THEOREM UpIsComplete == Spec => []UpMeansComplete
<1>1. MountInv => UpMeansComplete BY DEF MountInv
<1> QED BY <1>1, InitMount, NextKeepsMount, TypesInvariant, PTL DEF Spec
=============================================================================
