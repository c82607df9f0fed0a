------------------------------ MODULE AtomicFile ------------------------------
(***************************************************************************)
(* writeFileAtomic, by which config.json and every derived file is written:*)
(* a temporary file of its own, written and synced, then renamed over the  *)
(* file, then the directory synced.  The same function stands in           *)
(* config/store.ts, runtime/render-runtime-proxies.ts and                  *)
(* runtime/render-runtime-bundle.ts.                                       *)
(*                                                                         *)
(* Several commands may be writing one file.  A version of a file is its   *)
(* data and whether that data is synced; data that is not whole is Torn.   *)
(* Any call may throw, any command may die, and the power may go: what is  *)
(* not synced is then torn, and the file is at one of the versions on disk.*)
(***************************************************************************)
CONSTANTS
  Writers,  \* the commands writing this file
  Contents, \* what they write
  Absent,   \* the data of a file that is not there
  Torn,     \* data that is not whole: an empty file, or half of one
  Flushes,  \* is the directory synced?  Not on Windows.
  Faults    \* what may go wrong: "error", "crash", "power"

ASSUME AtomicFileAssumption ==
  /\ Absent \notin Contents /\ Torn \notin Contents /\ Absent # Torn
  /\ Flushes \in BOOLEAN
  /\ Faults \subseteq {"error", "crash", "power"}

VARIABLES
  file,     \* what the path names
  disk,     \* what it may name once the power has gone
  temp,     \* the temporary files, by the writer that names them
  call,     \* where each writer is, and what it writes
  since,    \* history: what was renamed into place since a writer's own rename
  promised  \* history: what the calls that returned allow a power loss to leave

vars == <<file, disk, temp, call, since, promised>>

Data == Contents \union {Absent, Torn}
Version == [data: Data, kept: {"cached", "synced"}]
Nothing == [data |-> Absent, kept |-> "synced"]

Steps == {"idle", "open", "write", "sync", "rename", "flush", "return"}
Idle == [at |-> "idle", content |-> Absent]

TypeOK ==
  /\ file \in Version
  /\ disk \in SUBSET Version
  /\ temp \in [Writers -> Version]
  /\ call \in [Writers -> [at: Steps, content: Contents \union {Absent}]]
  /\ since \in [Writers -> SUBSET Contents]
  /\ promised \in SUBSET (Contents \union {Absent})

Init ==
  /\ file = Nothing
  /\ disk = {Nothing}
  /\ temp = [w \in Writers |-> Nothing]
  /\ call = [w \in Writers |-> Idle]
  /\ since = [w \in Writers |-> {}]
  /\ promised = {Absent}

-----------------------------------------------------------------------------
At(w, step) == call[w].at = step
Content(w) == call[w].content
Goto(w, step) == call' = [call EXCEPT ![w] = [at |-> step, content |-> Content(w)]]
Leave(w) == call' = [call EXCEPT ![w] = Idle]

\* Slip: one name for all.
SharedName(w) == CHOOSE v \in Writers : TRUE
\* The process id and 32 random bits: no two calls share a temporary file.
TempOf(w) == w

Begin(w) ==
  /\ At(w, "idle")
  /\ \E c \in Contents : call' = [call EXCEPT ![w] = [at |-> "open", content |-> c]]
  /\ UNCHANGED <<file, disk, temp, since, promised>>

\* open(..., 'w') creates the file empty, or empties it.
Open(w) ==
  /\ At(w, "open")
  /\ temp' = [temp EXCEPT ![TempOf(w)] = [data |-> Torn, kept |-> "cached"]]
  /\ Goto(w, "write")
  /\ UNCHANGED <<file, disk, since, promised>>

WriteTemp(w) ==
  /\ At(w, "write")
  /\ temp' = [temp EXCEPT ![TempOf(w)] = [data |-> Content(w), kept |-> "cached"]]
  /\ Goto(w, "sync")
  /\ UNCHANGED <<file, disk, since, promised>>

\* Slip: the temporary file is not synced.
SkipSync(w) ==
  /\ At(w, "sync")
  /\ Goto(w, "rename")
  /\ UNCHANGED <<file, disk, temp, since, promised>>

SyncTemp(w) ==
  /\ At(w, "sync")
  /\ temp' = [temp EXCEPT ![TempOf(w)] = [data |-> temp[TempOf(w)].data, kept |-> "synced"]]
  /\ Goto(w, "rename")
  /\ UNCHANGED <<file, disk, since, promised>>

Renamed == {"flush", "return"}

\* A power loss may or may not undo a rename until the directory is synced.
Rename(w) ==
  /\ At(w, "rename")
  /\ file' = temp[TempOf(w)]
  /\ disk' = disk \union {temp[TempOf(w)]}
  /\ temp' = [temp EXCEPT ![TempOf(w)] = Nothing]
  /\ since' = [v \in Writers |->
                 IF v = w THEN {Content(w)}
                 ELSE IF call[v].at \in Renamed THEN since[v] \union {Content(w)}
                 ELSE since[v]]
  /\ promised' = promised \union {Content(w)}
  /\ Goto(w, "flush")

\* Slip: the directory is not synced.
SkipFlush(w) ==
  /\ At(w, "flush")
  /\ Goto(w, "return")
  /\ UNCHANGED <<file, disk, temp, since, promised>>

FlushDirectory(w) ==
  /\ At(w, "flush")
  /\ disk' = IF Flushes THEN {file} ELSE disk
  /\ Goto(w, "return")
  /\ UNCHANGED <<file, temp, since, promised>>

\* A call that returned promises that a power loss goes back no further than it.
Return(w) ==
  /\ At(w, "return")
  /\ promised' = IF Flushes THEN promised \intersect since[w] ELSE promised
  /\ since' = [since EXCEPT ![w] = {}]
  /\ Leave(w)
  /\ UNCHANGED <<file, disk, temp>>

\* An error while the temporary file is written: it is closed, and stays.
ThrowWriting(w) ==
  /\ "error" \in Faults
  /\ call[w].at \in {"open", "write", "sync"}
  /\ temp' \in {temp, [temp EXCEPT ![TempOf(w)] = [data |-> Torn, kept |-> "cached"]]}
  /\ Leave(w)
  /\ UNCHANGED <<file, disk, since, promised>>

\* Slip: a failed rename starts over.
StartOver(w) ==
  /\ "error" \in Faults
  /\ call[w].at \in {"rename", "flush"}
  /\ temp' = [temp EXCEPT ![TempOf(w)] = Nothing]
  /\ since' = [since EXCEPT ![w] = {}]
  /\ Goto(w, "open")
  /\ UNCHANGED <<file, disk, promised>>

\* An error from then on: the temporary file is removed, if it is still there.
ThrowRenaming(w) ==
  /\ "error" \in Faults
  /\ call[w].at \in {"rename", "flush"}
  /\ temp' = [temp EXCEPT ![TempOf(w)] = Nothing]
  /\ since' = [since EXCEPT ![w] = {}]
  /\ Leave(w)
  /\ UNCHANGED <<file, disk, promised>>

Crash(w) ==
  /\ "crash" \in Faults
  /\ ~At(w, "idle")
  /\ since' = [since EXCEPT ![w] = {}]
  /\ Leave(w)
  /\ UNCHANGED <<file, disk, temp, promised>>

\* What a version is once the power has gone.
Surviving(v) == IF v.kept = "synced" THEN v ELSE [data |-> Torn, kept |-> "synced"]

PowerLoss ==
  /\ "power" \in Faults
  /\ \E v \in disk :
       /\ file' = Surviving(v)
       /\ disk' = {Surviving(v)}
       /\ promised' = {Surviving(v).data}
  /\ temp' = [w \in Writers |-> Surviving(temp[w])]
  /\ call' = [w \in Writers |-> Idle]
  /\ since' = [w \in Writers |-> {}]

Step(w) ==
  \/ Open(w) \/ WriteTemp(w) \/ SyncTemp(w) \/ Rename(w) \/ FlushDirectory(w)
  \/ Return(w) \/ ThrowWriting(w) \/ ThrowRenaming(w)

Next ==
  \/ \E w \in Writers : Begin(w) \/ Step(w) \/ Crash(w)
  \/ PowerLoss

Spec == Init /\ [][Next]_vars
\* A call that began goes on: every await of it settles.
FairSpec == Spec /\ \A w \in Writers : WF_vars(Step(w))

-----------------------------------------------------------------------------
\* What the file names, and what a power loss could leave it naming, is synced, whole
\* and promised; every writer's history says how far the disk has got with its call.
FileInv ==
  /\ TypeOK
  /\ file \in disk
  /\ \A v \in disk : v.kept = "synced" /\ v.data # Torn /\ v.data \in promised
  /\ \A w \in Writers :
       /\ call[w].at # "idle" => call[w].content \in Contents
       /\ call[w].at = "sync" => temp[w].data = call[w].content
       /\ call[w].at = "rename" => temp[w] = [data |-> call[w].content, kept |-> "synced"]
       /\ call[w].at \in Renamed => file.data \in since[w]
       /\ call[w].at \notin Renamed => since[w] = {}
       /\ Flushes /\ call[w].at = "return" => \A v \in disk : v.data \in since[w]

\* A reader finds the file absent or whole, at any moment, also after a power loss:
\* config.json that is half-written would be refused by every command.
Whole == file.data # Torn

\* What a power loss can leave was written by a call no older than any that returned:
\* a status or an edit reported as saved is not undone.
AckedSurvives == \A v \in disk : v.data \in promised

\* Every call returns or throws.
CallsEnd == \A w \in Writers : ~At(w, "idle") ~> At(w, "idle")

\* A call is pending until its rename.
Pending == [w \in Writers |->
              IF call[w].at \in {"idle"} \union Renamed THEN Absent ELSE call[w].content]

Durable == INSTANCE Register WITH
  value <- file.data, pending <- Pending, since <- since, kept <- promised

\* Where directories are synced, the file is the register its callers take it for:
\* each call sets it at one moment, and a loss goes back behind no call that returned.
IsRegister == Durable!Spec
=============================================================================
