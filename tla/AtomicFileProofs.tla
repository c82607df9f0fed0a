--------------------------- MODULE AtomicFileProofs ---------------------------
(***************************************************************************)
(* For any number of writers and contents and any faults, FileInv is       *)
(* inductive; it gives Whole and AckedSurvives, and, where directories are *)
(* synced, the refinement of Register, step by step.                       *)
(***************************************************************************)
EXTENDS AtomicFile, TLAPS

\* Before any call the file is absent, synced and promised: FileInv holds.
LEMMA InitInv == Init => FileInv
<1> SUFFICES ASSUME Init PROVE FileInv OBVIOUS
<1> USE DEF Init, Nothing, Idle
<1>1. TypeOK BY DEF TypeOK, Version, Data, Steps
<1>2. \A v \in disk : v.kept = "synced" /\ v.data # Torn /\ v.data \in promised
  BY AtomicFileAssumption
<1> QED BY <1>1, <1>2 DEF FileInv, Renamed

\* A call begins, having renamed nothing yet.
LEMMA BeginInv == ASSUME FileInv, NEW w \in Writers, Begin(w) PROVE FileInv'
BY DEF FileInv, TypeOK, Begin, At, Version, Data, Steps, Renamed

\* The writer's own temporary file, and nothing else, changes until the rename.
LEMMA WriteInv ==
  ASSUME FileInv, NEW w \in Writers, Open(w) \/ WriteTemp(w) \/ SyncTemp(w)
  PROVE FileInv'
<1> USE DEF FileInv, At, Goto, Content, TempOf
<1>1. TypeOK'
  <2> USE DEF TypeOK, Version, Data, Steps
  <2>1. CASE Open(w) BY <2>1 DEF Open
  <2>2. CASE WriteTemp(w) BY <2>2 DEF WriteTemp
  <2>3. CASE SyncTemp(w) BY <2>3 DEF SyncTemp
  <2> QED BY <2>1, <2>2, <2>3
<1>2. CASE Open(w) BY <1>1, <1>2 DEF TypeOK, Open, Renamed
<1>3. CASE WriteTemp(w) BY <1>1, <1>3 DEF TypeOK, WriteTemp, Renamed
<1>4. CASE SyncTemp(w) BY <1>1, <1>4 DEF TypeOK, SyncTemp, Renamed
<1> QED BY <1>2, <1>3, <1>4

\* What is renamed into place is synced, promised, and in every history that counts.
LEMMA RenameInv == ASSUME FileInv, NEW w \in Writers, Rename(w) PROVE FileInv'
<1> USE DEF FileInv, Rename, At, Goto, Content, TempOf
<1>1. /\ Content(w) \in Contents
      /\ temp[w] = [data |-> Content(w), kept |-> "synced"]
  OBVIOUS
<1>2. TypeOK' BY <1>1 DEF TypeOK, Nothing, Version, Data, Steps
<1>3. \A v \in disk' : v.kept = "synced" /\ v.data # Torn /\ v.data \in promised'
  BY <1>1, AtomicFileAssumption
<1>4. file' \in disk' /\ file'.data = Content(w) BY <1>1
<1>5. ASSUME NEW v \in Writers
      PROVE /\ call'[v].at # "idle" => call'[v].content \in Contents
            /\ call'[v].at = "sync" => temp'[v].data = call'[v].content
            /\ call'[v].at = "rename" =>
                 temp'[v] = [data |-> call'[v].content, kept |-> "synced"]
            /\ call'[v].at \in Renamed => file'.data \in since'[v]
            /\ call'[v].at \notin Renamed => since'[v] = {}
            /\ Flushes /\ call'[v].at = "return" => \A d \in disk' : d.data \in since'[v]
  <2>1. CASE v = w BY <1>1, <1>4, <2>1 DEF TypeOK, Renamed
  <2>2. CASE v # w
    <3>1. call'[v] = call[v] /\ temp'[v] = temp[v] BY <2>2 DEF TypeOK
    <3>2. CASE call[v].at \in Renamed
      <4>1. since'[v] = since[v] \union {Content(w)} BY <2>2, <3>2
      <4> QED BY <1>1, <1>4, <3>1, <3>2, <4>1 DEF Renamed
    <3>3. CASE call[v].at \notin Renamed
      BY <2>2, <3>1, <3>3 DEF Renamed
    <3> QED BY <3>2, <3>3
  <2> QED BY <2>1, <2>2
<1> QED BY <1>2, <1>3, <1>4, <1>5

\* A synced directory leaves the disk with the file alone, which is in the history.
LEMMA FlushInv == ASSUME FileInv, NEW w \in Writers, FlushDirectory(w) PROVE FileInv'
<1> USE DEF FileInv, FlushDirectory, At, Goto, Content
<1>1. TypeOK' BY DEF TypeOK, Steps
<1>2. disk' \subseteq disk /\ file' \in disk' OBVIOUS
<1> QED BY <1>1, <1>2 DEF TypeOK, Renamed

\* A return narrows the promise to the history, which covers all the disk may hold.
LEMMA ReturnInv == ASSUME FileInv, NEW w \in Writers, Return(w) PROVE FileInv'
<1> USE DEF FileInv, Return, At, Leave, Idle
<1>1. TypeOK' BY DEF TypeOK, Steps
<1>2. \A v \in disk : v.data \in promised' BY DEF Renamed
<1> QED BY <1>1, <1>2 DEF TypeOK, Renamed

\* A call that ends early leaves the file, the disk and the promise as they are.
LEMMA EarlyEndInv ==
  ASSUME FileInv, NEW w \in Writers, ThrowWriting(w) \/ ThrowRenaming(w) \/ Crash(w)
  PROVE FileInv'
<1> USE DEF FileInv, At, Leave, Idle, TempOf
<1>1. TypeOK'
  <2> USE DEF TypeOK, Version, Data, Steps
  <2>1. CASE ThrowWriting(w) BY <2>1 DEF ThrowWriting
  <2>2. CASE ThrowRenaming(w) BY <2>2 DEF ThrowRenaming, Nothing
  <2>3. CASE Crash(w) BY <2>3 DEF Crash
  <2> QED BY <2>1, <2>2, <2>3
<1>2. /\ UNCHANGED <<file, disk, promised>>
      /\ call' = [call EXCEPT ![w] = Idle]
      /\ since' = [since EXCEPT ![w] = {}]
      /\ \A v \in Writers \ {w} : temp'[v] = temp[v]
  BY DEF ThrowWriting, ThrowRenaming, Crash, TypeOK, Renamed
<1> QED BY <1>1, <1>2 DEF TypeOK, Renamed

\* Everything on disk is synced, so it survives a power loss as it is.
LEMMA PowerLossInv == ASSUME FileInv, PowerLoss PROVE FileInv'
<1> USE DEF FileInv, PowerLoss
<1>1. PICK v \in disk : /\ file' = Surviving(v)
                        /\ disk' = {Surviving(v)}
                        /\ promised' = {Surviving(v).data}
  OBVIOUS
<1>2. Surviving(v) = v BY DEF Surviving
<1>3. \A w \in Writers : Surviving(temp[w]) \in Version
  BY DEF Surviving, TypeOK, Version, Data
<1>4. TypeOK' BY <1>1, <1>2, <1>3 DEF TypeOK, Version, Data, Idle, Steps
<1> QED BY <1>1, <1>2, <1>4 DEF Idle, Renamed

\* The file never names what is not whole, synced and promised: FileInv is inductive.
THEOREM FileSafe == Spec => []FileInv
<1>1. FileInv /\ [Next]_vars => FileInv'
  <2> SUFFICES ASSUME FileInv, [Next]_vars PROVE FileInv' OBVIOUS
  <2>1. CASE UNCHANGED vars
    BY <2>1 DEF vars, FileInv, TypeOK
  <2>2. CASE PowerLoss BY <2>2, PowerLossInv
  <2>3. ASSUME NEW w \in Writers, Begin(w) \/ Step(w) \/ Crash(w) PROVE FileInv'
    BY <2>3, BeginInv, WriteInv, RenameInv, FlushInv, ReturnInv, EarlyEndInv DEF Step
  <2> QED BY <2>1, <2>2, <2>3 DEF Next
<1> QED BY InitInv, <1>1, PTL DEF Spec

\* At every moment, and after any loss, a reader finds the file absent or whole.
THEOREM AlwaysWhole == Spec => []Whole
<1>1. FileInv => Whole BY DEF FileInv, Whole
<1> QED BY <1>1, FileSafe, PTL

\* What a power loss can leave is no older than the last call that returned.
THEOREM AckedIsSafe == Spec => []AckedSurvives
<1>1. FileInv => AckedSurvives BY DEF FileInv, AckedSurvives
<1> QED BY <1>1, FileSafe, PTL

-----------------------------------------------------------------------------
\* Register's state, before any call.
LEMMA InitMaps == Init => Durable!Init
BY DEF Init, Durable!Init, Nothing, Idle, Pending

\* Up to its rename a call is pending, and every step but its first is invisible.
LEMMA WriteMaps ==
  ASSUME FileInv, NEW w \in Writers,
         Begin(w) \/ Open(w) \/ WriteTemp(w) \/ SyncTemp(w) \/ FlushDirectory(w)
  PROVE Durable!Call(w) \/ UNCHANGED Durable!vars
<1> USE DEF FileInv, TypeOK, At, Goto, Content
<1>1. CASE Begin(w)
  <2>1. PICK c \in Contents : call' = [call EXCEPT ![w] = [at |-> "open", content |-> c]]
    BY <1>1 DEF Begin
  <2>2. Pending' = [Pending EXCEPT ![w] = c] BY <2>1 DEF Pending, Renamed
  <2>3. Pending[w] = Absent /\ since[w] = {} BY <1>1 DEF Begin, Pending, Renamed
  <2> QED BY <1>1, <2>2, <2>3 DEF Begin, Durable!Call
<1>2. CASE Open(w) \/ WriteTemp(w) \/ SyncTemp(w) \/ FlushDirectory(w)
  <2>1. UNCHANGED <<file, since, promised>>
    BY <1>2 DEF Open, WriteTemp, SyncTemp, FlushDirectory
  <2>2. ASSUME NEW v \in Writers PROVE Pending'[v] = Pending[v]
    BY <1>2 DEF Open, WriteTemp, SyncTemp, FlushDirectory, Pending, Renamed
  <2>3. Pending' = Pending BY <2>2 DEF Pending
  <2> QED BY <2>1, <2>3 DEF Durable!vars
<1> QED BY <1>1, <1>2

\* The rename is the moment at which a call sets the register.
LEMMA RenameMaps ==
  ASSUME FileInv, NEW w \in Writers, Rename(w) PROVE Durable!Set(w)
<1> USE DEF FileInv, Rename, At, Goto, Content, TempOf
<1>1. /\ call[w].at = "rename" /\ Content(w) \in Contents
      /\ temp[w].data = Content(w)
  <2>1. call[w].at = "rename" OBVIOUS
  <2>2. Content(w) \in Contents BY <2>1
  <2>3. temp[w] = [data |-> Content(w), kept |-> "synced"] BY <2>1
  <2> QED BY <2>1, <2>2, <2>3
<1>2. Pending[w] = Content(w) /\ Content(w) # Absent
  BY <1>1, AtomicFileAssumption DEF Pending, Renamed
<1>3. file'.data = Pending[w] BY <1>1, <1>2
<1>4. Pending' = [Pending EXCEPT ![w] = Absent] BY DEF Pending, Renamed, TypeOK
<1>5. since' = [v \in Writers |->
                  IF v = w THEN {file'.data}
                  ELSE IF since[v] # {} THEN since[v] \union {file'.data} ELSE {}]
  BY <1>2, <1>3 DEF Renamed
<1>6. promised' = promised \union {file'.data} BY <1>2, <1>3
<1> QED BY <1>2, <1>3, <1>4, <1>5, <1>6 DEF Durable!Set

\* A return is a return, where the directory was synced before it.
LEMMA ReturnMaps ==
  ASSUME FileInv, Flushes, NEW w \in Writers, Return(w) PROVE Durable!Return(w)
<1> USE DEF FileInv, Return, At, Leave, Idle
<1>1. since[w] # {} BY DEF Renamed
<1>2. Pending' = Pending BY DEF Pending, Renamed, TypeOK
<1> QED BY <1>1, <1>2 DEF Durable!Return

\* A call that throws or dies fails, whether it had set the register or not.
LEMMA EarlyEndMaps ==
  ASSUME FileInv, NEW w \in Writers, ThrowWriting(w) \/ ThrowRenaming(w) \/ Crash(w)
  PROVE Durable!Fail(w)
<1> USE DEF FileInv, TypeOK, At, Leave, Idle
<1>1. /\ UNCHANGED <<file, promised>>
      /\ call' = [call EXCEPT ![w] = Idle]
  BY DEF ThrowWriting, ThrowRenaming, Crash
<1>2. since' = [since EXCEPT ![w] = {}]
  BY DEF ThrowWriting, ThrowRenaming, Crash, Renamed
<1>3. Pending' = [Pending EXCEPT ![w] = Absent] BY <1>1 DEF Pending
<1> QED BY <1>1, <1>2, <1>3 DEF Durable!Fail

\* A power loss takes the register back to something promised.
LEMMA PowerLossMaps == ASSUME FileInv, PowerLoss PROVE Durable!Lose
<1> USE DEF FileInv, PowerLoss
<1>1. PICK v \in disk : file' = Surviving(v) /\ promised' = {Surviving(v).data}
  OBVIOUS
<1>2. Surviving(v) = v BY DEF Surviving
<1>3. Pending' = [w \in Writers |-> Absent] BY DEF Pending, Idle
<1> QED BY <1>1, <1>2, <1>3 DEF Durable!Lose

\* writeFileAtomic implements a durable register, on a system that syncs directories.
THEOREM Implements == ASSUME Flushes PROVE Spec => IsRegister
<1>1. FileInv /\ [Next]_vars => [Durable!Next]_(Durable!vars)
  <2> SUFFICES ASSUME FileInv, [Next]_vars PROVE [Durable!Next]_(Durable!vars) OBVIOUS
  <2>1. CASE UNCHANGED vars BY <2>1 DEF vars, Durable!vars, Pending
  <2>2. CASE PowerLoss BY <2>2, PowerLossMaps DEF Durable!Next
  <2>3. ASSUME NEW w \in Writers, Begin(w) \/ Step(w) \/ Crash(w)
        PROVE [Durable!Next]_(Durable!vars)
    BY <2>3, WriteMaps, RenameMaps, ReturnMaps, EarlyEndMaps DEF Step, Durable!Next
  <2> QED BY <2>1, <2>2, <2>3 DEF Next
<1> QED BY InitMaps, FileSafe, <1>1, PTL DEF Spec, IsRegister, Durable!Spec
=============================================================================
