------------------------- MODULE HookLifecycleProofs -------------------------
(***************************************************************************)
(* The embedded program, for any series and any number of messages and     *)
(* starts: what a stop leaves in the file, what survives in it, what a     *)
(* restart may bring back, that the program implements DurableStore, that  *)
(* a stop ends, and that the file follows the registry.                    *)
(*                                                                         *)
(* The invariant has four parts.  Base: types, the savers' progress        *)
(* (StateFileProofs), and a process that is down has none.  StopInOrder    *)
(* follows the final save from OnStopped on.  NothingOlder: no series is   *)
(* older than what was loaded before, in the registry, in the file and in  *)
(* what is being saved.  The fourth is SavedStateSurvives itself.          *)
(***************************************************************************)
EXTENDS HookLifecycle, StateFileProofs

\* The types of the variables that StateFile does not declare.
HookTypes ==
  /\ life \in {"down", "built", "hooked", "serving", "failed", "stopping", "stopped"}
  /\ starts \in 0 .. MaxStarts
  /\ server \in BOOLEAN
  /\ saver \in [Savers -> {"none", "running", "exited"}]
  /\ stopSave \in BOOLEAN
  /\ stopped \in BOOLEAN
  /\ loaded \in Snapshot
  /\ atStop \in Snapshot
  /\ overlap \in BOOLEAN
  /\ failed \in BOOLEAN
  /\ whole \in BOOLEAN

\* Types, the savers' progress, and a process that is down.
Base ==
  /\ SaveInv
  /\ HookTypes
  /\ life = "down" => (\A s \in Savers : saver[s] = "none") /\ SavingNow = {}

\* The file holds what OnStopped has found.
FileAsStopped ==
  /\ file.kind = "snapshot"
  /\ \A s \in Saved : file.data[s] \in atStop[s] .. mem[s]
  /\ \A s \in Saved \ Touched : file.data[s] = atStop[s]

\* The final save, from OnStopped to the end of the process.
StopInOrder ==
  /\ life \in {"stopping", "stopped"} => stopped
  /\ stopped => stopSave
  /\ Saving("stopper") =>
       /\ stopped /\ life = "stopping"
       /\ io["stopper"].since = atStop
       /\ \A s \in Saved \ Touched :
            mem[s] = atStop[s] /\ (s \notin io["stopper"].todo => io["stopper"].snap[s] = atStop[s])
  /\ stopped /\ ~overlap =>
       /\ \A s \in Savers : ~Saving(s)
       /\ io["stopper"].pc = "write" => io["stopper"].clean
       /\ ~failed /\ atStop # NoData /\ ~Saving("stopper") => FileAsStopped

\* Nothing, or no older than what was loaded.
Fresh(v, s) == v = 0 \/ v >= loaded[s]

\* Registry, file and snapshots in progress are as new as what was loaded.
NothingOlder ==
  \A s \in Saved :
    /\ loaded[s] <= received
    /\ life # "down" => Fresh(mem[s], s)
    /\ file.kind = "snapshot" => Fresh(file.data[s], s)
    /\ \A w \in Writers : Saving(w) /\ s \notin io[w].todo => Fresh(io[w].snap[s], s)

\* The inductive invariant.
IInv == Base /\ StopInOrder /\ NothingOlder /\ SavedStateSurvives

-----------------------------------------------------------------------------
(* Types, and the savers. *)

\* Who saves: the hook's goroutines, and OnStopped.
LEMMA WhoSaves ==
  /\ "saver" \in Savers /\ "saver" \in Writers
  /\ "stopper" \in Writers /\ "stopper" \notin Savers
  /\ Writers = Savers \cup {"stopper"}
  /\ MaxStarts \in Nat
BY LifecycleAssumption DEF Savers

\* A new file holds no snapshot.
LEMMA InitHookFile ==
  ASSUME SaveInv, InitHook
  PROVE  /\ SaveInv'
         /\ file' # file => file.kind # "snapshot" /\ file'.kind # "snapshot"
         /\ OnDisk' = OnDisk /\ Content' = Content /\ SavingNow' = SavingNow /\ SinceOf' = SinceOf
<1>1. /\ UNCHANGED <<mem, received, io>>
      /\ file' = IF file = Missing THEN Unreadable ELSE file
  BY DEF InitHook
<1>2. /\ file' \in Contents
      /\ file' # file => file.kind # "snapshot" /\ file'.kind # "snapshot"
  BY <1>1, FileKinds DEF SaveInv, TypeOKStateFile, Contents
<1>3. Content' = Content
  <2>1. CASE file' = file
    BY <2>1, StoreStays
  <2>2. CASE file' # file
    BY <1>2, <2>2 DEF Content
  <2> QED BY <2>1, <2>2
<1>4. \A w \in Writers : Saving(w)' = Saving(w) /\ Between(w)' = Between(w)
  BY <1>1 DEF Saving, Between
<1>5. file'.kind = "snapshot" => \A s \in Saved : file'.data[s] <= received
  BY <1>2 DEF SaveInv
<1>6. TypeOKStateFile'
  BY <1>1, <1>2 DEF SaveInv, TypeOKStateFile
<1>7. SaveInv'
  BY <1>1, <1>4, <1>5, <1>6 DEF SaveInv
<1> QED BY <1>1, <1>2, <1>3, <1>7, StoreStays

\* Every step leaves the registry, the file and the savers alone or is one of
\* these operations.
StateStep ==
  \/ UNCHANGED stateVars
  \/ InitHook
  \/ life \notin {"down", "failed"} /\ life' = life /\ \E written : Absorb(written)
  \/ \E w \in Writers : BeginSave(w)
  \/ \E w \in Writers : SaveStep(w) \/ SaveFailure(w)
  \/ life = "down" /\ life' = "built" /\ LoadState
  \/ life' = "down" /\ LoseMemory

\* This is so.
LEMMA StateSteps == HookTypes /\ [Next]_vars => StateStep
<1> SUFFICES ASSUME HookTypes, [Next]_vars PROVE StateStep
  OBVIOUS
<1>1. CASE OnPublish \/ AlertEcho
  BY <1>1 DEF OnPublish, AlertEcho, StateStep, hookVars
<1>2. CASE (\E s \in Savers : SaverTick(s)) \/ OnStopped
  BY <1>2, WhoSaves DEF SaverTick, OnStopped, StateStep
<1>3. CASE \E w \in Writers : Save(w) \/ SaveFails(w)
  BY <1>3 DEF Save, SaveFails, StateStep
<1>4. CASE Exit \/ Crash
  BY <1>4 DEF Exit, Crash, EndProcess, StateStep
<1>5. CASE Construct
  BY <1>5 DEF Construct, StateStep
<1>6. CASE InitHook
  BY <1>6 DEF StateStep
<1>7. CASE InitFails \/ StartListeners \/ ListenFails \/ OnStoppedAgain
             \/ (\E s \in Savers : SaverExit(s)) \/ ShutdownServer \/ UNCHANGED vars
  BY <1>7 DEF InitFails, StartListeners, ListenFails, SaverExit, OnStoppedAgain, ShutdownServer,
     vars, StateStep
<1> QED BY <1>1, <1>2, <1>3, <1>4, <1>5, <1>6, <1>7 DEF Next

\* The savers keep their invariant.
LEMMA SaveInvStep == Base /\ [Next]_vars => SaveInv'
<1> SUFFICES ASSUME Base, [Next]_vars PROVE SaveInv'
  OBVIOUS
<1>1. StateStep /\ SaveInv
  BY StateSteps DEF Base
<1>2. CASE UNCHANGED stateVars
  BY <1>1, <1>2 DEF stateVars, SaveInv, TypeOKStateFile, Saving, Between
<1>3. CASE InitHook
  BY <1>1, <1>3, InitHookFile
<1>4. CASE \E written : Absorb(written)
  BY <1>1, <1>4, AbsorbSaveInv
<1>5. CASE \E w \in Writers : BeginSave(w)
  BY <1>1, <1>5, BeginSaveInv
<1>6. CASE \E w \in Writers : SaveStep(w) \/ SaveFailure(w)
  BY <1>1, <1>6, SaveStepInv
<1>7. CASE life = "down" /\ LoadState
  BY <1>1, <1>7, LoadSaveInv DEF Base
<1>8. CASE LoseMemory
  BY <1>1, <1>8, LoseMemorySaveInv
<1> QED BY <1>1, <1>2, <1>3, <1>4, <1>5, <1>6, <1>7, <1>8 DEF StateStep

\* So do the types of the hook.
LEMMA HookTypesStep == Base /\ [Next]_vars => HookTypes'
<1> SUFFICES ASSUME Base, [Next]_vars PROVE HookTypes'
  OBVIOUS
<1> USE DEF Base, HookTypes
<1>1. CASE Construct
  <2>1. \A s \in Saved : mem'[s] \in Version
    BY SaveInvStep, StateTypes DEF SaveInv, TypeOKStateFile
  <2>2. loaded' \in Snapshot
    BY <1>1, <2>1 DEF Construct, Newer, Snapshot
  <2>3. starts' \in 0 .. MaxStarts
    BY <1>1, WhoSaves DEF Construct
  <2> QED BY <1>1, <2>2, <2>3 DEF Construct
<1>2. CASE InitHook \/ InitFails \/ StartListeners \/ ListenFails
  BY <1>2 DEF InitHook, InitFails, StartListeners, ListenFails, history
<1>3. CASE OnPublish \/ AlertEcho
  BY <1>3 DEF OnPublish, AlertEcho, hookVars, history
<1>4. CASE (\E s \in Savers : SaverTick(s) \/ SaverExit(s)) \/ OnStoppedAgain \/ ShutdownServer
  BY <1>4 DEF SaverTick, SaverExit, OnStoppedAgain, ShutdownServer, hookVars, history
<1>5. CASE OnStopped
  BY <1>5, OnDiskType DEF OnStopped, Saving
<1>6. CASE \E w \in Writers : Save(w)
  BY <1>6 DEF Save, hookVars, SaveInv, TypeOKStateFile
<1>7. CASE \E w \in Writers : SaveFails(w)
  BY <1>7 DEF SaveFails, hookVars
<1>8. CASE Exit \/ Crash
  BY <1>8, StateTypes DEF Exit, Crash, EndProcess
<1>9. CASE UNCHANGED vars
  BY <1>9 DEF vars, hookVars, history
<1> QED BY <1>1, <1>2, <1>3, <1>4, <1>5, <1>6, <1>7, <1>8, <1>9 DEF Next

\* Without a process nothing is saved.
LEMMA BaseStep == Base /\ [Next]_vars => Base'
<1> SUFFICES ASSUME Base, [Next]_vars PROVE Base'
  OBVIOUS
<1>1. SaveInv' /\ HookTypes'
  BY SaveInvStep, HookTypesStep
<1>2. ASSUME life' = "down" PROVE (\A s \in Savers : saver'[s] = "none") /\ SavingNow' = {}
  <2>1. CASE Exit \/ Crash
    BY <2>1, LoseMemorySaveInv DEF Exit, Crash, EndProcess, Base
  <2>2. CASE (\E s \in Savers : SaverTick(s)) \/ (\E w \in Writers : Save(w) \/ SaveFails(w))
    <3>1. life = "down" /\ (\A s \in Savers : saver[s] = "none") /\ SavingNow = {}
      BY <1>2, <2>2 DEF SaverTick, Save, SaveFails, hookVars, Base
    <3>2. ASSUME NEW w \in Writers, Save(w) \/ SaveFails(w) PROVE FALSE
      BY <3>1, <3>2, GatherSaveInv, QuietEndSaveInv, TruncateSaveInv, WriteSaveInv, FailureSaveInv
         DEF Save, SaveFails, SaveStep, SavingNow, Base
    <3> QED BY <2>2, <3>1, <3>2 DEF SaverTick
  <2>3. CASE OnPublish \/ AlertEcho
    BY <1>2, <2>3 DEF OnPublish, AlertEcho, hookVars
  <2>4. CASE (\E s \in Savers : SaverExit(s)) \/ UNCHANGED vars
    BY <1>2, <2>4, StoreStays DEF SaverExit, vars, stateVars, hookVars, Base, HookTypes
  <2> QED BY <1>2, <2>1, <2>2, <2>3, <2>4 DEF Next, Construct, InitHook, InitFails, StartListeners,
        ListenFails, OnStopped, OnStoppedAgain, ShutdownServer
<1> QED BY <1>1, <1>2 DEF Base

-----------------------------------------------------------------------------
(* Nothing older than what was loaded. *)

\* Only the start of a process changes what has been loaded.
LEMMA LoadedStays ==
  ASSUME [Next]_vars, ~Construct
  PROVE  loaded' = loaded /\ (life' # "down" => life # "down" \/ life' = life)
BY DEF Next, vars, history, hookVars, InitHook, InitFails, MayInit, StartListeners, ListenFails,
   OnPublish, AlertEcho, SaverTick, SaverExit, OnStopped, OnStoppedAgain, ShutdownServer,
   Save, SaveFails, Exit, Crash, EndProcess

\* Versions that the proofs below compare.
LEMMA Numbers ==
  ASSUME Base, NEW s \in Saved
  PROVE  /\ s \in Series /\ mem[s] \in Nat /\ mem[s] <= received /\ received \in Nat
         /\ loaded[s] \in Nat
         /\ file.kind = "snapshot" => file.data[s] \in Nat /\ file.data[s] <= received
         /\ \A w \in Writers : io[w].snap[s] \in Nat
<1>1. s \in Series /\ mem[s] \in Nat /\ mem[s] <= received /\ received \in Nat
  BY StateTypes, VersionType DEF Base, SaveInv, TypeOKStateFile
<1>2. loaded[s] \in Nat
  BY VersionType DEF Base, HookTypes, Snapshot
<1>3. file.kind = "snapshot" => file.data[s] \in Nat /\ file.data[s] <= received
  BY FileKinds, VersionType DEF Base, SaveInv, TypeOKStateFile, Snapshot
<1>4. \A w \in Writers : io[w].snap[s] \in Nat
  BY VersionType DEF Base, SaveInv, TypeOKStateFile, Snapshot
<1> QED BY <1>1, <1>2, <1>3, <1>4

\* Within a process, values only grow; a restart takes the file's.
LEMMA NothingOlderStep == Base /\ NothingOlder /\ [Next]_vars => NothingOlder'
<1> SUFFICES ASSUME Base, NothingOlder, [Next]_vars, NEW s \in Saved
             PROVE  /\ loaded'[s] <= received'
                    /\ life' # "down" => Fresh(mem[s], s)'
                    /\ file'.kind = "snapshot" => Fresh(file.data[s], s)'
                    /\ \A w \in Writers : Saving(w)' /\ s \notin io'[w].todo =>
                                          Fresh(io[w].snap[s], s)'
  BY DEF NothingOlder
<1>1. StateStep /\ SaveInv
  BY StateSteps DEF Base
<1>2. /\ loaded[s] <= received
      /\ life # "down" => Fresh(mem[s], s)
      /\ file.kind = "snapshot" => Fresh(file.data[s], s)
      /\ \A w \in Writers : Saving(w) /\ s \notin io[w].todo => Fresh(io[w].snap[s], s)
  BY DEF NothingOlder
<1>3. CASE Construct
  <2>1. /\ LoadState /\ life = "down" /\ SavingNow = {} /\ SaveInv
        /\ loaded' = [t \in Saved |-> Newer(loaded[t], mem'[t])]
    BY <1>3 DEF Construct, Base
  <2>2. /\ OnDisk' = IF file.kind = "snapshot" THEN file.data ELSE NoData
        /\ SavingNow' = {} /\ UNCHANGED <<received, file, io>>
    BY <2>1, LoadSaveInv
  <2>3. OnDisk'[s] = mem'[s] /\ NoData[s] = 0
    BY DEF OnDisk, NoData
  <2>4. Fresh(mem'[s], s) /\ mem'[s] \in Nat /\ mem'[s] <= received
        /\ (file.kind = "snapshot" => file.data[s] = mem'[s])
    BY <1>2, <2>2, <2>3, Numbers DEF Fresh
  <2>5. loaded'[s] <= received' /\ Fresh(mem[s], s)'
    BY <1>2, <2>1, <2>2, <2>4, Numbers DEF Fresh, Newer
  <2>6. \A w \in Writers : ~Saving(w)'
    BY <2>2 DEF SavingNow
  <2> QED BY <2>2, <2>4, <2>5, <2>6 DEF Fresh
<1>4. CASE ~Construct
  <2> USE <1>2
  <2>1. loaded' = loaded /\ (life' # "down" => life # "down" \/ life' = life)
    BY <1>4, LoadedStays
  <2>2. CASE UNCHANGED stateVars
    BY <2>1, <2>2 DEF stateVars, Fresh, Saving
  <2>3. CASE InitHook
    <3>1. UNCHANGED <<mem, received, io>> /\ (file' # file => file'.kind # "snapshot")
      BY <1>1, <2>3, InitHookFile DEF InitHook
    <3> QED BY <2>1, <3>1 DEF Fresh, Saving
  <2>4. CASE life # "down" /\ \E written : Absorb(written)
    <3>1. PICK written : Absorb(written)
      BY <2>4
    <3>2. /\ mem[s] <= mem'[s] /\ (s \notin written => mem'[s] = mem[s])
          /\ s \in written => mem'[s] = received + 1
          /\ UNCHANGED <<file, io>> /\ received' = received + 1
      BY <1>1, <3>1, AbsorbSaveInv, StateTypes DEF Absorb
    <3>3. Fresh(mem[s], s)'
      BY <2>1, <2>4, <3>2, Numbers DEF Fresh
    <3> QED BY <2>1, <3>2, <3>3, Numbers DEF Fresh, Saving
  <2>5. CASE \E w \in Writers : BeginSave(w)
    <3>1. PICK w \in Writers : BeginSave(w)
      BY <2>5
    <3>2. /\ io'[w].todo = Saved /\ \A v \in Writers \ {w} : io'[v] = io[v]
          /\ UNCHANGED <<mem, received, file>>
      BY <1>1, <3>1, BeginSaveInv
    <3> QED BY <2>1, <3>2 DEF Fresh, Saving
  <2>6. CASE \E w \in Writers : SaveStep(w) \/ SaveFailure(w)
    <3>1. PICK w \in Writers : SaveStep(w) \/ SaveFailure(w)
      BY <2>6
    <3>2. UNCHANGED <<mem, received>> /\ life # "down"
      <4>1. w \in SavingNow
        BY <1>1, <3>1, GatherSaveInv, QuietEndSaveInv, TruncateSaveInv, WriteSaveInv, FailureSaveInv
           DEF SaveStep, SavingNow
      <4> QED BY <1>1, <3>1, <4>1, SaveStepInv DEF Base
    <3>3. Fresh(mem[s], s)'
      BY <2>1, <3>2 DEF Fresh
    <3>4. CASE \E t \in Saved : Gather(w, t)
      <4>1. PICK t \in Saved : Gather(w, t)
        BY <3>4
      <4>2. /\ io'[w].todo = io[w].todo \ {t} /\ io'[w].snap = [io[w].snap EXCEPT ![t] = mem[t]]
            /\ Saving(w) /\ UNCHANGED file
            /\ \A v \in Writers \ {w} : io'[v] = io[v]
        BY <1>1, <4>1, GatherSaveInv
      <4>3. io[w].snap \in [Saved -> Version]
        BY <1>1 DEF SaveInv, TypeOKStateFile, Snapshot
      <4>4. s \notin io'[w].todo => Fresh(io[w].snap[s], s)'
        BY <2>1, <3>2, <4>2, <4>3 DEF Fresh
      <4> QED BY <2>1, <3>2, <3>3, <4>2, <4>4 DEF Fresh, Saving
    <3>5. CASE SkipWrite(w)
      <4>1. Done(w) /\ UNCHANGED file
        BY <1>1, <3>5, QuietEndSaveInv
      <4> QED BY <2>1, <3>2, <3>3, <4>1, StateTypes DEF Fresh, Saving, Done
    <3>6. CASE Truncate(w)
      <4>1. /\ file'.kind # "snapshot" /\ io'[w].todo = io[w].todo /\ io'[w].snap = io[w].snap
            /\ Saving(w) /\ \A v \in Writers \ {w} : io'[v] = io[v]
        BY <1>1, <3>6, TruncateSaveInv, FileKinds
      <4> QED BY <2>1, <3>2, <3>3, <4>1 DEF Fresh, Saving
    <3>7. CASE Write(w) \/ SaveFailure(w)
      <4>1. /\ Done(w) /\ Saving(w)
            /\ \/ file' = file
               \/ file'.kind # "snapshot"
               \/ io[w].todo = {} /\ file'.data = io[w].snap
        BY <1>1, <3>7, WriteSaveInv, FailureSaveInv, FileKinds
      <4>2. file'.kind = "snapshot" => Fresh(file.data[s], s)'
        BY <2>1, <4>1 DEF Fresh
      <4> QED BY <2>1, <3>2, <3>3, <4>1, <4>2, StateTypes DEF Fresh, Saving, Done
    <3> QED BY <3>1, <3>4, <3>5, <3>6, <3>7 DEF SaveStep
  <2>7. CASE life' = "down" /\ LoseMemory
    <3>1. SavingNow' = {} /\ UNCHANGED <<received, file>>
      BY <1>1, <2>7, LoseMemorySaveInv
    <3> QED BY <2>1, <2>7, <3>1 DEF Fresh, SavingNow
  <2>8. CASE life = "down" /\ life' = "built"
    BY <2>1, <2>8
  <2> QED BY <1>1, <2>2, <2>3, <2>4, <2>5, <2>6, <2>7, <2>8 DEF StateStep
<1> QED BY <1>3, <1>4

-----------------------------------------------------------------------------
(* A state that was saved completely. *)

\* A write in progress is one of the savers'.
LEMMA SurvivesStep == Base /\ SavedStateSurvives /\ [Next]_vars => SavedStateSurvives'
<1> SUFFICES ASSUME Base, SavedStateSurvives, [Next]_vars, whole', ~WriteInProgress'
             PROVE  file'.kind = "snapshot"
  BY DEF SavedStateSurvives
<1>1. SaveInv
  BY DEF Base
<1>2. CASE Exit \/ Crash
  BY <1>2 DEF Exit, Crash, EndProcess, LoseMemory, SavedStateSurvives
<1>3. CASE \E w \in Writers : Save(w)
  <2>1. PICK w \in Writers : Save(w)
    BY <1>3
  <2>2. CASE (\E s \in Saved : Gather(w, s)) \/ SkipWrite(w)
    <3>1. /\ io[w].pc = "gather" /\ file' = file
          /\ \A v \in Writers \ {w} : io'[v] = io[v]
      <4>1. CASE \E s \in Saved : Gather(w, s)
        BY <1>1, <4>1, GatherSaveInv
      <4>2. CASE SkipWrite(w)
        BY <4>2 DEF SkipWrite
      <4> QED BY <2>2, <4>1, <4>2
    <3>2. whole' = whole
      BY <2>1, <3>1 DEF Save
    <3>3. ~WriteInProgress
      BY <3>1 DEF WriteInProgress
    <3> QED BY <3>1, <3>2, <3>3 DEF SavedStateSurvives
  <2>3. CASE Truncate(w)
    BY <1>1, <2>3, TruncateSaveInv DEF WriteInProgress
  <2>4. CASE Write(w)
    <3>1. io[w].pc = "write" /\ io[w].clean
      BY <1>1, <2>1, <2>4, WriteSaveInv DEF Save
    <3>2. file' = Holding(io[w].snap) \/ (~io[w].clean /\ file' = Unreadable)
      BY <1>1, <2>4, WriteSaveInv
    <3>3. file' = Holding(io[w].snap)
      BY <3>1, <3>2
    <3> QED BY <3>3, FileKinds
  <2> QED BY <2>1, <2>2, <2>3, <2>4 DEF Save, SaveStep
<1>4. CASE \E w \in Writers : SaveFails(w)
  <2>1. PICK w \in Writers : SaveFails(w)
    BY <1>4
  <2>2. whole /\ io[w].pc = "gather"
    BY <2>1 DEF SaveFails
  <2>3. UNCHANGED file /\ \A v \in Writers \ {w} : io'[v] = io[v]
    BY <1>1, <2>1, <2>2, FailureSaveInv DEF SaveFails
  <2>4. ~WriteInProgress
    BY <2>2, <2>3 DEF WriteInProgress
  <2> QED BY <2>2, <2>3, <2>4 DEF SavedStateSurvives
<1>5. CASE InitHook
  <2>1. whole /\ ~WriteInProgress
    BY <1>5 DEF InitHook, WriteInProgress, history
  <2> QED BY <1>1, <1>5, <2>1, InitHookFile DEF SavedStateSurvives
<1>6. CASE (\E s \in Savers : SaverTick(s)) \/ OnStopped
  <2>1. PICK w \in Writers : BeginSave(w)
    BY <1>6, WhoSaves DEF SaverTick, OnStopped
  <2>2. io'[w].pc = "gather" /\ ~Saving(w) /\ UNCHANGED file /\ \A v \in Writers \ {w} : io'[v] = io[v]
    BY <1>1, <2>1, BeginSaveInv DEF BeginSave
  <2>3. ~WriteInProgress
    BY <2>2 DEF WriteInProgress, Saving
  <2> QED BY <1>6, <2>2, <2>3 DEF SaverTick, OnStopped, SavedStateSurvives
<1>7. CASE OnPublish \/ AlertEcho
  BY <1>7 DEF OnPublish, AlertEcho, Absorb, history, WriteInProgress, SavedStateSurvives
<1>8. CASE Construct
  BY <1>8 DEF Construct, LoadState, WriteInProgress, SavedStateSurvives
<1>9. CASE InitFails \/ StartListeners \/ ListenFails \/ OnStoppedAgain
             \/ (\E s \in Savers : SaverExit(s)) \/ ShutdownServer \/ UNCHANGED vars
  BY <1>9 DEF InitFails, StartListeners, ListenFails, SaverExit, OnStoppedAgain, ShutdownServer,
     vars, stateVars, history, WriteInProgress, SavedStateSurvives
<1> QED BY <1>2, <1>3, <1>4, <1>5, <1>6, <1>7, <1>8, <1>9 DEF Next

-----------------------------------------------------------------------------
(* The final save. *)

\* Until a process ends, the file is as OnStopped has left it while nobody saves.
LEMMA FileStays ==
  ASSUME Base, FileAsStopped, UNCHANGED <<file, atStop>>,
         \A s \in Saved : mem[s] <= mem'[s] /\ mem'[s] \in Nat
  PROVE  FileAsStopped'
<1>1. \A s \in Saved : file.data[s] \in Nat /\ mem[s] \in Nat /\ atStop[s] \in Nat
  BY Numbers, VersionType DEF FileAsStopped, Base, HookTypes, Snapshot
<1> QED BY <1>1 DEF FileAsStopped

\* OnStopped begins its save with the registry as it is.
LEMMA OnStoppedInOrder == Base /\ StopInOrder /\ OnStopped => StopInOrder'
<1> SUFFICES ASSUME Base, StopInOrder, OnStopped PROVE StopInOrder'
  OBVIOUS
<1>1. BeginSave("stopper") /\ "stopper" \in Writers /\ Savers = Writers \ {"stopper"} /\ SaveInv
  BY WhoSaves DEF OnStopped, Base, Savers
<1>2. /\ io'["stopper"].pc = "gather" /\ io'["stopper"].todo = Saved
      /\ io'["stopper"].since = OnDisk /\ UNCHANGED mem
      /\ \A s \in Savers : io'[s] = io[s]
  BY <1>1, BeginSaveInv
<1>3. stopped' /\ stopSave' /\ life' = "stopping" /\ atStop' = OnDisk
      /\ overlap' = (overlap \/ \E s \in Savers : Saving(s))
  BY DEF OnStopped
<1>4. \A s \in Saved : OnDisk[s] = mem[s]
  BY DEF OnDisk
<1>5. Saving("stopper")'
  BY <1>2 DEF Saving
<1>6. ~overlap' => \A s \in Savers : ~Saving(s)'
  BY <1>2, <1>3 DEF Saving
<1> QED BY <1>2, <1>3, <1>4, <1>5, <1>6 DEF StopInOrder

\* Messages after it are echoes of alerts, which write no other series.
LEMMA MessageInOrder == Base /\ StopInOrder /\ (OnPublish \/ AlertEcho) => StopInOrder'
<1> SUFFICES ASSUME Base, StopInOrder, OnPublish \/ AlertEcho PROVE StopInOrder'
  OBVIOUS
<1>1. PICK written : Absorb(written) /\ (life = "serving" \/ written = Touched)
  BY DEF OnPublish, AlertEcho
<1>2. /\ \A s \in Series : mem[s] <= mem'[s] /\ (s \notin written => mem'[s] = mem[s])
      /\ UNCHANGED <<file, io>> /\ SaveInv'
  BY <1>1, AbsorbSaveInv DEF Base
<1>3. UNCHANGED <<life, stopped, stopSave, atStop, overlap, failed>>
  BY DEF OnPublish, AlertEcho, hookVars, history
<1>4. \A s \in Saved : s \in Series /\ mem'[s] \in Nat
  BY <1>2, StateTypes, VersionType DEF SaveInv, TypeOKStateFile
<1>5. FileAsStopped => FileAsStopped'
  BY <1>2, <1>3, <1>4, FileStays
<1>6. life = "stopping" => \A s \in Saved \ Touched : mem'[s] = mem[s]
  BY <1>1, <1>2, <1>4
<1> QED BY <1>2, <1>3, <1>5, <1>6 DEF StopInOrder, Saving

\* A saver's steps are no matter: its save counts as overlapping.
LEMMA SaverInOrder ==
  ASSUME Base, StopInOrder, NEW s \in Savers, Save(s) \/ SaveFails(s) \/ SaverTick(s)
  PROVE  StopInOrder'
<1>1. s \in Writers /\ "stopper" \in Writers \ {s} /\ SaveInv
  BY WhoSaves DEF Base
<1>2. UNCHANGED <<life, stopped, stopSave, atStop>> /\ UNCHANGED mem
  BY <1>1, SaveStepInv, BeginSaveInv DEF Save, SaveFails, SaverTick, hookVars
<1>3. /\ io'["stopper"].pc = io["stopper"].pc /\ io'["stopper"].todo = io["stopper"].todo
      /\ io'["stopper"].snap = io["stopper"].snap /\ io'["stopper"].since = io["stopper"].since
  <2>1. CASE SaverTick(s)
    BY <1>1, <2>1, BeginSaveInv DEF SaverTick
  <2>2. CASE \E d \in Saved : Gather(s, d)
    BY <1>1, <2>2, GatherSaveInv
  <2>3. CASE SkipWrite(s)
    BY <1>1, <2>3, QuietEndSaveInv DEF Done
  <2>4. CASE Truncate(s)
    <3>1. \A v \in Writers \ {s} : io'[v] = io[v]
      BY <1>1, <2>4, TruncateSaveInv
    <3> QED BY <1>1, <3>1
  <2>5. CASE Write(s)
    <3>1. Done(s)
      BY <1>1, <2>5, WriteSaveInv
    <3> QED BY <1>1, <3>1 DEF Done
  <2>6. CASE SaveFails(s)
    BY <1>1, <2>6, FailureSaveInv DEF SaveFails, Done
  <2> QED BY <2>1, <2>2, <2>3, <2>4, <2>5, <2>6 DEF Save, SaveStep
<1>4. stopped => overlap'
  <2>1. CASE SaverTick(s)
    BY <2>1 DEF SaverTick, StopInOrder
  <2>2. CASE Save(s) \/ SaveFails(s)
    <3>1. Saving(s)
      BY <1>1, <2>2, GatherSaveInv, QuietEndSaveInv, TruncateSaveInv, WriteSaveInv, FailureSaveInv
         DEF Save, SaveFails, SaveStep
    <3> QED BY <2>2, <3>1 DEF StopInOrder, Save, SaveFails
  <2> QED BY <2>1, <2>2
<1> QED BY <1>2, <1>3, <1>4 DEF StopInOrder, Saving

\* The final save gathers what OnStopped has found and, unless the saver is
\* still at work, leaves it in the file.
LEMMA StopperInOrder ==
  ASSUME Base, StopInOrder, Save("stopper") \/ SaveFails("stopper")
  PROVE  StopInOrder'
<1>1. Savers = Writers \ {"stopper"} /\ "stopper" \in Writers /\ SaveInv
  BY WhoSaves DEF Base, Savers
<1>2. /\ SaveStep("stopper") \/ SaveFailure("stopper")
      /\ UNCHANGED <<life, stopped, stopSave, atStop, overlap, mem>>
  BY <1>1, SaveStepInv DEF Save, SaveFails, hookVars
<1>3. Saving("stopper")
  BY <1>1, <1>2, GatherSaveInv, QuietEndSaveInv, TruncateSaveInv, WriteSaveInv, FailureSaveInv DEF SaveStep
<1>4. /\ stopped /\ life = "stopping" /\ stopSave
      /\ io["stopper"].since = atStop
      /\ \A s \in Saved \ Touched :
           mem[s] = atStop[s] /\ (s \notin io["stopper"].todo => io["stopper"].snap[s] = atStop[s])
      /\ ~overlap => (\A s \in Savers : ~Saving(s)) /\ (io["stopper"].pc = "write" => io["stopper"].clean)
  BY <1>3 DEF StopInOrder
<1>5. Between("stopper")
  BY <1>1, <1>3 DEF SaveInv
<1>6. \A s \in Saved : io["stopper"].snap[s] \in Nat /\ mem[s] \in Nat /\ atStop[s] \in Nat
  BY <1>1, Numbers, VersionType DEF Base, HookTypes, Snapshot
<1>7. CASE \E s \in Saved : Gather("stopper", s)
  <2>1. PICK s \in Saved : Gather("stopper", s)
    BY <1>7
  <2>2. /\ io["stopper"].pc = "gather" /\ io'["stopper"].pc = "gather"
        /\ io'["stopper"].todo = io["stopper"].todo \ {s}
        /\ io'["stopper"].snap = [io["stopper"].snap EXCEPT ![s] = mem[s]]
        /\ SinceOf' = SinceOf /\ \A v \in Savers : io'[v] = io[v]
    BY <1>1, <2>1, GatherSaveInv
  <2>3. io["stopper"].snap \in [Saved -> Version]
    BY <1>1 DEF SaveInv, TypeOKStateFile, Snapshot
  <2>4. io'["stopper"].since = io["stopper"].since
    BY <1>1, <2>2 DEF SinceOf
  <2>5. \A t \in Saved \ Touched :
          mem[t] = atStop[t] /\ (t \notin io'["stopper"].todo => io'["stopper"].snap[t] = atStop[t])
    BY <1>4, <2>2, <2>3
  <2> QED BY <1>2, <1>4, <2>2, <2>4, <2>5 DEF StopInOrder, Saving
<1>8. CASE SkipWrite("stopper")
  <2>1. io'["stopper"] = Idle /\ \A v \in Savers : io'[v].pc = io[v].pc
    BY <1>1, <1>8, QuietEndSaveInv DEF Done
  <2>2. io["stopper"].todo = {} /\ io["stopper"].snap = NoData
    BY <1>8 DEF SkipWrite
  <2>3. \A s \in Saved : atStop[s] = 0
    BY <1>4, <1>5, <1>6, <2>2 DEF Between, NoData
  <2>4. atStop = NoData
    BY <2>3 DEF NoData, Base, HookTypes, Snapshot
  <2> QED BY <1>2, <1>4, <2>1, <2>4, StateTypes DEF StopInOrder, Saving
<1>9. CASE Truncate("stopper")
  <2>0. /\ io'["stopper"].pc = "write" /\ io["stopper"].todo = {} /\ io'["stopper"].todo = {}
        /\ io'["stopper"].snap = io["stopper"].snap /\ SinceOf' = SinceOf
    BY <1>1, <1>9, TruncateSaveInv
  <2>1. \A v \in Savers : io'[v] = io[v]
    <3>1. \A v \in Writers \ {"stopper"} : io'[v] = io[v]
      BY <1>1, <1>9, TruncateSaveInv
    <3> QED BY <1>1, <3>1
  <2>3. io'["stopper"].clean
    <3>1. io'["stopper"].clean = TRUE
      BY <1>1, <1>9, TruncateSaveInv
    <3> QED BY <3>1
  <2>2. io'["stopper"].since = io["stopper"].since
    BY <1>1, <2>0 DEF SinceOf
  <2> QED BY <1>2, <1>4, <2>0, <2>1, <2>2, <2>3 DEF StopInOrder, Saving
<1>10. CASE Write("stopper")
  <2>0. Done("stopper")
    BY <1>1, <1>10, WriteSaveInv
  <2>1. /\ io'["stopper"] = Idle /\ \A v \in Savers : io'[v].pc = io[v].pc
        /\ io["stopper"].pc = "write" /\ io["stopper"].todo = {}
    BY <1>1, <1>10, <2>0, WriteSaveInv DEF Done
  <2>2. ASSUME ~overlap PROVE FileAsStopped'
    <3>1. file' = Holding(io["stopper"].snap)
      BY <1>1, <1>4, <1>10, <2>1, <2>2, WriteSaveInv
    <3>2. file'.kind = "snapshot" /\ file'.data = io["stopper"].snap
      BY <3>1, FileKinds
    <3>3. \A s \in Saved : io["stopper"].snap[s] \in atStop[s] .. mem[s]
      BY <1>4, <1>5, <1>6, <2>1 DEF Between
    <3> QED BY <1>2, <1>4, <2>1, <3>2, <3>3 DEF FileAsStopped
  <2> QED BY <1>2, <1>4, <2>1, <2>2, StateTypes DEF StopInOrder, Saving
<1>11. CASE SaveFails("stopper")
  <2>1. io'["stopper"] = Idle /\ failed' /\ \A v \in Savers : io'[v].pc = io[v].pc
    BY <1>1, <1>11, FailureSaveInv DEF Done, SaveFails
  <2> QED BY <1>2, <1>4, <2>1, StateTypes DEF StopInOrder, Saving
<1> QED BY <1>7, <1>8, <1>9, <1>10, <1>11 DEF Save, SaveStep

\* Every other step keeps the order, too.
LEMMA OthersInOrder ==
  ASSUME Base, StopInOrder,
         \/ Construct \/ InitHook \/ InitFails \/ StartListeners \/ ListenFails
         \/ \E s \in Savers : SaverExit(s)
         \/ OnStoppedAgain \/ ShutdownServer \/ Exit \/ Crash \/ UNCHANGED vars
  PROVE  StopInOrder'
<1>1. "stopper" \in Writers /\ SaveInv
  BY WhoSaves DEF Base
<1>2. CASE Construct
  <2>1. ~Saving("stopper") /\ UNCHANGED io /\ ~stopped' /\ life' = "built"
    BY <1>1, <1>2 DEF Construct, LoadState, Base, SavingNow
  <2> QED BY <2>1 DEF StopInOrder, Saving
<1>3. CASE Exit \/ Crash
  <2>1. io'["stopper"] = Idle /\ ~stopped' /\ life' = "down"
    BY <1>1, <1>3, LoseMemorySaveInv DEF Exit, Crash, EndProcess
  <2> QED BY <2>1, StateTypes DEF StopInOrder, Saving
<1>4. CASE InitHook
  <2>1. /\ UNCHANGED <<mem, io, stopped, stopSave, atStop, overlap, failed>>
        /\ life' = "hooked" /\ life # "stopping"
    BY <1>4 DEF InitHook, MayInit, history
  <2>2. ~Saving("stopper")
    BY <2>1 DEF StopInOrder
  <2>3. FileAsStopped => FileAsStopped'
    <3>1. ASSUME FileAsStopped PROVE file' = file
      BY <1>1, <1>4, <3>1, InitHookFile DEF FileAsStopped
    <3> QED BY <2>1, <3>1 DEF FileAsStopped
  <2> QED BY <2>1, <2>2, <2>3 DEF StopInOrder, Saving
<1>5. CASE ShutdownServer
  <2>1. ~Saving("stopper") /\ stopped
    BY <1>5 DEF ShutdownServer, StopInOrder
  <2> QED BY <1>5, <2>1 DEF ShutdownServer, stateVars, history, StopInOrder, Saving, FileAsStopped
<1>6. CASE InitFails \/ StartListeners \/ ListenFails \/ OnStoppedAgain
  <2>1. /\ UNCHANGED <<stateVars, stopped, stopSave, history>> /\ life # "stopping"
        /\ life' \in {"stopping", "stopped"} => stopped
    BY <1>6 DEF InitFails, MayInit, StartListeners, ListenFails, OnStoppedAgain
  <2> QED BY <2>1 DEF stateVars, history, StopInOrder, Saving, FileAsStopped
<1>7. CASE (\E s \in Savers : SaverExit(s)) \/ UNCHANGED vars
  <2>1. UNCHANGED <<stateVars, life, stopped, stopSave, history>>
    BY <1>7 DEF SaverExit, vars, hookVars
  <2> QED BY <2>1 DEF stateVars, history, StopInOrder, Saving, FileAsStopped
<1> QED BY <1>2, <1>3, <1>4, <1>5, <1>6, <1>7

-----------------------------------------------------------------------------
(* The theorems. *)

\* The embedded program starts in the invariant.
LEMMA InitInvariant == Init => IInv
<1> SUFFICES ASSUME Init PROVE IInv
  OBVIOUS
<1>1. SaveInv /\ SavingNow = {}
  <2>1. InitStateFile /\ \A w \in Writers : io[w].pc = "idle"
    BY StateTypes DEF Init, InitStateFile
  <2> QED BY <2>1, InitSaveInv DEF SavingNow, Saving
<1>2. Base
  <2>1. HookTypes /\ \A s \in Savers : saver[s] = "none"
    <3>1. MaxStarts \in Nat /\ NoData \in Snapshot
      BY WhoSaves, StateTypes
    <3>2. saver = [s \in Savers |-> "none"] /\ life = "down" /\ starts \in 0 .. MaxStarts
      BY <3>1 DEF Init
    <3>3. loaded \in Snapshot /\ atStop \in Snapshot
      BY <3>1 DEF Init
    <3>4. /\ server \in BOOLEAN /\ stopSave \in BOOLEAN /\ stopped \in BOOLEAN
          /\ overlap \in BOOLEAN /\ failed \in BOOLEAN /\ whole \in BOOLEAN
      BY DEF Init
    <3> QED BY <3>2, <3>3, <3>4 DEF HookTypes
  <2> QED BY <1>1, <2>1 DEF Base
<1>3. \A w \in Writers : ~Saving(w)
  BY <1>1 DEF SavingNow
<1>4. StopInOrder
  BY <1>3, WhoSaves DEF Init, StopInOrder
<1>5. NothingOlder
  BY <1>3, FileKinds DEF Init, InitStateFile, NothingOlder, NoData
<1>6. SavedStateSurvives
  BY DEF Init, SavedStateSurvives
<1> QED BY <1>2, <1>4, <1>5, <1>6 DEF IInv

\* And no step leaves it.
LEMMA NextInvariant == IInv /\ [Next]_vars => IInv'
<1> SUFFICES ASSUME IInv, [Next]_vars PROVE IInv'
  OBVIOUS
<1>1. Base' /\ NothingOlder' /\ SavedStateSurvives'
  BY BaseStep, NothingOlderStep, SurvivesStep DEF IInv
<1>2. StopInOrder'
  <2>1. Base /\ StopInOrder
    BY DEF IInv
  <2>2. CASE \E w \in Writers : Save(w) \/ SaveFails(w)
    BY <2>1, <2>2, WhoSaves, SaverInOrder, StopperInOrder
  <2>3. CASE \E s \in Savers : SaverTick(s)
    BY <2>1, <2>3, SaverInOrder
  <2>4. CASE OnStopped
    BY <2>1, <2>4, OnStoppedInOrder
  <2>5. CASE OnPublish \/ AlertEcho
    BY <2>1, <2>5, MessageInOrder
  <2> QED BY <2>1, <2>2, <2>3, <2>4, <2>5, OthersInOrder DEF Next
<1> QED BY <1>1, <1>2 DEF IInv

\* The invariant holds in every reachable state.
THEOREM Invariance == Spec => []IInv
<1>1. Init => IInv
  BY InitInvariant
<1>2. IInv /\ [Next]_vars => IInv'
  BY NextInvariant
<1> QED BY <1>1, <1>2, PTL DEF Spec

\* Every variable of the embedded program has its type.
THEOREM TypeCorrect == Spec => []TypeOK
<1>1. IInv => TypeOK
  BY DEF IInv, Base, SaveInv, HookTypes, TypeOK
<1> QED BY <1>1, Invariance, PTL

\* OnStopped leaves in the file what was received before the broker was closed,
\* unless the saver was at work or the write failed.
THEOREM CleanStop == Spec => []CleanStopSavesAll
<1>1. IInv => CleanStopSavesAll
  <2>1. IInv /\ life = "stopped" => stopped /\ ~Saving("stopper")
    BY DEF IInv, StopInOrder
  <2> QED BY <2>1 DEF IInv, StopInOrder, FileAsStopped, CleanStopSavesAll
<1> QED BY <1>1, Invariance, PTL

\* A completely saved state stays readable, whatever the lifecycle does.
THEOREM Survives == Spec => []SavedStateSurvives
<1>1. IInv => SavedStateSurvives
  BY DEF IInv
<1> QED BY <1>1, Invariance, PTL

\* No restart loads a series older than an earlier process has loaded.
THEOREM RestartsKeepOrder == Spec => NoRollback
<1>1. IInv /\ IInv' /\ [Next]_vars =>
        [life = "down" /\ life' = "built" => \A s \in Saved : mem'[s] = 0 \/ mem'[s] >= loaded[s]]_vars
  <2> SUFFICES ASSUME IInv, IInv', Next, life = "down", life' = "built", NEW s \in Saved
               PROVE  mem'[s] = 0 \/ mem'[s] >= loaded[s]
    OBVIOUS
  <2>1. Construct
    BY LoadedStays
  <2>2. loaded'[s] = Newer(loaded[s], mem'[s])
    BY <2>1 DEF Construct
  <2>3. Fresh(mem[s], s)'
    BY DEF IInv, NothingOlder
  <2>4. loaded[s] \in Nat /\ mem'[s] \in Nat
    <3>1. loaded[s] \in Nat
      BY Numbers DEF IInv
    <3>2. mem'[s] \in Nat
      BY StateTypes, VersionType DEF IInv, Base, SaveInv, TypeOKStateFile
    <3> QED BY <3>1, <3>2
  <2> QED BY <2>2, <2>3, <2>4 DEF Fresh, Newer
<1> QED BY <1>1, Invariance, PTL DEF Spec, NoRollback

-----------------------------------------------------------------------------
(* The embedded program implements DurableStore. *)

\* The store's values are the state file's.
LEMMA StoreNames ==
  /\ Store!Blank = NoData /\ Store!Data = Snapshot /\ Store!Nothing = Nothing
  /\ \A d : Store!Holding(d) = Holding(d)
BY DEF Store!Blank, NoData, Store!Data, Snapshot, Store!Nothing, Nothing,
   Store!Holding, Holding

\* The first process finds nothing.
LEMMA InitStore == Init => Store!Init
<1> SUFFICES ASSUME Init PROVE Store!Init
  OBVIOUS
<1>1. OnDisk = NoData
  BY StateTypes DEF Init, InitStateFile, NoSeries, NoData, OnDisk
<1>2. Content = Nothing
  BY FileKinds DEF Init, InitStateFile, Content, Nothing
<1>3. SavingNow = {} /\ SinceOf = [w \in Writers |-> NoData]
  BY StateTypes DEF Init, InitStateFile, SavingNow, SinceOf, Saving
<1> QED BY <1>1, <1>2, <1>3, StoreNames DEF Init, Store!Init, SavingNow, SinceOf

\* Every step of the program is a step of the store, or not seen by it.
LEMMA NextStore == IInv /\ [Next]_vars => [Store!Next]_(Store!vars)
<1> SUFFICES ASSUME IInv, [Next]_vars PROVE Store!Next \/ UNCHANGED Store!vars
  OBVIOUS
<1> DEFINE up == life # "down"
<1>1. SaveInv /\ Base
  BY DEF IInv, Base
<1>2. UNCHANGED <<up, OnDisk, Content, SavingNow, SinceOf>> => UNCHANGED Store!vars
  BY DEF Store!vars, SavingNow, SinceOf
<1>3. CASE Construct
  <2>1. /\ ~up /\ up' /\ Content' = Content /\ SavingNow' = SavingNow /\ SinceOf' = SinceOf
        /\ OnDisk' = IF file.kind = "snapshot" THEN file.data ELSE NoData
    BY <1>1, <1>3, LoadSaveInv, StoreStays DEF Construct, Base
  <2>2. OnDisk' = IF Content.kind = "snapshot" THEN Content.data ELSE NoData
    BY <2>1, ContentKinds
  <2>3. Store!Start
    BY <2>1, <2>2, StoreNames DEF Store!Start, SavingNow, SinceOf
  <2> QED BY <2>3 DEF Store!Next
<1>4. CASE OnPublish \/ AlertEcho
  <2>1. up /\ UNCHANGED up /\ \E written : Absorb(written)
    BY <1>4 DEF OnPublish, AlertEcho, hookVars
  <2>2. /\ OnDisk' \in Snapshot /\ \A s \in Saved : OnDisk[s] <= OnDisk'[s]
        /\ UNCHANGED <<Content, SavingNow, SinceOf>>
    BY <1>1, <2>1, AbsorbStore
  <2>3. Store!Learn
    BY <2>1, <2>2, StoreNames DEF Store!Learn, Store!NoOlder, SavingNow, SinceOf
  <2> QED BY <2>3 DEF Store!Next
<1>5. CASE (\E s \in Savers : SaverTick(s)) \/ OnStopped
  <2>1. PICK w \in Writers : BeginSave(w) /\ up /\ UNCHANGED up
    BY <1>1, <1>5, WhoSaves DEF SaverTick, OnStopped, Base, hookVars
  <2>2. /\ w \notin SavingNow /\ SavingNow' = SavingNow \cup {w}
        /\ SinceOf' = [SinceOf EXCEPT ![w] = OnDisk]
        /\ OnDisk' = OnDisk /\ Content' = Content
    BY <1>1, <2>1, BeginSaveInv, StoreStays
  <2>3. Store!Begin(w)
    BY <2>1, <2>2, StoreNames DEF Store!Begin, SavingNow, SinceOf
  <2> QED BY <2>3 DEF Store!Next
<1>6. CASE \E w \in Writers : Save(w) \/ SaveFails(w)
  <2>1. PICK w \in Writers : (SaveStep(w) \/ SaveFailure(w)) /\ UNCHANGED up
    BY <1>6 DEF Save, SaveFails, hookVars
  <2>2. CASE UNCHANGED <<OnDisk, Content, SavingNow, SinceOf>>
    BY <1>2, <2>1, <2>2
  <2>3. CASE OnDisk' = OnDisk /\ DamageStep(w)
    <3>1. Store!Damage(w)
      BY <2>1, <2>3, StoreNames DEF DamageStep, Store!Damage, SavingNow, SinceOf
    <3> QED BY <3>1 DEF Store!Next
  <2>4. CASE OnDisk' = OnDisk /\ FinishStep(w)
    <3>1. Store!Finish(w)
      BY <2>1, <2>4, StoreNames DEF FinishStep, Store!Finish, Store!NoOlder, SavingNow, SinceOf
    <3> QED BY <3>1 DEF Store!Next
  <2> QED BY <1>1, <2>1, <2>2, <2>3, <2>4, SaveStepStore
<1>7. CASE Exit \/ Crash
  <2>1. up /\ ~up' /\ LoseMemory
    BY <1>7 DEF Exit, Crash, EndProcess
  <2>2. /\ OnDisk' = NoData /\ SavingNow' = {} /\ SinceOf' = [w \in Writers |-> NoData]
        /\ Content' = Content
    BY <1>1, <2>1, LoseMemorySaveInv, StoreStays
  <2>3. Store!End
    BY <2>1, <2>2, StoreNames DEF Store!End, SavingNow, SinceOf
  <2> QED BY <2>3 DEF Store!Next
<1>8. CASE InitHook
  <2>1. UNCHANGED up
    BY <1>8 DEF InitHook, MayInit
  <2> QED BY <1>1, <1>2, <1>8, <2>1, InitHookFile
<1>9. CASE InitFails \/ StartListeners \/ ListenFails \/ OnStoppedAgain
             \/ (\E s \in Savers : SaverExit(s)) \/ ShutdownServer \/ UNCHANGED vars
  <2>1. UNCHANGED <<up, mem, file, io>>
    BY <1>9 DEF InitFails, MayInit, StartListeners, ListenFails, SaverExit, OnStoppedAgain,
       ShutdownServer, vars, stateVars, hookVars
  <2> QED BY <1>2, <2>1, StoreStays
<1> QED BY <1>3, <1>4, <1>5, <1>6, <1>7, <1>8, <1>9 DEF Next

\* Whatever crashes, failures and overlapping saves the program meets, a store
\* that may only lose, and never go back, describes it.
THEOREM Implementation == Spec => ImplementsStore
<1>1. Init => Store!Init
  BY InitStore
<1>2. IInv /\ [Next]_vars => [Store!Next]_(Store!vars)
  BY NextStore
<1> QED BY <1>1, <1>2, Invariance, PTL DEF Spec, ImplementsStore, Store!Spec
-----------------------------------------------------------------------------
(* What must happen. *)

\* What the proofs take from fairness, since they cannot look into ENABLED: a
\* process whose guard holds for ever (for strong fairness: again and again)
\* takes its step again and again.  As the guards below enable their steps, it
\* follows from the fairness of the steps.
Runs(guard, step)      == []<>~guard \/ []<><<step>>_vars
RunsOften(guard, step) == <>[]~guard \/ []<><<step>>_vars

\* Fairness, with the guards written out, and what it gives for Save(w): a
\* SaveState returns, since each of its steps leaves less of it.
Returns(w)   == []<>~Saving(w)
SavesReturn  == \A w \in Writers : Returns(w)
StopperRuns  == Runs(life = "stopping" /\ ~Saving("stopper"), ShutdownServer)
TickerRuns   == Runs(saver["saver"] = "running" /\ ~Saving("saver"), SaverTick("saver"))
SelectRuns   == \A s \in Savers :
                  RunsOften(saver[s] = "running" /\ ~Saving(s) /\ stopSave, SaverExit(s))

\* Each step of a SaveState leaves less of it: fewer families to gather, or
\* only the write, or nothing.
LEMMA SavesShrink ==
  ASSUME SaveInv, NEW w \in Writers, SaveStep(w) \/ SaveFailure(w)
  PROVE  /\ Saving(w)
         /\ \/ ~Saving(w)'
            \/ io[w].pc = "gather" /\ io'[w].pc = "write"
            \/ io[w].pc = "gather" /\ io'[w].pc = "gather"
               /\ io'[w].todo \in SUBSET io[w].todo /\ io'[w].todo # io[w].todo
<1>1. CASE \E s \in Saved : Gather(w, s)
  <2>1. PICK s \in Saved : Gather(w, s)
    BY <1>1
  <2>2. s \in io[w].todo
    BY <2>1 DEF Gather
  <2> QED BY <2>1, <2>2, GatherSaveInv
<1>2. CASE SkipWrite(w)
  BY <1>2, QuietEndSaveInv, StateTypes DEF Done, Saving
<1>3. CASE Truncate(w)
  BY <1>3, TruncateSaveInv
<1>4. CASE Write(w) \/ SaveFailure(w)
  BY <1>4, WriteSaveInv, FailureSaveInv, StateTypes DEF Done, Saving
<1> QED BY <1>1, <1>2, <1>3, <1>4 DEF SaveStep

\* From OnStopped on, the final save starts only once.
LEMMA StoppingGoesOn ==
  ASSUME IInv, [Next]_vars, life = "stopping"
  PROVE  /\ life' \in {"stopping", "stopped", "down"}
         /\ ~Saving("stopper") /\ life' = "stopping" => ~Saving("stopper")'
<1>1. (\A s \in Savers : s \in Writers \ {"stopper"}) /\ "stopper" \in Writers /\ SaveInv
  BY WhoSaves DEF IInv, Base
<1>2. CASE \E w \in Writers : Save(w) \/ SaveFails(w)
  <2>1. PICK w \in Writers : Save(w) \/ SaveFails(w)
    BY <1>2
  <2>2. life' = life /\ (SaveStep(w) \/ SaveFailure(w))
    BY <2>1 DEF Save, SaveFails, hookVars
  <2>3. SavingNow' \in SUBSET SavingNow
    BY <1>1, <2>2, GatherSaveInv, QuietEndSaveInv, TruncateSaveInv, WriteSaveInv,
          FailureSaveInv DEF SaveStep
  <2> QED BY <1>1, <2>2, <2>3 DEF SavingNow
<1>3. CASE \E s \in Savers : SaverTick(s)
  <2>1. life' = life /\ \E s \in Savers : BeginSave(s)
    BY <1>3 DEF SaverTick, hookVars
  <2>2. io'["stopper"] = io["stopper"]
    BY <1>1, <2>1, BeginSaveInv
  <2> QED BY <2>1, <2>2 DEF Saving
<1>4. CASE AlertEcho
  BY <1>4 DEF AlertEcho, Absorb, hookVars, Saving
<1>5. CASE (\E s \in Savers : SaverExit(s)) \/ UNCHANGED vars
  BY <1>5 DEF SaverExit, vars, hookVars, stateVars, Saving
<1>6. CASE Exit \/ Crash \/ ShutdownServer
  BY <1>6 DEF Exit, Crash, EndProcess, ShutdownServer
<1> QED BY <1>2, <1>3, <1>4, <1>5, <1>6 DEF Next, Construct, InitHook, InitFails, MayInit,
      StartListeners, ListenFails, OnPublish, OnStopped, OnStoppedAgain

\* A stopped hook stays stopped until the process ends.
LEMMA StoppedStays ==
  ASSUME IInv, [Next]_vars, stopped, NEW s \in Savers
  PROVE  stopped' \/ saver'[s] # "running"
BY DEF IInv, Base, HookTypes, Next, Construct, InitHook, InitFails, StartListeners, ListenFails,
   OnPublish, AlertEcho, SaverTick, SaverExit, OnStopped, OnStoppedAgain, ShutdownServer, Save,
   SaveFails, Exit, Crash, EndProcess, vars, hookVars

\* After OnStopped is called it returns, and every saver ends, whenever the kill,
\* the echoes of alerts, another Init and a slow save come, provided that a
\* SaveState ends.
THEOREM StopReturns == Spec /\ SavesReturn /\ StopperRuns /\ SelectRuns => StopCompletes
<1>1. Spec /\ SavesReturn /\ StopperRuns => (life = "stopping" ~> life \in {"stopped", "down"})
  <2>1. IInv /\ [Next]_vars /\ life = "stopping" =>
          (life = "stopping")' \/ (life \in {"stopped", "down"})'
    BY StoppingGoesOn
  <2>2. IInv /\ [Next]_vars /\ (life = "stopping" /\ ~Saving("stopper")) =>
          (life = "stopping" /\ ~Saving("stopper"))' \/ (life \in {"stopped", "down"})'
    BY StoppingGoesOn
  <2>3. <<ShutdownServer>>_vars => (life \in {"stopped", "down"})'
    BY DEF ShutdownServer
  <2>4. SavesReturn => Returns("stopper")
    BY WhoSaves DEF SavesReturn
  <2> QED BY <2>1, <2>2, <2>3, <2>4, Invariance, PTL DEF Spec, StopperRuns, Runs, Returns
<1>2. ASSUME NEW s \in Savers
      PROVE  Spec /\ SavesReturn /\ SelectRuns => (stopped ~> saver[s] # "running")
  <2>1. IInv /\ stopped => stopSave
    BY DEF IInv, StopInOrder
  <2>2. IInv /\ [Next]_vars /\ stopped => stopped' \/ (saver[s] # "running")'
    BY StoppedStays
  <2>3. IInv /\ <<SaverExit(s)>>_vars => (saver[s] # "running")'
    BY DEF IInv, Base, HookTypes, SaverExit
  <2>4. saver[s] # "running" <=> ~(saver[s] = "running")
    OBVIOUS
  <2>5. SavesReturn => Returns(s)
    BY WhoSaves DEF SavesReturn
  <2>6. SelectRuns => RunsOften(saver[s] = "running" /\ ~Saving(s) /\ stopSave, SaverExit(s))
    BY DEF SelectRuns
  <2> QED BY <2>1, <2>2, <2>3, <2>4, <2>5, <2>6, Invariance, PTL DEF Spec, RunsOften, Returns
<1> QED BY <1>1, <1>2 DEF StopCompletes

\* A hook that has not been stopped has been initialised once at most: it has
\* one saver, from Init on, and no other goroutine saves.
SaverThere ==
  /\ stopSave => stopped
  /\ life \in {"hooked", "serving"} /\ ~stopped => saver["saver"] = "running"
  /\ ~stopped => \A s \in Savers \ {"saver"} : saver[s] = "none"
  /\ \A s \in Savers : Saving(s) => saver[s] = "running"

\* Only a stop ends it.
LEMMA SaverStaysThere == IInv /\ SaverThere /\ [Next]_vars => SaverThere'
<1> SUFFICES ASSUME IInv, SaverThere, [Next]_vars PROVE SaverThere'
  OBVIOUS
<1>1. /\ SaveInv /\ saver \in [Savers -> {"none", "running", "exited"}]
      /\ life \in {"stopping", "stopped"} => stopped
      /\ life = "down" => \A s \in Savers : saver[s] = "none"
  BY DEF IInv, Base, HookTypes, StopInOrder
<1>2. CASE \E w \in Writers : Save(w) \/ SaveFails(w)
  <2>1. PICK w \in Writers : Save(w) \/ SaveFails(w)
    BY <1>2
  <2>2. UNCHANGED hookVars /\ (SaveStep(w) \/ SaveFailure(w))
    BY <2>1 DEF Save, SaveFails
  <2>3. SavingNow' \in SUBSET SavingNow
    BY <1>1, <2>2, GatherSaveInv, QuietEndSaveInv, TruncateSaveInv, WriteSaveInv,
          FailureSaveInv DEF SaveStep
  <2> QED BY <2>2, <2>3, WhoSaves DEF SavingNow, hookVars, SaverThere
<1>3. CASE \E t \in Savers : SaverTick(t)
  <2>1. PICK t \in Savers : SaverTick(t)
    BY <1>3
  <2>2. saver[t] = "running" /\ BeginSave(t) /\ UNCHANGED hookVars
    BY <2>1 DEF SaverTick
  <2>3. \A v \in Writers \ {t} : io'[v] = io[v]
    BY <1>1, <2>2, BeginSaveInv, WhoSaves
  <2> QED BY <2>2, <2>3, WhoSaves DEF Saving, hookVars, SaverThere
<1>4. CASE OnStopped
  <2>1. \A v \in Savers : io'[v] = io[v]
    BY <1>1, <1>4, BeginSaveInv, WhoSaves DEF OnStopped
  <2> QED BY <1>4, <2>1 DEF OnStopped, Saving, SaverThere
<1>5. CASE InitHook
  <2>1. life = "built" => NewSaver = "saver"
    BY DEF NewSaver
  <2> QED BY <1>1, <1>5, <2>1, WhoSaves DEF InitHook, MayInit, Saving, SaverThere
<1>6. CASE \E s \in Savers : SaverExit(s)
  BY <1>1, <1>6 DEF SaverExit, stateVars, Saving, SaverThere
<1>7. CASE Construct
  BY <1>1, <1>7 DEF Construct, LoadState, Saving, SaverThere
<1>8. CASE Exit \/ Crash
  <2>1. (\A s \in Savers : ~Saving(s)' /\ saver'[s] = "none") /\ ~stopSave' /\ life' = "down"
    BY <1>1, <1>8, LoseMemorySaveInv, WhoSaves, StateTypes DEF Exit, Crash, EndProcess, Saving
  <2> QED BY <2>1, WhoSaves DEF SaverThere
<1>9. CASE OnPublish \/ AlertEcho
  BY <1>9 DEF OnPublish, AlertEcho, Absorb, hookVars, Saving, SaverThere
<1>10. CASE InitFails \/ StartListeners \/ ListenFails \/ OnStoppedAgain \/ ShutdownServer
              \/ UNCHANGED vars
  BY <1>10 DEF InitFails, StartListeners, ListenFails, OnStoppedAgain, ShutdownServer, vars,
     stateVars, hookVars, Saving, SaverThere
<1> QED BY <1>2, <1>3, <1>4, <1>5, <1>6, <1>7, <1>8, <1>9, <1>10 DEF Next

\* The program serves, and the hook has not been stopped.
Serves == life = "serving" /\ ~stopped

\* There is nothing to save, or the file holds it.
CaughtUp == OnDisk = NoData \/ file = Holding(OnDisk)

\* A message arrives, or a write fails.
Noise == received' # received \/ \E w \in Writers : SaveFails(w)

\* The saver is at work, and what it has gathered is still what the registry
\* holds: its write will bring the file up to date.
SavesLatest ==
  /\ Saving("saver")
  /\ \A s \in Saved : s \notin io["saver"].todo => io["saver"].snap[s] = mem[s]
  /\ io["saver"].pc = "write" => io["saver"].clean

\* Without messages, failures and stops, every step while the program serves is
\* the saver's.
LEMMA QuietSteps ==
  ASSUME IInv, SaverThere, [Next]_vars, ~<<Noise>>_vars, Serves, Serves'
  PROVE  \/ UNCHANGED stateVars
         \/ BeginSave("saver")
         \/ SaveStep("saver")
<1>1. "saver" \in Writers /\ "stopper" \in Writers /\ SaveInv /\ HookTypes
  BY WhoSaves DEF IInv, Base
<1>2. /\ ~Saving("stopper")
      /\ \A s \in Savers : saver[s] = "running" \/ Saving(s) => s = "saver"
  BY DEF IInv, StopInOrder, Serves, SaverThere
<1>3. CASE OnPublish
  <2>1. received' = received + 1 /\ received \in Nat
    BY <1>1, <1>3, StateTypes, VersionType DEF OnPublish, Absorb, SaveInv, TypeOKStateFile
  <2>2. received' # received
    BY <2>1
  <2>3. vars' # vars
    BY <2>2 DEF vars, stateVars
  <2> QED BY <2>2, <2>3 DEF Noise
<1>4. CASE \E w \in Writers : SaveFails(w)
  <2>1. PICK w \in Writers : SaveFails(w)
    BY <1>4
  <2>2. Saving(w) /\ Done(w)
    BY <1>1, <2>1, FailureSaveInv DEF SaveFails
  <2>3. io'[w].pc # io[w].pc
    BY <2>2, StateTypes DEF Done, Saving
  <2>4. vars' # vars
    BY <2>3 DEF vars, stateVars
  <2> QED BY <1>4, <2>4 DEF Noise
<1>5. CASE \E w \in Writers : Save(w)
  <2>1. PICK w \in Writers : SaveStep(w)
    BY <1>5 DEF Save
  <2>2. Saving(w)
    BY <1>1, <2>1, SavesShrink
  <2>3. w = "saver"
    BY <1>2, <2>2, WhoSaves
  <2> QED BY <2>1, <2>3
<1>6. CASE \E s \in Savers : SaverTick(s)
  BY <1>2, <1>6 DEF SaverTick
<1>7. CASE (\E s \in Savers : SaverExit(s)) \/ UNCHANGED vars
  BY <1>7 DEF SaverExit, vars
<1> QED BY <1>3, <1>4, <1>5, <1>6, <1>7 DEF Next, Serves, Construct, InitHook, MayInit, InitFails,
      StartListeners, ListenFails, AlertEcho, OnStopped, OnStoppedAgain, ShutdownServer, Exit, Crash,
      EndProcess

\* A save that begins in a quiet time gathers what the registry holds.
LEMMA SaveBeginsLatest ==
  ASSUME IInv, SaverThere, [Next]_vars, ~<<Noise>>_vars, Serves, Serves', ~Saving("saver")
  PROVE  ~Saving("saver")' \/ SavesLatest'
<1>1. "saver" \in Writers /\ SaveInv
  BY WhoSaves DEF IInv, Base
<1>2. CASE UNCHANGED stateVars
  BY <1>2 DEF stateVars, Saving
<1>3. CASE BeginSave("saver")
  BY <1>1, <1>3, BeginSaveInv, SaveInvStep DEF SavesLatest, Saving, IInv
<1>4. CASE SaveStep("saver")
  BY <1>1, <1>4, SavesShrink
<1> QED BY <1>2, <1>3, <1>4, QuietSteps

\* And ends with the file up to date.
LEMMA SaveEndsLatest ==
  ASSUME IInv, SaverThere, [Next]_vars, ~<<Noise>>_vars, Serves, Serves', SavesLatest
  PROVE  SavesLatest' \/ CaughtUp'
<1>1. "saver" \in Writers /\ SaveInv
  BY WhoSaves DEF IInv, Base
<1>2. io["saver"].snap \in Snapshot /\ io["saver"].todo \in SUBSET Saved /\ OnDisk \in Snapshot
  BY <1>1, OnDiskType DEF SaveInv, TypeOKStateFile
<1>3. io["saver"].todo = {} => io["saver"].snap = OnDisk
  <2>1. ASSUME io["saver"].todo = {} PROVE \A s \in Saved : io["saver"].snap[s] = OnDisk[s]
    BY <1>1, <2>1, OnDiskType DEF SavesLatest
  <2> QED BY <1>2, <2>1 DEF Snapshot
<1>4. CASE UNCHANGED stateVars
  BY <1>4 DEF stateVars, SavesLatest, Saving
<1>5. CASE BeginSave("saver")
  BY <1>5 DEF BeginSave, SavesLatest
<1>6. CASE \E s \in Saved : Gather("saver", s)
  <2>1. PICK s \in Saved : Gather("saver", s)
    BY <1>6
  <2>2. /\ io["saver"].pc = "gather" /\ io'["saver"].pc = "gather"
        /\ io'["saver"].todo = io["saver"].todo \ {s}
        /\ io'["saver"].snap = [io["saver"].snap EXCEPT ![s] = mem[s]]
        /\ mem' = mem
    BY <1>1, <2>1, GatherSaveInv
  <2>3. \A t \in Saved : t \notin io'["saver"].todo => io'["saver"].snap[t] = mem'[t]
    BY <1>2, <2>2 DEF SavesLatest, Snapshot
  <2> QED BY <2>2, <2>3 DEF SavesLatest, Saving
<1>7. CASE SkipWrite("saver")
  <2>1. io["saver"].todo = {} /\ io["saver"].snap = NoData /\ mem' = mem
    BY <1>7 DEF SkipWrite
  <2> QED BY <1>3, <2>1, StoreStays DEF CaughtUp
<1>8. CASE Truncate("saver")
  BY <1>1, <1>8, TruncateSaveInv DEF SavesLatest, Saving
<1>9. CASE Write("saver")
  <2>1. io["saver"].pc = "write" /\ io["saver"].todo = {} /\ io["saver"].clean /\ mem' = mem
    BY <1>1, <1>9, WriteSaveInv DEF SavesLatest
  <2>2. file' = Holding(io["saver"].snap)
    BY <1>1, <1>9, <2>1, WriteSaveInv
  <2> QED BY <1>3, <2>1, <2>2, StoreStays DEF CaughtUp
<1> QED BY <1>4, <1>5, <1>6, <1>7, <1>8, <1>9, QuietSteps DEF SaveStep

\* While the program serves in peace, its ticker and saver bring the file up to
\* date again and again, provided that a SaveState ends.
THEOREM FileFollows == Spec /\ SavesReturn /\ TickerRuns => FileCatchesUp
<1>1. Init => SaverThere
  BY StateTypes, WhoSaves DEF Init, InitStateFile, Saving, SaverThere
<1>2. IInv /\ SaverThere /\ [Next]_vars /\ ~<<Noise>>_vars /\ Serves /\ Serves' /\ ~Saving("saver") =>
        ~Saving("saver")' \/ SavesLatest'
  BY SaveBeginsLatest
<1>3. IInv /\ SaverThere /\ [Next]_vars /\ ~<<Noise>>_vars /\ Serves /\ Serves' /\ SavesLatest =>
        SavesLatest' \/ CaughtUp'
  BY SaveEndsLatest
<1>4. SavesLatest => Saving("saver")
  BY DEF SavesLatest
<1>5. SaverThere /\ Serves => saver["saver"] = "running"
  BY DEF SaverThere, Serves
<1>6. IInv /\ <<SaverTick("saver")>>_vars => Saving("saver")'
  BY BeginSaveInv, WhoSaves DEF IInv, Base, SaverTick, Saving
<1>7. ~Serves <=> life # "serving" \/ stopped
  BY DEF Serves
<1>8. SavesReturn => Returns("saver")
  BY WhoSaves DEF SavesReturn
<1>9. Spec /\ SavesReturn /\ TickerRuns => []<>~Serves \/ []<>CaughtUp \/ []<><<Noise>>_vars
  BY <1>1, <1>2, <1>3, <1>4, <1>5, <1>6, <1>8, SaverStaysThere, Invariance, PTL
     DEF Spec, TickerRuns, Runs, Returns
<1>10. <<Noise>>_vars <=> <<received' # received \/ \E w \in Writers : SaveFails(w)>>_vars
  BY DEF Noise
<1> QED BY <1>7, <1>9, <1>10, PTL DEF FileCatchesUp, CaughtUp
=============================================================================
