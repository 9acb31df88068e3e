-------------------------- MODULE StandaloneAppProofs --------------------------
(***************************************************************************)
(* The standalone program, for any series, topics and number of messages   *)
(* and starts: what Shutdown leaves in the file, that the program          *)
(* implements DurableStore, that Shutdown returns, and that no topic is    *)
(* forgotten, however often the connection is lost.                        *)
(*                                                                         *)
(* The invariant has two parts.  Base: types, the save's progress          *)
(* (StateFileProofs), and a process that is down has neither a save nor a  *)
(* connection.  SaveInOrder follows the save from the signal on, while     *)
(* messages go on arriving.  TopicsInOrder is the invariant of the         *)
(* connection: what it has subscribed to, was refused and has still to try *)
(* are all the topics.                                                     *)
(***************************************************************************)
EXTENDS StandaloneApp, StateFileProofs

\* The types of the variables that StateFile does not declare.
AppTypes ==
  /\ life \in {"down", "connecting", "connected", "failed", "serving", "saving", "closing", "done"}
  /\ starts \in 0 .. MaxStarts
  /\ server \in BOOLEAN
  /\ link \in {"none", "up", "reconnecting"}
  /\ subscribed \in SUBSET Topics
  /\ onConnect \in SUBSET Topics
  /\ refused \in SUBSET Topics
  /\ failed \in BOOLEAN
  /\ atSignal \in Snapshot

\* Types, the save's progress, and a process that is down.
Base ==
  /\ SaveInv
  /\ AppTypes
  /\ life = "down" => link = "none" /\ SavingNow = {}

\* The file holds what the registry held at the signal or later.
FileSinceSignal ==
  /\ file.kind = "snapshot"
  /\ \A s \in Saved : file.data[s] \in atSignal[s] .. mem[s]

\* The save, from the signal to the end of the process.
SaveInOrder ==
  /\ Saving("app") =>
       /\ life = "saving"
       /\ io["app"].since = atSignal
       /\ io["app"].pc = "write" => io["app"].clean
  /\ life \in {"saving", "closing", "done"} /\ ~Saving("app") /\ ~failed /\ atSignal # NoData =>
       FileSinceSignal

\* The inductive invariant.
IInv == Base /\ SaveInOrder

-----------------------------------------------------------------------------
(* Types, and the save. *)

\* The program's only saver.
LEMMA OneWriter == Writers = {"app"} /\ MaxStarts \in Nat
BY StandaloneAssumption

\* The steps that only the connection and the lifecycle take part in.
NetStep ==
  \/ Connect \/ ConnectFails \/ StartServer \/ ConnectionLost \/ Reconnect
  \/ \E t \in Topics : Subscribe(t) \/ SubscribeFails(t)
  \/ ContextDone \/ ShutdownServer \/ Disconnect \/ UNCHANGED vars

\* They leave the registry, the file and the save alone.
LEMMA NetSteps ==
  ASSUME NetStep
  PROVE  UNCHANGED stateVars /\ (life' = "down" <=> life = "down") /\ UNCHANGED atSignal
BY DEF NetStep, Connect, LinkUp, ConnectFails, StartServer, ConnectionLost, Reconnect, Subscribe,
   SubscribeFails, ContextDone, ShutdownServer, Disconnect, vars, appVars, netVars, history

\* The save keeps its invariant.
LEMMA SaveInvStep == Base /\ [Next]_vars => SaveInv'
<1> SUFFICES ASSUME Base, [Next]_vars PROVE SaveInv'
  OBVIOUS
<1>1. SaveInv
  BY DEF Base
<1>2. CASE NetStep
  <2>1. UNCHANGED <<mem, received, file, io>>
    BY <1>2, NetSteps DEF stateVars
  <2> QED BY <1>1, <2>1 DEF SaveInv, TypeOKStateFile, Saving, Between
<1>3. CASE MessageHandler
  BY <1>1, <1>3, AbsorbSaveInv DEF MessageHandler
<1>4. CASE Shutdown
  BY <1>1, <1>4, BeginSaveInv, OneWriter DEF Shutdown
<1>5. CASE \E w \in Writers : Save(w) \/ SaveFails(w)
  BY <1>1, <1>5, SaveStepInv DEF Save, SaveFails
<1>6. CASE NewApp
  BY <1>1, <1>6, LoadSaveInv DEF NewApp, Base
<1>7. CASE Exit \/ Crash
  BY <1>1, <1>7, LoseMemorySaveInv DEF Exit, Crash, EndProcess
<1> QED BY <1>2, <1>3, <1>4, <1>5, <1>6, <1>7 DEF Next, NetStep

\* So do the types of the program.
LEMMA AppTypesStep == Base /\ [Next]_vars => AppTypes'
<1> SUFFICES ASSUME Base, [Next]_vars PROVE AppTypes'
  OBVIOUS
<1> USE DEF Base, AppTypes
<1>1. CASE NewApp
  <2>1. starts' \in 0 .. MaxStarts
    BY <1>1, OneWriter DEF NewApp
  <2> QED BY <1>1, <2>1 DEF NewApp, netVars, history
<1>2. CASE Connect \/ ConnectFails \/ StartServer
  BY <1>2 DEF Connect, LinkUp, ConnectFails, StartServer, netVars, history
<1>3. CASE \E t \in Topics : Subscribe(t) \/ SubscribeFails(t)
  BY <1>3 DEF Subscribe, SubscribeFails, appVars, history
<1>4. CASE ConnectionLost \/ Reconnect
  BY <1>4 DEF ConnectionLost, Reconnect, LinkUp, appVars, history
<1>5. CASE MessageHandler
  BY <1>5 DEF MessageHandler, appVars, netVars, history
<1>6. CASE Shutdown
  BY <1>6, OnDiskType DEF Shutdown, netVars
<1>7. CASE \E w \in Writers : Save(w) \/ SaveFails(w)
  BY <1>7 DEF Save, SaveFails, appVars, netVars, history
<1>8. CASE ContextDone \/ ShutdownServer \/ Disconnect
  BY <1>8 DEF ContextDone, ShutdownServer, Disconnect, netVars, history
<1>9. CASE Exit \/ Crash
  BY <1>9, StateTypes DEF Exit, Crash, EndProcess
<1>10. CASE UNCHANGED vars
  BY <1>10 DEF vars, appVars, netVars, history
<1> QED BY <1>1, <1>2, <1>3, <1>4, <1>5, <1>6, <1>7, <1>8, <1>9, <1>10 DEF Next

\* A step of the save is one of a save in progress.
LEMMA SaverWorks ==
  ASSUME SaveInv, NEW w \in Writers, SaveStep(w) \/ SaveFailure(w)
  PROVE  Saving(w) /\ w \in SavingNow
BY GatherSaveInv, QuietEndSaveInv, TruncateSaveInv, WriteSaveInv, FailureSaveInv
   DEF SaveStep, SavingNow

\* Without a process there is neither a save nor a connection.
LEMMA BaseStep == Base /\ [Next]_vars => Base'
<1> SUFFICES ASSUME Base, [Next]_vars PROVE Base'
  OBVIOUS
<1>1. SaveInv' /\ AppTypes' /\ SaveInv
  BY SaveInvStep, AppTypesStep DEF Base
<1>2. ASSUME life' = "down" PROVE link' = "none" /\ SavingNow' = {}
  <2>1. CASE Exit \/ Crash
    BY <1>1, <2>1, LoseMemorySaveInv DEF Exit, Crash, EndProcess
  <2>2. CASE NetStep
    <3>1. life = "down" /\ link = "none" /\ SavingNow' = {}
      BY <1>2, <2>2, NetSteps, StoreStays DEF Base, stateVars
    <3>2. link' = "none"
      BY <1>2, <2>2, <3>1 DEF NetStep, Connect, ConnectFails, StartServer, ConnectionLost, Reconnect,
         Subscribe, SubscribeFails, ContextDone, ShutdownServer, Disconnect, vars, netVars
    <3> QED BY <3>1, <3>2
  <2>3. CASE MessageHandler
    BY <1>2, <2>3 DEF MessageHandler, appVars, Base
  <2>4. CASE \E w \in Writers : Save(w) \/ SaveFails(w)
    BY <1>1, <1>2, <2>4, SaverWorks DEF Save, SaveFails, appVars, Base
  <2> QED BY <1>2, <2>1, <2>2, <2>3, <2>4 DEF Next, NetStep, NewApp, Shutdown
<1> QED BY <1>1, <1>2 DEF Base

-----------------------------------------------------------------------------
(* The save. *)

\* A save that ends without an error has written what it gathered.
LEMMA SaveEndsInOrder ==
  ASSUME Base, SaveInOrder, Save("app") \/ SaveFails("app")
  PROVE  SaveInOrder'
<1>1. "app" \in Writers /\ SaveInv
  BY OneWriter DEF Base
<1>2. /\ SaveStep("app") \/ SaveFailure("app")
      /\ UNCHANGED <<life, atSignal, mem>>
  BY <1>1, SaveStepInv DEF Save, SaveFails, appVars, history
<1>3. Saving("app")
  BY <1>1, <1>2, SaverWorks
<1>4. /\ life = "saving" /\ io["app"].since = atSignal
      /\ io["app"].pc = "write" => io["app"].clean
  BY <1>3 DEF SaveInOrder
<1>5. Between("app")
  BY <1>1, <1>3 DEF SaveInv
<1>6. \A s \in Saved : /\ io["app"].snap[s] \in Nat /\ mem[s] \in Nat /\ atSignal[s] \in Nat
  BY <1>1, OnDiskType, VersionType DEF Base, AppTypes, Snapshot, SaveInv, TypeOKStateFile
<1>7. CASE \E s \in Saved : Gather("app", s)
  <2>1. io'["app"].pc = "gather" /\ SinceOf' = SinceOf
    BY <1>1, <1>7, GatherSaveInv
  <2>2. io'["app"].since = io["app"].since
    BY <1>1, <2>1 DEF SinceOf
  <2> QED BY <1>2, <1>4, <2>1, <2>2 DEF SaveInOrder, Saving
<1>8. CASE SkipWrite("app")
  <2>1. io["app"].todo = {} /\ io["app"].snap = NoData
    BY <1>8 DEF SkipWrite
  <2>2. \A s \in Saved : atSignal[s] = 0
    BY <1>4, <1>5, <1>6, <2>1 DEF Between, NoData
  <2>3. atSignal = NoData
    BY <2>2 DEF NoData, Base, AppTypes, Snapshot
  <2>4. ~Saving("app")'
    BY <1>1, <1>8, QuietEndSaveInv, StateTypes DEF Done, Saving
  <2> QED BY <1>2, <2>3, <2>4 DEF SaveInOrder
<1>9. CASE Truncate("app")
  <2>1. io'["app"].pc = "write" /\ SinceOf' = SinceOf
    BY <1>1, <1>9, TruncateSaveInv
  <2>2. io'["app"].since = io["app"].since
    BY <1>1, <2>1 DEF SinceOf
  <2>3. io'["app"].clean
    <3>1. io'["app"].clean = TRUE
      BY <1>1, <1>9, TruncateSaveInv
    <3> QED BY <3>1
  <2> QED BY <1>2, <1>4, <2>1, <2>2, <2>3 DEF SaveInOrder, Saving
<1>10. CASE Write("app")
  <2>1. Done("app") /\ io["app"].pc = "write" /\ io["app"].todo = {}
    BY <1>1, <1>10, WriteSaveInv
  <2>2. ~Saving("app")'
    BY <2>1, StateTypes DEF Done, Saving
  <2>3. file' = Holding(io["app"].snap)
    BY <1>1, <1>4, <1>10, <2>1, WriteSaveInv
  <2>4. file'.kind = "snapshot" /\ file'.data = io["app"].snap
    BY <2>3, FileKinds
  <2>5. \A s \in Saved : io["app"].snap[s] \in atSignal[s] .. mem[s]
    BY <1>4, <1>5, <1>6, <2>1 DEF Between
  <2>6. FileSinceSignal'
    BY <1>2, <2>4, <2>5 DEF FileSinceSignal
  <2> QED BY <2>2, <2>6 DEF SaveInOrder
<1>11. CASE SaveFails("app")
  <2>1. ~Saving("app")' /\ failed'
    BY <1>1, <1>11, FailureSaveInv, StateTypes DEF Done, Saving, SaveFails
  <2> QED BY <2>1 DEF SaveInOrder
<1> QED BY <1>7, <1>8, <1>9, <1>10, <1>11 DEF Save, SaveStep

\* Messages that arrive meanwhile only make the registry newer than the file.
LEMMA SaveInOrderStep == Base /\ SaveInOrder /\ [Next]_vars => SaveInOrder'
<1> SUFFICES ASSUME Base, SaveInOrder, [Next]_vars PROVE SaveInOrder'
  OBVIOUS
<1>1. "app" \in Writers /\ SaveInv
  BY OneWriter DEF Base
<1>2. CASE NetStep
  <2>1. UNCHANGED <<mem, file, io, atSignal>>
    BY <1>2, NetSteps DEF stateVars
  <2>2. Saving("app") => life' = "saving"
    BY <1>2 DEF SaveInOrder, NetStep, Connect, ConnectFails, StartServer, ConnectionLost, Reconnect,
       Subscribe, SubscribeFails, ContextDone, ShutdownServer, Disconnect, vars, appVars
  <2>3. life' \in {"saving", "closing", "done"} => life \in {"saving", "closing", "done"}
    BY <1>2 DEF NetStep, Connect, ConnectFails, StartServer, ConnectionLost, Reconnect,
       Subscribe, SubscribeFails, ContextDone, ShutdownServer, Disconnect, vars, appVars
  <2>4. UNCHANGED failed
    BY <1>2 DEF NetStep, Connect, ConnectFails, StartServer, ConnectionLost, Reconnect,
       Subscribe, SubscribeFails, ContextDone, ShutdownServer, Disconnect, vars, history
  <2> QED BY <2>1, <2>2, <2>3, <2>4 DEF SaveInOrder, Saving, FileSinceSignal
<1>3. CASE MessageHandler
  <2>1. PICK written : Absorb(written)
    BY <1>3 DEF MessageHandler
  <2>2. /\ \A s \in Series : mem[s] <= mem'[s]
        /\ UNCHANGED <<file, io>> /\ SaveInv'
    BY <1>1, <2>1, AbsorbSaveInv
  <2>3. UNCHANGED <<life, failed, atSignal>>
    BY <1>3 DEF MessageHandler, appVars, history
  <2>4. ASSUME FileSinceSignal PROVE FileSinceSignal'
    <3>1. \A s \in Saved : /\ mem[s] <= mem'[s] /\ mem[s] \in Nat /\ mem'[s] \in Nat
                           /\ file.data[s] \in atSignal[s] .. mem[s]
      BY <1>1, <2>2, <2>4, StateTypes, VersionType
         DEF FileSinceSignal, SaveInv, TypeOKStateFile
    <3>2. \A s \in Saved : atSignal[s] \in Nat
      BY VersionType DEF Base, AppTypes, Snapshot
    <3> QED BY <2>2, <2>3, <2>4, <3>1, <3>2 DEF FileSinceSignal
  <2> QED BY <2>2, <2>3, <2>4 DEF SaveInOrder, Saving
<1>4. CASE Shutdown
  <2>1. io'["app"].pc = "gather" /\ io'["app"].since = OnDisk
    BY <1>1, <1>4, BeginSaveInv DEF Shutdown
  <2> QED BY <1>4, <2>1 DEF Shutdown, SaveInOrder, Saving
<1>5. CASE \E w \in Writers : Save(w) \/ SaveFails(w)
  BY <1>5, OneWriter, SaveEndsInOrder
<1>6. CASE NewApp
  <2>1. ~Saving("app") /\ UNCHANGED io
    BY <1>1, <1>6 DEF NewApp, LoadState, Base, SavingNow
  <2> QED BY <1>6, <2>1 DEF NewApp, SaveInOrder, Saving
<1>7. CASE Exit \/ Crash
  <2>1. io'["app"] = Idle /\ life' = "down"
    BY <1>1, <1>7, LoseMemorySaveInv DEF Exit, Crash, EndProcess
  <2> QED BY <2>1, StateTypes DEF SaveInOrder, Saving
<1> QED BY <1>2, <1>3, <1>4, <1>5, <1>6, <1>7 DEF Next, NetStep

-----------------------------------------------------------------------------
(* The theorems. *)

\* The standalone program starts in the invariant.
LEMMA InitInvariant == Init => IInv
<1> SUFFICES ASSUME Init PROVE IInv
  OBVIOUS
<1>1. \A w \in Writers : ~Saving(w)
  BY StateTypes DEF Init, InitStateFile, Saving
<1>2. SaveInv /\ SavingNow = {}
  BY <1>1, InitSaveInv DEF Init, SavingNow
<1>3. MaxStarts \in Nat /\ NoData \in Snapshot
  BY OneWriter, StateTypes
<1>4. life = "down" /\ link = "none" /\ starts \in 0 .. MaxStarts /\ atSignal \in Snapshot
  BY <1>3 DEF Init
<1>5. AppTypes
  BY <1>4 DEF Init, AppTypes
<1>6. SaveInOrder
  BY <1>1, <1>4, OneWriter DEF SaveInOrder
<1> QED BY <1>2, <1>4, <1>5, <1>6 DEF IInv, Base

\* The invariant holds in every reachable state.
THEOREM Invariance == Spec => []IInv
<1>1. Init => IInv
  BY InitInvariant
<1>2. IInv /\ [Next]_vars => IInv'
  BY BaseStep, SaveInOrderStep DEF IInv
<1> QED BY <1>1, <1>2, PTL DEF Spec

\* Every variable of the standalone program has its type.
THEOREM TypeCorrect == Spec => []TypeOK
<1>1. IInv => TypeOK
  BY DEF IInv, Base, SaveInv, AppTypes, TypeOK
<1> QED BY <1>1, Invariance, PTL

\* Shutdown leaves in the file what was received before the signal, unless the
\* write failed.
THEOREM SignalSaves == Spec => []SavedUpToSignal
<1>1. IInv => SavedUpToSignal
  BY DEF IInv, SaveInOrder, FileSinceSignal, SavedUpToSignal
<1> QED BY <1>1, Invariance, PTL

-----------------------------------------------------------------------------
(* The standalone program implements DurableStore. *)

\* The store's values are the state file's.
LEMMA StoreNames ==
  /\ Store!Blank = NoData /\ Store!Data = Snapshot /\ Store!Nothing = Nothing
  /\ \A d : Store!Holding(d) = Holding(d)
BY DEF Store!Blank, NoData, Store!Data, Snapshot, Store!Nothing, Nothing,
   Store!Holding, Holding

\* The first process finds nothing.
LEMMA InitStore == Init => Store!Init
<1> SUFFICES ASSUME Init PROVE Store!Init
  OBVIOUS
<1>1. OnDisk = NoData
  BY StateTypes DEF Init, InitStateFile, NoSeries, NoData, OnDisk
<1>2. Content = Nothing
  BY FileKinds DEF Init, InitStateFile, Content, Nothing
<1>3. SavingNow = {} /\ SinceOf = [w \in Writers |-> NoData]
  BY StateTypes DEF Init, InitStateFile, SavingNow, SinceOf, Saving
<1> QED BY <1>1, <1>2, <1>3, StoreNames DEF Init, Store!Init, SavingNow, SinceOf

\* Every step of the program is a step of the store, or not seen by it.
LEMMA NextStore == IInv /\ [Next]_vars => [Store!Next]_(Store!vars)
<1> SUFFICES ASSUME IInv, [Next]_vars PROVE Store!Next \/ UNCHANGED Store!vars
  OBVIOUS
<1> DEFINE up == life # "down"
<1>1. SaveInv /\ Base
  BY DEF IInv, Base
<1>2. UNCHANGED <<up, OnDisk, Content, SavingNow, SinceOf>> => UNCHANGED Store!vars
  BY DEF Store!vars, SavingNow, SinceOf
<1>3. CASE NewApp
  <2>1. /\ ~up /\ up' /\ Content' = Content /\ SavingNow' = SavingNow /\ SinceOf' = SinceOf
        /\ OnDisk' = IF file.kind = "snapshot" THEN file.data ELSE NoData
    BY <1>1, <1>3, LoadSaveInv, StoreStays DEF NewApp, Base
  <2>2. OnDisk' = IF Content.kind = "snapshot" THEN Content.data ELSE NoData
    BY <2>1, ContentKinds
  <2>3. Store!Start
    BY <2>1, <2>2, StoreNames DEF Store!Start, SavingNow, SinceOf
  <2> QED BY <2>3 DEF Store!Next
<1>4. CASE MessageHandler
  <2>1. up /\ UNCHANGED up /\ \E written : Absorb(written)
    BY <1>1, <1>4 DEF MessageHandler, appVars, Base
  <2>2. /\ OnDisk' \in Snapshot /\ \A s \in Saved : OnDisk[s] <= OnDisk'[s]
        /\ UNCHANGED <<Content, SavingNow, SinceOf>>
    BY <1>1, <2>1, AbsorbStore
  <2>3. Store!Learn
    BY <2>1, <2>2, StoreNames DEF Store!Learn, Store!NoOlder, SavingNow, SinceOf
  <2> QED BY <2>3 DEF Store!Next
<1>5. CASE Shutdown
  <2>1. "app" \in Writers /\ BeginSave("app") /\ up /\ UNCHANGED up
    BY <1>5, OneWriter DEF Shutdown
  <2>2. /\ "app" \notin SavingNow /\ SavingNow' = SavingNow \cup {"app"}
        /\ SinceOf' = [SinceOf EXCEPT !["app"] = OnDisk]
        /\ OnDisk' = OnDisk /\ Content' = Content
    BY <1>1, <2>1, BeginSaveInv, StoreStays
  <2>3. Store!Begin("app")
    BY <2>1, <2>2, StoreNames DEF Store!Begin, SavingNow, SinceOf
  <2> QED BY <2>1, <2>3 DEF Store!Next
<1>6. CASE \E w \in Writers : Save(w) \/ SaveFails(w)
  <2>1. PICK w \in Writers : (SaveStep(w) \/ SaveFailure(w)) /\ UNCHANGED up
    BY <1>6 DEF Save, SaveFails, appVars
  <2>2. CASE UNCHANGED <<OnDisk, Content, SavingNow, SinceOf>>
    BY <1>2, <2>1, <2>2
  <2>3. CASE OnDisk' = OnDisk /\ DamageStep(w)
    <3>1. Store!Damage(w)
      BY <2>1, <2>3, StoreNames DEF DamageStep, Store!Damage, SavingNow, SinceOf
    <3> QED BY <3>1 DEF Store!Next
  <2>4. CASE OnDisk' = OnDisk /\ FinishStep(w)
    <3>1. Store!Finish(w)
      BY <2>1, <2>4, StoreNames DEF FinishStep, Store!Finish, Store!NoOlder, SavingNow, SinceOf
    <3> QED BY <3>1 DEF Store!Next
  <2> QED BY <1>1, <2>1, <2>2, <2>3, <2>4, SaveStepStore
<1>7. CASE Exit \/ Crash
  <2>1. up /\ ~up' /\ LoseMemory
    BY <1>7 DEF Exit, Crash, EndProcess
  <2>2. /\ OnDisk' = NoData /\ SavingNow' = {} /\ SinceOf' = [w \in Writers |-> NoData]
        /\ Content' = Content
    BY <1>1, <2>1, LoseMemorySaveInv, StoreStays
  <2>3. Store!End
    BY <2>1, <2>2, StoreNames DEF Store!End, SavingNow, SinceOf
  <2> QED BY <2>3 DEF Store!Next
<1>8. CASE NetStep
  BY <1>2, <1>8, NetSteps, StoreStays DEF stateVars
<1> QED BY <1>3, <1>4, <1>5, <1>6, <1>7, <1>8 DEF Next, NetStep

\* Although messages arrive until the end and the save may fail or be cut off,
\* the store describes the standalone program.
THEOREM Implementation == Spec => ImplementsStore
<1>1. Init => Store!Init
  BY InitStore
<1>2. IInv /\ [Next]_vars => [Store!Next]_(Store!vars)
  BY NextStore
<1> QED BY <1>1, <1>2, Invariance, PTL DEF Spec, ImplementsStore, Store!Spec
-----------------------------------------------------------------------------
(* What must happen. *)

\* What the proofs take from fairness, since they cannot look into ENABLED: a
\* process whose guard holds for ever takes its step again and again.  As the
\* guards below enable their steps, it follows from weak fairness of the steps.
Runs(guard, step) == []<>~guard \/ []<><<step>>_vars

\* The fairness of Shutdown with the guards written out, and what it gives for
\* Save: a SaveState returns, as each of its steps leaves less of it.
SaveReturns  == []<>~Saving("app")
ShutdownRuns ==
  /\ Runs(life = "saving" /\ ~Saving("app"), ShutdownServer)
  /\ Runs(life = "closing", Disconnect)

\* The onConnect callback of a connection that stays gets to topic t.
CallbackRuns(t) == Runs(link = "up" /\ t \in onConnect, Subscribe(t) \/ SubscribeFails(t))

\* Once Shutdown is past its save, the HTTP server is down.
ServerIsDown == life \in {"closing", "done"} => ~server

\* None is started after a signal.
LEMMA ServerStaysDown == ServerIsDown /\ [Next]_vars => ServerIsDown'
BY DEF ServerIsDown, Next, NewApp, Connect, ConnectFails, StartServer, Subscribe, SubscribeFails,
   ConnectionLost, Reconnect, MessageHandler, Shutdown, Save, SaveFails, ContextDone, ShutdownServer,
   Disconnect, Exit, Crash, EndProcess, vars, appVars

\* From the signal on, Shutdown goes forward, and its save starts only once.
LEMMA ShutdownGoesOn ==
  ASSUME IInv, [Next]_vars
  PROVE  /\ life = "saving" => life' \in {"saving", "closing", "down"}
         /\ life = "saving" /\ ~Saving("app") /\ life' = "saving" => ~Saving("app")'
         /\ life = "closing" => life' \in {"closing", "done", "down"}
<1>1. Writers = {"app"} /\ SaveInv
  BY OneWriter DEF IInv, Base
<1>2. CASE \E w \in Writers : Save(w) \/ SaveFails(w)
  <2>1. life' = life /\ (SaveStep("app") \/ SaveFailure("app"))
    BY <1>1, <1>2 DEF Save, SaveFails, appVars
  <2>2. Saving("app")
    BY <1>1, <2>1, GatherSaveInv, QuietEndSaveInv, TruncateSaveInv, WriteSaveInv, FailureSaveInv
       DEF SaveStep
  <2> QED BY <2>1, <2>2
<1>3. CASE NetStep
  <2>1. Saving("app")' <=> Saving("app")
    BY <1>3, NetSteps DEF stateVars, Saving
  <2> QED BY <1>3, <2>1 DEF NetStep, Connect, ConnectFails, StartServer, ConnectionLost, Reconnect,
        Subscribe, SubscribeFails, ContextDone, ShutdownServer, Disconnect, vars, appVars
<1>4. CASE MessageHandler
  BY <1>4 DEF MessageHandler, Absorb, appVars, Saving
<1>5. CASE NewApp \/ Shutdown \/ Exit \/ Crash
  BY <1>5 DEF NewApp, Shutdown, Exit, Crash, EndProcess
<1> QED BY <1>2, <1>3, <1>4, <1>5 DEF Next, NetStep

\* Shutdown returns after a signal, unless the process ends first, with the
\* server down and the connection given up, provided that SaveState ends.
THEOREM ShutdownReturns == Spec /\ SaveReturns /\ ShutdownRuns => ShutdownCompletes
<1> DEFINE Returned == life = "done" /\ ~server /\ link = "none" /\ subscribed = {}
           In(x)    == life = x
<1>1. Init => ServerIsDown
  BY DEF Init, ServerIsDown
<1>2. IInv /\ [Next]_vars /\ In("saving") => In("saving")' \/ In("closing")' \/ In("down")'
  BY ShutdownGoesOn
<1>3. IInv /\ [Next]_vars /\ (In("saving") /\ ~Saving("app")) =>
        (In("saving") /\ ~Saving("app"))' \/ In("closing")' \/ In("down")'
  BY ShutdownGoesOn
<1>4. <<ShutdownServer>>_vars => In("closing")'
  BY DEF ShutdownServer
<1>5. ServerIsDown /\ In("closing") /\ [Next]_vars /\ IInv =>
        In("closing")' \/ Returned' \/ In("down")'
  <2> SUFFICES ASSUME ServerIsDown, In("closing"), [Next]_vars, IInv, ~In("closing")', ~In("down")'
               PROVE  Returned'
    OBVIOUS
  <2>1. life' = "done"
    BY ShutdownGoesOn
  <2>2. Disconnect
    BY <2>1 DEF Next, NewApp, Connect, ConnectFails, StartServer, Subscribe, SubscribeFails,
       ConnectionLost, Reconnect, MessageHandler, Shutdown, Save, SaveFails, ContextDone,
       ShutdownServer, Exit, Crash, EndProcess, vars, appVars
  <2> QED BY <2>1, <2>2 DEF Disconnect, ServerIsDown
<1>6. <<Disconnect>>_vars => ~In("closing")'
  BY DEF Disconnect
<1>7. Spec /\ SaveReturns /\ ShutdownRuns => (In("saving") ~> (Returned \/ In("down")))
  <2> HIDE DEF In, Returned
  <2>1. In("saving") <=> life = "saving"
    BY DEF In
  <2>2. In("closing") <=> life = "closing"
    BY DEF In
  <2> QED BY <1>1, <1>2, <1>3, <1>4, <1>5, <1>6, <2>1, <2>2, ServerStaysDown, Invariance, PTL
        DEF Spec, SaveReturns, ShutdownRuns, Runs
<1>8. /\ In("saving") <=> life = "saving"
      /\ Returned \/ In("down") <=>
           \/ life = "done" /\ ~server /\ link = "none" /\ subscribed = {}
           \/ life = "down"
  OBVIOUS
<1> QED BY <1>7, <1>8, PTL DEF ShutdownCompletes

-----------------------------------------------------------------------------
(* The subscriptions. *)

\* On a connection every topic is yet to be tried, subscribed to, or refused,
\* and only one of these.
TopicsInOrder ==
  link = "up" =>
    /\ Topics = onConnect \cup subscribed \cup refused
    /\ onConnect \cap subscribed = {}
    /\ onConnect \cap refused = {}
    /\ subscribed \cap refused = {}

\* No step forgets a topic or counts it twice.
LEMMA TopicsStayInOrder == Base /\ TopicsInOrder /\ [Next]_vars => TopicsInOrder'
<1> SUFFICES ASSUME Base, TopicsInOrder, [Next]_vars PROVE TopicsInOrder'
  OBVIOUS
<1> USE DEF TopicsInOrder
<1>1. CASE Connect \/ Reconnect
  BY <1>1 DEF Connect, Reconnect, LinkUp
<1>2. CASE \E t \in Topics : Subscribe(t) \/ SubscribeFails(t)
  BY <1>2 DEF Subscribe, SubscribeFails, history
<1>3. CASE ConnectionLost \/ Disconnect \/ Exit \/ Crash
  BY <1>3 DEF ConnectionLost, Disconnect, Exit, Crash, EndProcess
<1>4. CASE NewApp \/ ConnectFails \/ StartServer \/ MessageHandler \/ Shutdown \/ ContextDone
             \/ ShutdownServer \/ (\E w \in Writers : Save(w) \/ SaveFails(w)) \/ UNCHANGED vars
  BY <1>4 DEF NewApp, ConnectFails, StartServer, MessageHandler, Shutdown, ContextDone, ShutdownServer,
     Save, SaveFails, vars, netVars, history
<1> QED BY <1>1, <1>2, <1>3, <1>4 DEF Next

\* This holds in every reachable state.
LEMMA TopicsInvariance == Spec => []TopicsInOrder
<1>1. Init => TopicsInOrder
  BY DEF Init, TopicsInOrder
<1>2. IInv /\ TopicsInOrder /\ [Next]_vars => TopicsInOrder'
  BY TopicsStayInOrder DEF IInv
<1> QED BY <1>1, <1>2, Invariance, PTL DEF Spec

\* When the callback of a connection is through, every topic is subscribed to
\* but those that were refused, however often the connection was lost before.
THEOREM NoTopicIsForgotten ==
  Spec => [](link = "up" /\ onConnect = {} => subscribed = Topics \ refused)
<1>1. TopicsInOrder => (link = "up" /\ onConnect = {} => subscribed = Topics \ refused)
  BY DEF TopicsInOrder
<1> QED BY <1>1, TopicsInvariance, PTL

\* Every connection gets to every topic, whichever subscriptions fail: it ends
\* up subscribed to or refused, unless the connection is lost before.
THEOREM EveryTopicIsTried ==
  ASSUME NEW t \in Topics
  PROVE  Spec /\ CallbackRuns(t) =>
           (link = "up" ~> (link # "up" \/ (t \notin onConnect /\ t \in subscribed \cup refused)))
<1> DEFINE Up    == link = "up"
           Yet   == t \in onConnect
           Tried == t \notin onConnect /\ t \in subscribed \cup refused
<1>1. TopicsInOrder /\ Up /\ ~Yet => Tried
  BY DEF TopicsInOrder
<1>2. <<Subscribe(t) \/ SubscribeFails(t)>>_vars => ~Yet'
  BY DEF Subscribe, SubscribeFails
<1>3. /\ Up <=> link = "up"
      /\ ~Up <=> link # "up"
      /\ Yet <=> t \in onConnect
  OBVIOUS
<1>4. Spec /\ CallbackRuns(t) => (Up ~> (~Up \/ Tried))
  <2> HIDE DEF Up, Yet, Tried
  <2> QED BY <1>1, <1>2, <1>3, TopicsInvariance, PTL DEF CallbackRuns, Runs
<1>5. ~Up \/ Tried <=> link # "up" \/ (t \notin onConnect /\ t \in subscribed \cup refused)
  OBVIOUS
<1> QED BY <1>3, <1>4, <1>5, PTL
=============================================================================
