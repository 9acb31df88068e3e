---------------------------- MODULE HookLifecycle ----------------------------
(***************************************************************************)
(* The embedded program: a process that builds the broker and its          *)
(* Meshtastic hook (cmd/embedded-hook/main.go, pkg/hooks/meshtastic.go,    *)
(* pkg/factory/factory.go), with the hook's HTTP server, its goroutine     *)
(* that saves the state periodically, and the final save of OnStopped.     *)
(* The process may be killed and started again at any time.                *)
(***************************************************************************)
EXTENDS StateFile

CONSTANTS
  MaxStarts,   \* bound on the processes started
  Reinit       \* whether a stopped hook is initialised again

\* Goroutines of startStateSaver: one for each Init whose saver still runs.  Their
\* number is a bound of the model.
Savers == Writers \ {"stopper"}

ASSUME LifecycleAssumption ==
  /\ {"saver", "stopper"} \subseteq Writers
  /\ MaxStarts \in Nat
  /\ Reinit \in BOOLEAN

VARIABLES
  life,      \* where the process is: see TypeOK
  starts,    \* processes started so far
  server,    \* the hook's HTTP server is up
  saver,     \* where each goroutine of startStateSaver is
  stopSave,  \* the stopSave channel is closed
  stopped,   \* MeshtasticHook.stopped
  \* History, for the properties only.
  loaded,    \* the newest value of each series that a process has loaded
  atStop,    \* the series a save would have written when OnStopped was called
  overlap,   \* a saver has been saving after OnStopped was called
  failed,    \* the final save of this process has failed
  whole      \* since the last complete write of the file, no other write has
             \* failed, overlapped it, or been cut off by the end of a process

hookVars == <<life, starts, server, saver, stopSave, stopped>>
history  == <<loaded, atStop, overlap, failed, whole>>
vars     == <<stateVars, hookVars, history>>

Newer(a, b) == IF a > b THEN a ELSE b

Init ==
  /\ InitStateFile
  /\ life = "down"
  /\ starts = 0
  /\ server = FALSE
  /\ saver = [s \in Savers |-> "none"]
  /\ stopSave = FALSE
  /\ stopped = FALSE
  /\ loaded = NoData
  /\ atStop = NoData
  /\ overlap = FALSE
  /\ failed = FALSE
  /\ whole = FALSE

\* NewMeshtasticHookWithMQTT: the factory builds the collector and loads the
\* state file.
Construct ==
  /\ life = "down"
  /\ starts < MaxStarts
  /\ LoadState
  /\ life' = "built"
  /\ starts' = starts + 1
  /\ stopSave' = FALSE
  /\ stopped' = FALSE
  /\ loaded' = [s \in Saved |-> Newer(loaded[s], mem'[s])]
  /\ UNCHANGED <<server, saver, atStop, overlap, failed, whole>>

\* A hook just built, or one that is initialised again after Shutdown, be its
\* former saver still at work or not.
MayInit ==
  \/ life = "built"
  \/ Reinit /\ life = "stopped" /\ \E s \in Savers : saver[s] # "running"

\* The saver that Init starts.
NewSaver == IF life = "built" THEN "saver" ELSE CHOOSE s \in Savers : saver[s] # "running"

\* Bug: no saver is started.
InitHookWithoutSaver ==
  /\ MayInit
  /\ server' \in BOOLEAN
  /\ file' = IF file = Missing THEN Unreadable ELSE file
  /\ life' = "hooked"
  /\ UNCHANGED <<mem, received, io, starts, saver, stopSave, stopped, history>>

\* Bug: checkFileWritable empties the file.
InitHookTruncating ==
  /\ MayInit
  /\ server' \in BOOLEAN
  /\ file' = Unreadable
  /\ saver' = [saver EXCEPT ![NewSaver] = "running"]
  /\ life' = "hooked"
  /\ UNCHANGED <<mem, received, io, starts, stopSave, stopped, history>>

\* Init succeeds.  The server's listener may still fail, which is only logged;
\* checkFileWritable creates the file when it is missing.
InitHook ==
  /\ MayInit
  /\ server' \in BOOLEAN
  /\ file' = IF file = Missing THEN Unreadable ELSE file
  /\ saver' = [saver EXCEPT ![NewSaver] = "running"]
  /\ life' = "hooked"
  /\ UNCHANGED <<mem, received, io, starts, stopSave, stopped, history>>

\* Init fails on a state file that cannot be opened, after the server has been
\* started: AddHook returns the error, and main ends the process.
InitFails ==
  /\ MayInit
  /\ server' \in BOOLEAN
  /\ life' = "failed"
  /\ UNCHANGED <<stateVars, starts, saver, stopSave, stopped, history>>

\* addAuthHook, addListener and startServer: clients may connect.
StartListeners ==
  /\ life = "hooked"
  /\ life' = "serving"
  /\ UNCHANGED <<stateVars, starts, server, saver, stopSave, stopped, history>>

\* A port is taken or the certificate missing: main ends the process at once,
\* without OnStopped.
ListenFails ==
  /\ life = "hooked"
  /\ life' = "failed"
  /\ UNCHANGED <<stateVars, starts, server, saver, stopSave, stopped, history>>

\* OnPublish of a message that the processor accepts.
OnPublish ==
  /\ life = "serving"
  /\ Absorb(Touched) \/ Absorb(Series)
  /\ UNCHANGED <<hookVars, history>>

\* An alert that the webhook publishes passes the hook as well, as a message of
\* the alerts' sender, as long as the HTTP server is up: before the broker has
\* listeners, after it has closed them, and while OnStopped saves.
AlertEcho ==
  /\ life \in {"hooked", "stopping"}
  /\ server
  /\ Absorb(Touched)
  /\ UNCHANGED <<hookVars, history>>

\* The ticker fires in a saver's select, which may win against stopSave.
SaverTick(s) ==
  /\ saver[s] = "running"
  /\ BeginSave(s)
  /\ overlap' = (overlap \/ stopSave)
  /\ UNCHANGED <<hookVars, loaded, atStop, failed, whole>>

\* A saver's select sees that stopSave is closed.
SaverExit(s) ==
  /\ saver[s] = "running"
  /\ ~Saving(s)
  /\ stopSave
  /\ saver' = [saver EXCEPT ![s] = "exited"]
  /\ UNCHANGED <<stateVars, life, starts, server, stopSave, stopped, history>>

\* Bug: stopSave is not closed.
OnStoppedSilently ==
  /\ life = "serving"
  /\ ~stopped
  /\ stopped' = TRUE
  /\ life' = "stopping"
  /\ BeginSave("stopper")
  /\ atStop' = OnDisk
  /\ overlap' = (overlap \/ \E s \in Savers : Saving(s))
  /\ UNCHANGED <<starts, server, saver, stopSave, loaded, failed, whole>>

\* server.Close: the listeners are closed and their clients waited for, then
\* OnStopped closes stopSave and calls SaveState.
OnStopped ==
  /\ life = "serving"
  /\ ~stopped
  /\ stopped' = TRUE
  /\ stopSave' = TRUE
  /\ life' = "stopping"
  /\ BeginSave("stopper")
  /\ atStop' = OnDisk
  /\ overlap' = (overlap \/ \E s \in Savers : Saving(s))
  /\ UNCHANGED <<starts, server, saver, loaded, failed, whole>>

\* OnStopped of a hook that has been stopped before returns at once.
OnStoppedAgain ==
  /\ life = "serving"
  /\ stopped
  /\ life' = "stopped"
  /\ UNCHANGED <<stateVars, starts, server, saver, stopSave, stopped, history>>

\* Bug: the final save is left to a goroutine.
ShutdownServerAtOnce ==
  /\ life = "stopping"
  /\ server' = FALSE
  /\ life' = "stopped"
  /\ UNCHANGED <<stateVars, starts, saver, stopSave, stopped, history>>

\* The final save is over, and the HTTP server is shut down.
ShutdownServer ==
  /\ life = "stopping"
  /\ ~Saving("stopper")
  /\ server' = FALSE
  /\ life' = "stopped"
  /\ UNCHANGED <<stateVars, starts, saver, stopSave, stopped, history>>

\* One step of a SaveState.
Save(w) ==
  /\ SaveStep(w)
  /\ whole' = IF io[w].pc = "write" THEN io[w].clean ELSE whole
  /\ UNCHANGED <<hookVars, loaded, atStop, overlap, failed>>

\* It returns an error.
SaveFails(w) ==
  /\ SaveFailure(w)
  /\ failed' = (failed \/ w = "stopper")
  /\ whole' = (whole /\ io[w].pc = "gather")
  /\ UNCHANGED <<hookVars, loaded, atStop, overlap>>

\* Bug: main leaves the saves to a process that outlives it.
EndProcessSavesOn ==
  /\ mem' = NoSeries
  /\ UNCHANGED <<received, file, io>>
  /\ life' = "down"
  /\ server' = FALSE
  /\ saver' = [s \in Savers |-> "none"]
  /\ stopSave' = FALSE
  /\ stopped' = FALSE
  /\ atStop' = NoData
  /\ overlap' = FALSE
  /\ failed' = FALSE
  /\ UNCHANGED <<starts, loaded, whole>>

\* The process ends: main returns, Fatal exits, or the process is killed.
EndProcess ==
  /\ LoseMemory
  /\ life' = "down"
  /\ server' = FALSE
  /\ saver' = [s \in Savers |-> "none"]
  /\ stopSave' = FALSE
  /\ stopped' = FALSE
  /\ atStop' = NoData
  /\ overlap' = FALSE
  /\ failed' = FALSE
  /\ whole' = (whole /\ ~WriteInProgress)
  /\ UNCHANGED <<starts, loaded>>

Exit  == life \in {"stopped", "failed"} /\ EndProcess
Crash == life \in {"built", "hooked", "serving", "stopping"} /\ EndProcess

Next ==
  \/ Construct
  \/ InitHook
  \/ InitFails
  \/ StartListeners
  \/ ListenFails
  \/ OnPublish
  \/ AlertEcho
  \/ \E s \in Savers : SaverTick(s)
  \/ \E s \in Savers : SaverExit(s)
  \/ OnStopped
  \/ OnStoppedAgain
  \/ ShutdownServer
  \/ \E w \in Writers : Save(w)
  \/ \E w \in Writers : SaveFails(w)
  \/ Exit
  \/ Crash

\* SaveState runs to its end and OnStopped goes on after it.  The ticker fires
\* every 5 minutes; in between the saver's select finds it empty, and it picks
\* at random when both channels are ready: strong fairness of its exit.
Fairness ==
  /\ \A w \in Writers : WF_vars(Save(w))
  /\ WF_vars(ShutdownServer)
  /\ \A s \in Savers : WF_vars(SaverTick(s)) /\ SF_vars(SaverExit(s))

Spec     == Init /\ [][Next]_vars
FairSpec == Spec /\ Fairness

-----------------------------------------------------------------------------
(* Properties. *)

\* Every variable has its type.
TypeOK ==
  /\ TypeOKStateFile
  /\ life \in {"down", "built", "hooked", "serving", "failed", "stopping", "stopped"}
  /\ starts \in 0 .. MaxStarts
  /\ server \in BOOLEAN
  /\ saver \in [Savers -> {"none", "running", "exited"}]
  /\ stopSave \in BOOLEAN
  /\ stopped \in BOOLEAN
  /\ loaded \in Snapshot
  /\ atStop \in Snapshot
  /\ overlap \in BOOLEAN
  /\ failed \in BOOLEAN
  /\ whole \in BOOLEAN

\* A process's first OnStopped leaves the whole registry in the file, whatever
\* earlier processes did to it, unless a saver was still at work or the save
\* failed: nothing received before Close is missing, and only echoes of alerts may
\* be newer.  A hook that is initialised again saves nothing in its later OnStopped:
\* what it receives from then on need not be in the file, and nothing is said of it.
CleanStopSavesAll ==
  life = "stopped" /\ ~overlap /\ ~failed /\ atStop # NoData =>
    /\ file.kind = "snapshot"
    /\ \A s \in Saved : file.data[s] \in atStop[s] .. mem[s]
    /\ \A s \in Saved \ Touched : file.data[s] = atStop[s]

\* A state that was saved completely stays readable: it can only be lost to a
\* write that fails, overlaps another or is cut off, and never to Init, to a
\* restart, or to a process that has nothing to save.
SavedStateSurvives ==
  whole /\ ~WriteInProgress => file.kind = "snapshot"

\* A restart never moves a series back: whatever crashes, failures and
\* overlapping saves came before, what is loaded is at least as new as what
\* was loaded earlier, or the series is lost.
NoRollback ==
  [][life = "down" /\ life' = "built" =>
       \A s \in Saved : mem'[s] = 0 \/ mem'[s] >= loaded[s]]_vars

\* After OnStopped is called it returns and every saver ends, one that Init starts
\* again included, unless the process ends first.
StopCompletes ==
  /\ (life = "stopping") ~> (life \in {"stopped", "down"})
  /\ \A s \in Savers : stopped ~> saver[s] # "running"

\* While the program serves, the file catches up with the registry again and
\* again, without a stop: unless messages never pause, the saves keep failing,
\* or the hook has been stopped before (Reinit), which leaves it without a saver.
FileCatchesUp ==
  \/ []<>(life # "serving" \/ stopped)
  \/ []<>(OnDisk = NoData \/ file = Holding(OnDisk))
  \/ []<><<received' # received \/ \E w \in Writers : SaveFails(w)>>_vars

\* The embedded program as a store of metrics, which forgets the system calls,
\* the goroutines and the lifecycle of the hook.
Store == INSTANCE DurableStore WITH
  Keys   <- Saved,
  Values <- Version,
  Savers <- Writers,
  up     <- life # "down",
  live   <- OnDisk,
  disk   <- Content,
  saving <- {w \in Writers : Saving(w)},
  since  <- [w \in Writers |-> io[w].since]

\* However saver, final save, failures and kills interleave, a file is only ever
\* replaced by what was live during the save, and a process starts with it.
ImplementsStore == Store!Spec

-----------------------------------------------------------------------------
(* What the documentation and the tests say. *)

\* Metrics are saved when the program ends: after OnStopped the file holds
\* what was received before, if the final write did not fail.
StopSavesLatest ==
  life = "stopped" /\ ~failed /\ atStop # NoData =>
    file.kind = "snapshot" /\ \A s \in Saved : file.data[s] >= atStop[s]

\* Metrics are restored after a restart: once a process has found a saved
\* state, no later one starts empty.
RestartRestores ==
  [][life = "down" /\ life' = "built" /\ loaded # NoData => mem' # NoSeries]_vars
=============================================================================
