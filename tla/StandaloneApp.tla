---------------------------- MODULE StandaloneApp ----------------------------
(***************************************************************************)
(* The standalone program (pkg/standalone/app.go): a client of an existing *)
(* broker (pkg/infrastructure/mqtt_client.go), an HTTP server, and one     *)
(* save of the state when it is shut down.  The broker connection is the   *)
(* paho client's, used with automatic reconnection and clean sessions.     *)
(***************************************************************************)
EXTENDS StateFile

CONSTANTS
  Topics,    \* the topics of the configuration
  MaxStarts  \* bound on the processes started

ASSUME StandaloneAssumption ==
  /\ Writers = {"app"}
  /\ MaxStarts \in Nat

VARIABLES
  life,        \* where App.Run and App.Shutdown are: see TypeOK
  starts,      \* processes started so far
  server,      \* the HTTP server is up
  link,        \* the paho client: "none", "up", or "reconnecting"
  subscribed,  \* the topics the broker delivers
  onConnect,   \* the topics the running onConnect callback has yet to try
  \* History, for the properties only.
  refused,     \* the topics whose subscription failed on this connection
  failed,      \* the save of this process has failed
  atSignal     \* the series a save would have written when Shutdown was called

appVars == <<life, starts, server>>
netVars == <<link, subscribed, onConnect>>
history == <<refused, failed, atSignal>>
vars    == <<stateVars, appVars, netVars, history>>

Init ==
  /\ InitStateFile
  /\ life = "down"
  /\ starts = 0
  /\ server = FALSE
  /\ link = "none"
  /\ subscribed = {}
  /\ onConnect = {}
  /\ refused = {}
  /\ failed = FALSE
  /\ atSignal = NoData

\* NewApp: the factory builds the collector and loads the state file.
NewApp ==
  /\ life = "down"
  /\ starts < MaxStarts
  /\ LoadState
  /\ life' = "connecting"
  /\ starts' = starts + 1
  /\ UNCHANGED <<server, netVars, history>>

\* Bug: the subscriptions are left to the broker's session.
LinkUpUnsubscribed ==
  /\ link' = "up"
  /\ onConnect' = IF link = "none" THEN Topics ELSE {}
  /\ subscribed' = {}
  /\ refused' = {}

\* The link is up: paho runs the onConnect callback, which subscribes to the
\* topics one after the other.
LinkUp ==
  /\ link' = "up"
  /\ onConnect' = Topics
  /\ subscribed' = {}
  /\ refused' = {}

\* MQTTClient.Connect succeeds.
Connect ==
  /\ life = "connecting"
  /\ LinkUp
  /\ life' = "connected"
  /\ UNCHANGED <<stateVars, starts, server, failed, atSignal>>

\* It fails: Run returns the error, and main ends the process.
ConnectFails ==
  /\ life = "connecting"
  /\ life' = "failed"
  /\ UNCHANGED <<stateVars, starts, server, netVars, history>>

\* The HTTP server is started.  Its listener may fail, which is only logged.
StartServer ==
  /\ life = "connected"
  /\ server' \in BOOLEAN
  /\ life' = "serving"
  /\ UNCHANGED <<stateVars, starts, netVars, history>>

Subscribe(t) ==
  /\ link = "up"
  /\ t \in onConnect
  /\ onConnect' = onConnect \ {t}
  /\ subscribed' = subscribed \cup {t}
  /\ UNCHANGED <<stateVars, appVars, link, history>>

\* A failed subscription is logged and never tried again on this connection.
SubscribeFails(t) ==
  /\ t \in onConnect
  /\ onConnect' = onConnect \ {t}
  /\ refused' = refused \cup {t}
  /\ UNCHANGED <<stateVars, appVars, link, subscribed, failed, atSignal>>

ConnectionLost ==
  /\ link = "up"
  /\ link' = "reconnecting"
  /\ subscribed' = {}
  /\ UNCHANGED <<stateVars, appVars, onConnect, history>>

\* Automatic reconnection runs onConnect again.  (A callback of the previous
\* connection fails fast, long before: its subscriptions find no connection.)
Reconnect ==
  /\ link = "reconnecting"
  /\ onConnect = {}
  /\ LinkUp
  /\ UNCHANGED <<stateVars, appVars, failed, atSignal>>

\* messageHandler: a message of a subscribed topic is processed.  The handler
\* is the client's, and works until the client is disconnected.
MessageHandler ==
  /\ link = "up"
  /\ subscribed # {}
  /\ Absorb(Touched) \/ Absorb(Series)
  /\ UNCHANGED <<appVars, netVars, history>>

\* A signal: Shutdown cancels the context, on which UnifiedServer.Start shuts
\* the HTTP server down, and calls SaveState.
Shutdown ==
  /\ life = "serving"
  /\ BeginSave("app")
  /\ life' = "saving"
  /\ atSignal' = OnDisk
  /\ UNCHANGED <<starts, server, netVars, refused, failed>>

Save(w) ==
  /\ SaveStep(w)
  /\ UNCHANGED <<appVars, netVars, history>>

SaveFails(w) ==
  /\ SaveFailure(w)
  /\ failed' = TRUE
  /\ UNCHANGED <<appVars, netVars, refused, atSignal>>

\* The goroutine of UnifiedServer.Start that waits for the context.
ContextDone ==
  /\ life \in {"saving", "closing"}
  /\ server
  /\ server' = FALSE
  /\ UNCHANGED <<stateVars, life, starts, netVars, history>>

\* Bug: SaveState is left to a goroutine.
ShutdownServerAtOnce ==
  /\ life = "saving"
  /\ server' = FALSE
  /\ life' = "closing"
  /\ UNCHANGED <<stateVars, starts, netVars, history>>

\* Shutdown goes on after SaveState, whether it succeeded or not.
ShutdownServer ==
  /\ life = "saving"
  /\ ~Saving("app")
  /\ server' = FALSE
  /\ life' = "closing"
  /\ UNCHANGED <<stateVars, starts, netVars, history>>

\* Bug: a client that is reconnecting is left alone.
DisconnectOpenOnly ==
  /\ life = "closing"
  /\ IF link = "up" THEN link' = "none" /\ subscribed' = {} ELSE UNCHANGED <<link, subscribed>>
  /\ life' = "done"
  /\ UNCHANGED <<stateVars, starts, server, onConnect, history>>

\* MQTTClient.Disconnect.  A client that is reconnecting counts as connected
\* and gives up too.
Disconnect ==
  /\ life = "closing"
  /\ link' = "none"
  /\ subscribed' = {}
  /\ life' = "done"
  /\ UNCHANGED <<stateVars, starts, server, onConnect, history>>

EndProcess ==
  /\ LoseMemory
  /\ life' = "down"
  /\ server' = FALSE
  /\ link' = "none"
  /\ subscribed' = {}
  /\ onConnect' = {}
  /\ refused' = {}
  /\ failed' = FALSE
  /\ atSignal' = NoData
  /\ UNCHANGED starts

Exit  == life \in {"done", "failed"} /\ EndProcess
Crash == life \in {"connecting", "connected", "serving", "saving", "closing"} /\ EndProcess

Next ==
  \/ NewApp
  \/ Connect
  \/ ConnectFails
  \/ StartServer
  \/ \E t \in Topics : Subscribe(t)
  \/ \E t \in Topics : SubscribeFails(t)
  \/ ConnectionLost
  \/ Reconnect
  \/ MessageHandler
  \/ Shutdown
  \/ \E w \in Writers : Save(w)
  \/ \E w \in Writers : SaveFails(w)
  \/ ContextDone
  \/ ShutdownServer
  \/ Disconnect
  \/ Exit
  \/ Crash

\* The program's own steps are taken; the signal, the broker and failures are
\* not forced.
Fairness ==
  /\ WF_vars(StartServer)
  /\ \A w \in Writers : WF_vars(Save(w))
  /\ WF_vars(ShutdownServer)
  /\ WF_vars(Disconnect)
  /\ \A t \in Topics : WF_vars(Subscribe(t) \/ SubscribeFails(t))

Spec     == Init /\ [][Next]_vars
FairSpec == Spec /\ Fairness

-----------------------------------------------------------------------------
(* Properties. *)

\* Every variable has its type.
TypeOK ==
  /\ TypeOKStateFile
  /\ life \in {"down", "connecting", "connected", "failed", "serving", "saving", "closing", "done"}
  /\ starts \in 0 .. MaxStarts
  /\ server \in BOOLEAN
  /\ link \in {"none", "up", "reconnecting"}
  /\ subscribed \in SUBSET Topics
  /\ onConnect \in SUBSET Topics
  /\ refused \in SUBSET Topics
  /\ failed \in BOOLEAN
  /\ atSignal \in Snapshot

\* Shutdown saves while messages still arrive: every series is in the file at
\* least as new as it was on the signal, and none newer than the registry.
SavedUpToSignal ==
  life \in {"closing", "done"} /\ ~failed /\ atSignal # NoData =>
    /\ file.kind = "snapshot"
    /\ \A s \in Saved : file.data[s] \in atSignal[s] .. mem[s]

\* After the signal Shutdown returns, unless the process ends first, with the
\* HTTP server down and no connection left that could come back.
ShutdownCompletes ==
  life = "saving" ~>
    \/ life = "done" /\ ~server /\ link = "none" /\ subscribed = {}
    \/ life = "down"

\* Every connection, also one that the client restored by itself, ends up with
\* every topic subscribed but those the broker refused on this connection.
EveryTopicSubscribed ==
  (link = "up") ~> (link # "up" \/ (onConnect = {} /\ subscribed = Topics \ refused))

\* The standalone program as a store of metrics, which forgets the broker, the
\* shutdown and the system calls.
Store == INSTANCE DurableStore WITH
  Keys   <- Saved,
  Values <- Version,
  Savers <- Writers,
  up     <- life # "down",
  live   <- OnDisk,
  disk   <- Content,
  saving <- {w \in Writers : Saving(w)},
  since  <- [w \in Writers |-> io[w].since]

\* A file is only ever replaced by what was live during the save, and a process
\* starts with it, although messages arrive until the end.
ImplementsStore == Store!Spec

-----------------------------------------------------------------------------
(* What the documentation says. *)

\* Metrics are saved when the program ends.
StopSavesLatest ==
  life = "done" /\ ~failed /\ OnDisk # NoData => file = Holding(OnDisk)
=============================================================================
