---------------------------- MODULE AlertDelivery ----------------------------
(***************************************************************************)
(* Alerts: Alertmanager posts a notification to the webhook                *)
(* (pkg/infrastructure/unified_server.go), whose handler routes each of    *)
(* its alerts by severity and has the alert sender publish it to the mesh: *)
(* LoRaAlertSender through the embedded broker (alerting.go) or            *)
(* StandaloneLoRaAlertSender through the paho client                       *)
(* (standalone_alerting.go).                                               *)
(*                                                                         *)
(* A request that gets no answer in time is posted again.  Its handler is  *)
(* not stopped by that, so that several handlers may publish at once.      *)
(* Meanwhile the program may be shut down: the embedded one closes its     *)
(* broker and then the webhook, the standalone one the webhook and then    *)
(* its connection.                                                         *)
(* Requests with another method or with a body that is no JSON are         *)
(* answered 405 and 400 and change nothing; they are left out.             *)
(***************************************************************************)
EXTENDS Integers, Sequences, FiniteSets

CONSTANTS
  Nodes,         \* mesh nodes
  NodeOf,        \* what parseNodeID makes of each spelling of a node id; a
                 \* node 0 is left out: as the sender it means none
  Payload,       \* the severities of a notification's alerts, in order
  Starts,        \* the programs' senders, "lora" (embedded) or "standalone",
                 \* with the alertmanager section of their configuration
  NoRoute,       \* a route absent from the file, or null: nil in the code
  NoNode,        \* no node id: what is absent or cannot be read as one
  MaxNotes,      \* bound on the notifications
  MaxRequests    \* bound on the requests, repeated ones included

Severities == {"critical", "warning", "info", "default"}
Modes      == {"", "broadcast", "direct", "mixed"}

Spellings == DOMAIN NodeOf

\* The broadcast id is a node id like any other, and may be configured as one.
Everyone == "broadcast"
Targets  == Nodes \cup {Everyone}

Written == [mode : Modes, target_nodes : Seq(Spellings), show_on_sender : BOOLEAN]

Files == [from_node_id : Spellings, routing : [Severities -> Written \cup {NoRoute}]]

ASSUME AlertAssumption ==
  /\ NodeOf \in [Spellings -> Targets \cup {NoNode}]
  /\ NoNode \notin Targets
  /\ Payload \in Seq(Severities)
  /\ Starts \subseteq {"lora", "standalone"} \X Files
  /\ NoRoute \notin Written
  /\ MaxNotes \in Nat /\ MaxRequests \in Nat

Notes    == 1 .. MaxNotes
Requests == 1 .. MaxRequests
Alerts   == DOMAIN Payload

VARIABLES
  sender,     \* the program's alert sender
  file,       \* the alertmanager section it was started with
  phase,      \* "serving", "stopping", or "gone" when the process has ended
  accepting,  \* the HTTP server takes requests
  connected,  \* the broker has its clients; IsConnected of the paho client
  note,       \* the notification Alertmanager is delivering, 0 at first
  request,    \* the requests and their handlers
  air,        \* what has been published to the downlink topic, in order
  \* History, for the properties only.
  trouble,    \* <<request, alert>> whose SendAlert failed or lost a message
  unheard,    \* those of which a message met the program's own closed broker
              \* or connection
  hurried     \* the HTTP server's shutdown did not wait for all requests

config  == <<sender, file>>
process == <<phase, accepting, connected>>
history == <<trouble, unheard, hurried>>
vars    == <<config, process, note, request, air, history>>

-----------------------------------------------------------------------------
(* The configuration. *)

\* A list of targets is a function on the places of the list that are taken.
NoTargets == [place \in {} |-> Everyone]

WithTarget(place, target, list) ==
  [k \in DOMAIN list \cup {place} |-> IF k = place THEN target ELSE list[k]]

Readable(spelling) == NodeOf[spelling] # NoNode

\* convertAlertRoute: targets that cannot be read are left out without a word.
\* The others keep the places they have in the file.
ConvertAlertRoute(route) ==
  LET written  == route.target_nodes
      readable == {i \in DOMAIN written : Readable(written[i])}
  IN  [mode |-> route.mode,
       targets |-> [i \in readable |-> NodeOf[written[i]]],
       next |-> Len(written) + 1,
       showOnSender |-> route.show_on_sender]

\* buildAlertManagerConfig.  The standalone program builds its server without
\* the alerting configuration.
Route(severity) == IF sender = "standalone" THEN NoRoute ELSE file.routing[severity]

\* FromNodeID, which is 0 when it is absent or cannot be read.
FromNode == IF sender = "standalone" THEN NoNode ELSE NodeOf[file.from_node_id]

-----------------------------------------------------------------------------
(* Routing. *)

\* applyRoutingConfig: the severity's route, or the default one.
RouteOf(severity) ==
  IF Route(severity) # NoRoute THEN Route(severity) ELSE Route("default")

\* Bug: the sender hears every alert that says so, whatever its mode.
ToAlertShowAlways(severity) ==
  LET route == ConvertAlertRoute(RouteOf(severity))
  IN  IF RouteOf(severity) = NoRoute THEN [mode |-> "", targets |-> NoTargets]
      ELSE IF route.showOnSender /\ FromNode # NoNode
      THEN [mode |-> "mixed", targets |-> WithTarget(route.next, FromNode, route.targets)]
      ELSE [mode |-> route.mode, targets |-> route.targets]

\* convertToAlert with applyRoutingConfig: the mode and targets of an alert.
ToAlert(severity) ==
  LET route == ConvertAlertRoute(RouteOf(severity))
  IN  IF RouteOf(severity) = NoRoute THEN [mode |-> "", targets |-> NoTargets]
      ELSE IF route.mode = "broadcast" /\ route.showOnSender /\ FromNode # NoNode
      THEN [mode |-> "mixed", targets |-> WithTarget(route.next, FromNode, route.targets)]
      ELSE [mode |-> route.mode, targets |-> route.targets]

\* SendAlert: what is published, in the order of the places.  (Neither program
\* configures target nodes of the sender itself.)
Plan(alert) ==
  CASE alert.mode \in {"", "broadcast"} -> WithTarget(0, Everyone, NoTargets)
    [] alert.mode = "mixed"             -> WithTarget(0, Everyone, alert.targets)
    [] OTHER                            -> alert.targets

-----------------------------------------------------------------------------
(* Requests. *)

\* Nothing was posted in this slot yet.
Unused == [note |-> 0, reply |-> "none", item |-> 0, todo |-> NoTargets]

Posted(r) == request[r].reply # "none"

Handled(r) == request[r].item > Len(Payload)

\* Bug: the handler stops when its request is cut off.
RunningWhileAwaited(r) ==
  phase # "gone" /\ request[r].reply = "waiting" /\ ~Handled(r)

Running(r) == phase # "gone" /\ Posted(r) /\ ~Handled(r)

\* The handler is between two alerts.
Between(r) == DOMAIN request[r].todo = {}

\* The place of the next message.
IsNext(r, place) ==
  /\ place \in DOMAIN request[r].todo
  /\ \A later \in DOMAIN request[r].todo : place <= later

\* What is left after it.
Without(r, place) ==
  [k \in DOMAIN request[r].todo \ {place} |-> request[r].todo[k]]

\* The message itself.
Message(r, place) ==
  [note |-> request[r].note, alert |-> request[r].item, to |-> request[r].todo[place]]

Init ==
  /\ \E start \in Starts : sender = start[1] /\ file = start[2]
  /\ phase = "serving"
  /\ accepting = TRUE
  /\ connected = TRUE
  /\ note = 0
  /\ request = [r \in Requests |-> Unused]
  /\ air = <<>>
  /\ trouble = {}
  /\ unheard = {}
  /\ hurried = FALSE

\* Alertmanager (external) opens a request: slots are used in order.
Post(n) ==
  \E r \in Requests :
    /\ accepting
    /\ ~Posted(r)
    /\ \A q \in 1 .. r - 1 : Posted(q)
    /\ request' = [request EXCEPT ![r] = [Unused EXCEPT !.note = n, !.reply = "waiting"]]
    /\ note' = n
    /\ UNCHANGED <<config, process, air, history>>

LastPosted == {r \in Requests : Posted(r) /\ \A q \in Requests : q > r => ~Posted(q)}

\* The next notification is posted when the last one is answered, or given up;
\* a notification is posted again only when its answer did not come.
Notify ==
  /\ note < MaxNotes
  /\ \A r \in LastPosted : request[r].reply \in {"ok", "lost"}
  /\ Post(note + 1)

Retry ==
  /\ \E r \in LastPosted : request[r].reply = "lost"
  /\ Post(note)

\* The alert in hand is lost: of its own accord, or because the program has
\* closed what it would go through.
Lose(r, i) ==
  /\ IF connected
     THEN trouble' = trouble \cup {<<r, i>>} /\ UNCHANGED unheard
     ELSE unheard' = unheard \cup {<<r, i>>} /\ UNCHANGED trouble
  /\ UNCHANGED hurried

\* The handler takes the next alert and calls SendAlert.
NextAlert(r) ==
  /\ Running(r)
  /\ Between(r)
  /\ sender = "standalone" => connected
  /\ LET i == request[r].item + 1
     IN  request' = [request EXCEPT
           ![r].item = i,
           ![r].todo = IF i \in Alerts THEN Plan(ToAlert(Payload[i])) ELSE NoTargets]
  /\ UNCHANGED <<config, process, note, air, history>>

\* In the standalone program SendAlert fails at once without a connection.
NextAlertOffline(r) ==
  /\ Running(r)
  /\ Between(r)
  /\ sender = "standalone" /\ ~connected
  /\ request' = [request EXCEPT ![r].item = @ + 1]
  /\ IF request[r].item + 1 \in Alerts THEN Lose(r, request[r].item + 1) ELSE UNCHANGED history
  /\ UNCHANGED <<config, process, note, air>>

\* Bug: a published message stays to be published.
PublishRepeats(r) ==
  /\ Running(r)
  /\ connected
  /\ \E place \in DOMAIN request[r].todo :
       IsNext(r, place) /\ air' = Append(air, Message(r, place))
  /\ UNCHANGED <<config, process, note, request, history>>

\* publishMessage for the next destination.
Publish(r) ==
  /\ Running(r)
  /\ connected
  /\ \E place \in DOMAIN request[r].todo :
       /\ IsNext(r, place)
       /\ air' = Append(air, Message(r, place))
       /\ request' = [request EXCEPT ![r].todo = Without(r, place)]
  /\ UNCHANGED <<config, process, note, history>>

\* It fails: SendAlert returns the error without trying the rest.
PublishFails(r) ==
  /\ Running(r)
  /\ ~Between(r)
  /\ request' = [request EXCEPT ![r].todo = NoTargets]
  /\ Lose(r, request[r].item)
  /\ UNCHANGED <<config, process, note, air>>

\* It succeeds, and nobody hears it.  The embedded broker has closed its
\* clients; at QoS 0 the paho client drops a message while it reconnects, and
\* cannot tell whether the broker got it otherwise.
PublishDropped(r) ==
  /\ (sender = "standalone") <=> connected
  /\ Running(r)
  /\ \E place \in DOMAIN request[r].todo :
       /\ IsNext(r, place)
       /\ request' = [request EXCEPT ![r].todo = Without(r, place)]
  /\ Lose(r, request[r].item)
  /\ UNCHANGED <<config, process, note, air>>

\* Bug: the request is answered first and handled in the background.
AnswerAtOnce(r) ==
  /\ request[r].reply = "waiting"
  /\ request' = [request EXCEPT ![r].reply = "ok"]
  /\ UNCHANGED <<config, process, note, air, history>>

\* The handler is done and answers 200, whatever SendAlert returned.
Answer(r) ==
  /\ phase # "gone"
  /\ Handled(r)
  /\ request[r].reply = "waiting"
  /\ request' = [request EXCEPT ![r].reply = "ok"]
  /\ UNCHANGED <<config, process, note, air, history>>

\* The write deadline or the timeout handler cuts the request off, or the
\* answer is lost.  The handler's context ends too, but nothing looks at it.
GiveUp(r) ==
  /\ request[r].reply = "waiting"
  /\ request' = [request EXCEPT ![r].reply = "lost"]
  /\ UNCHANGED <<config, process, note, air, history>>

-----------------------------------------------------------------------------
(* The end of the program.  The save between these steps is HookLifecycle's  *)
(* and StandaloneApp's.                                                      *)

Idle == \A r \in Requests : request[r].reply # "waiting"

\* A signal: the embedded program's server.Close closes the listeners and their
\* clients, the standalone one cancels its context.
Stop ==
  /\ phase = "serving"
  /\ phase' = "stopping"
  /\ connected' = (sender = "standalone")
  /\ UNCHANGED <<config, accepting, note, request, air, history>>

\* http.Server.Shutdown closes the listener.
StopAccepting ==
  /\ phase = "stopping"
  /\ accepting' = FALSE
  /\ UNCHANGED <<config, phase, connected, note, request, air, history>>

\* Bug: the client is disconnected before the HTTP server is shut down.
DisconnectFirst ==
  /\ phase = "stopping"
  /\ sender = "standalone"
  /\ connected' = FALSE
  /\ UNCHANGED <<config, phase, accepting, note, request, air, history>>

\* Shutdown has waited for the requests, 7.5 seconds at most, and the standalone
\* program disconnects its client.
Disconnect ==
  /\ phase = "stopping"
  /\ sender = "standalone"
  /\ ~accepting
  /\ connected' = FALSE
  /\ hurried' = (hurried \/ ~Idle)
  /\ UNCHANGED <<config, phase, accepting, note, request, air, trouble, unheard>>

\* Main returns: the embedded program after Shutdown, which waits 30 seconds at
\* most, the standalone one after Disconnect.  The handlers end where they are.
Exit ==
  /\ phase = "stopping"
  /\ ~accepting
  /\ ~connected
  /\ phase' = "gone"
  /\ hurried' = (hurried \/ ~Idle)
  /\ UNCHANGED <<config, accepting, connected, note, request, air, trouble, unheard>>

Next ==
  \/ Notify
  \/ Retry
  \/ \E r \in Requests : NextAlert(r)
  \/ \E r \in Requests : NextAlertOffline(r)
  \/ \E r \in Requests : Publish(r)
  \/ \E r \in Requests : PublishFails(r)
  \/ \E r \in Requests : PublishDropped(r)
  \/ \E r \in Requests : Answer(r)
  \/ \E r \in Requests : GiveUp(r)
  \/ Stop
  \/ StopAccepting
  \/ Disconnect
  \/ Exit

\* The handlers run and are answered; Alertmanager goes on.
HandlerStep(r) ==
  \/ NextAlert(r) \/ NextAlertOffline(r)
  \/ Publish(r) \/ PublishFails(r) \/ PublishDropped(r)
  \/ Answer(r)

Fairness ==
  /\ \A r \in Requests : WF_vars(HandlerStep(r))
  /\ WF_vars(Notify)

Spec     == Init /\ [][Next]_vars
FairSpec == Spec /\ Fairness

-----------------------------------------------------------------------------
(* Properties. *)

\* Every variable has its type; the air is as long as the requests allow.
TypeOK ==
  /\ sender \in {"lora", "standalone"}
  /\ file \in Files
  /\ phase \in {"serving", "stopping", "gone"}
  /\ accepting \in BOOLEAN /\ connected \in BOOLEAN /\ hurried \in BOOLEAN
  /\ note \in 0 .. MaxNotes
  /\ \A r \in Requests :
       /\ request[r].note \in 0 .. MaxNotes
       /\ request[r].reply \in {"none", "waiting", "ok", "lost"}
       /\ request[r].item \in 0 .. Len(Payload) + 1
       /\ \A place \in DOMAIN request[r].todo : request[r].todo[place] \in Targets
  /\ air \in Seq([note : Notes, alert : Alerts, to : Targets])
  /\ trouble \cup unheard \subseteq Requests \X Alerts

\* Whom a route names: everyone where it has no mode.
RecipientsOf(route) ==
  LET named == {NodeOf[route.target_nodes[k]] : k \in DOMAIN route.target_nodes} \ {NoNode}
      self  == IF route.show_on_sender THEN {NodeOf[file.from_node_id]} \ {NoNode} ELSE {}
  IN  CASE route.mode = ""          -> {Everyone}
        [] route.mode = "broadcast" -> {Everyone} \cup IF self = {} THEN {} ELSE named \cup self
        [] route.mode = "mixed"     -> {Everyone} \cup named
        [] route.mode = "direct"    -> named

\* Who has to get an alert of a severity, according to the file: everyone where
\* no route is, as in the standalone program.
Recipients(severity) ==
  LET own   == file.routing[severity]
      route == IF own = NoRoute THEN file.routing["default"] ELSE own
  IN  IF sender = "standalone" \/ route = NoRoute THEN {Everyone} ELSE RecipientsOf(route)

Heard(n, i) == {air[k].to : k \in {k \in DOMAIN air : air[k].note = n /\ air[k].alert = i}}

\* An alert reaches nobody it is not routed to: one for the administrators is
\* never broadcast, however handlers of several requests interleave.
OnlyRecipientsHear ==
  \A n \in Notes, i \in Alerts : Heard(n, i) \subseteq Recipients(Payload[i])

\* A failure hurts only the alert it hits: by the time a request is answered,
\* its other alerts have reached everyone they are for.
AnsweredMeansSent ==
  \A r \in Requests, i \in Alerts :
    request[r].reply = "ok" /\ <<r, i>> \notin trouble \cup unheard =>
      Heard(request[r].note, i) = Recipients(Payload[i])

\* Nobody gets an alert more often than it was posted (times the mentions in
\* the route): duplicates come from repeated requests only.
CopiesNeedRetries ==
  \A n \in Notes, i \in Alerts, t \in Targets :
    LET plan   == Plan(ToAlert(Payload[i]))
        copies == {k \in DOMAIN air : air[k] = [note |-> n, alert |-> i, to |-> t]}
        posts  == {r \in Requests : request[r].note = n}
        each   == {k \in DOMAIN plan : plan[k] = t}
    IN  Cardinality(copies) <= Cardinality(posts) * Cardinality(each)

\* Notifications reach the mesh in the order Alertmanager sent them, "firing"
\* before "resolved", unless an answer of the earlier one was lost.
OrderKeptUnlessLost ==
  \A j, k \in DOMAIN air :
    j < k /\ air[j].note > air[k].note =>
      \E r \in Requests : request[r].note = air[k].note /\ request[r].reply = "lost"

\* A shutdown of the standalone program that waited for its requests costs no
\* alert whose sender still waits for the answer: the connection is closed after
\* the webhook.  (The embedded program closes its broker first.)
ShutdownLosesNoAwaited ==
  sender = "standalone" /\ ~hurried =>
    \A r \in Requests, i \in Alerts : <<r, i>> \in unheard => request[r].reply = "lost"

\* A handler goes through all alerts of its request, also when nobody waits for
\* the answer any more, unless the process ends.
HandlersFinish == \A r \in Requests : Posted(r) ~> (Handled(r) \/ phase = "gone")

-----------------------------------------------------------------------------
(* What the documentation says. *)

\* A default route of null disables alerts that have no route of their own.
NullDefaultDisables ==
  \A k \in DOMAIN air :
    file.routing["default"] = NoRoute => file.routing[Payload[air[k].alert]] # NoRoute
=============================================================================
