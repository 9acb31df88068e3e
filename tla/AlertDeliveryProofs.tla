------------------------- MODULE AlertDeliveryProofs -------------------------
(***************************************************************************)
(* Who hears an alert, how often and in which order, for every             *)
(* configuration, every notification and every number of requests.         *)
(*                                                                         *)
(* The invariant says three things.  Routing: what handlers have published *)
(* or have still to publish is for the recipients that the file names.     *)
(* Delivery: of an alert that was not lost, each recipient has got its     *)
(* message or is still in the handler's list.  Requests: their slots are   *)
(* filled in order, and all but the last one are answered or given up.     *)
(*                                                                         *)
(* CopiesInv adds how often: each message on the air was published from a  *)
(* place of its own in a list of its own.  HandlersGoOn says that no alert *)
(* of a request keeps the ones after it waiting for ever.                  *)
(***************************************************************************)
EXTENDS AlertDelivery, FiniteSetTheorems, TLAPS

\* The values of a list of targets.
TargetLists == UNION {[places -> Targets] : places \in SUBSET Nat}

\* A request, and where it stands.
RequestType ==
  [note : Nat, reply : {"none", "waiting", "ok", "lost"}, item : Nat, todo : TargetLists]

\* What is in the air: one alert of a notification, to one node.
AirType == [note : Notes, alert : Alerts, to : Targets]

\* The configuration does not change.
ConfigOK == sender \in {"lora", "standalone"} /\ file \in Files

\* Every variable has its type.
Types ==
  /\ ConfigOK
  /\ phase \in {"serving", "stopping", "gone"}
  /\ accepting \in BOOLEAN /\ connected \in BOOLEAN /\ hurried \in BOOLEAN
  /\ note \in 0 .. MaxNotes
  /\ request \in [Requests -> RequestType]
  /\ air \in Seq(AirType)
  /\ trouble \in SUBSET (Requests \X Alerts)
  /\ unheard \in SUBSET (Requests \X Alerts)

\* The slots: an unused one is empty, a posted one has a notification.
Slots ==
  \A r \in Requests :
    /\ ~Posted(r) => request[r] = Unused
    /\ Posted(r) => request[r].note \in 1 .. note
    /\ request[r].item <= Len(Payload) + 1
    /\ request[r].item \notin Alerts => Between(r)
    /\ request[r].reply = "ok" => Handled(r)

\* They are filled in order, and only the last one is waited for.
InOrder ==
  \A r \in Requests : Posted(r) =>
    \A q \in 1 .. r - 1 : Posted(q) /\ request[q].reply \in {"ok", "lost"}

\* A request of an earlier notification is not waited for.
EarlierSettled ==
  \A r \in Requests :
    Posted(r) /\ request[r].note < note => request[r].reply \in {"ok", "lost"}

\* No message in the air is newer than the last notification.
NotesInOrder == OrderKeptUnlessLost /\ \A k \in DOMAIN air : air[k].note <= note

\* What is on the air, and what is still to be published, is for recipients.
Routed ==
  /\ OnlyRecipientsHear
  /\ \A r \in Requests : request[r].item \in Alerts =>
       \A place \in DOMAIN request[r].todo :
         request[r].todo[place] \in Recipients(Payload[request[r].item])

\* The recipient has got the alert or is still to get it.
Served(r, i, t) ==
  \/ t \in Heard(request[r].note, i)
  \/ i = request[r].item /\ \E place \in DOMAIN request[r].todo : request[r].todo[place] = t

\* What an answered request has sent.
Delivered ==
  \A r \in Requests, i \in Alerts :
    Posted(r) /\ i <= request[r].item /\ <<r, i>> \notin trouble \cup unheard =>
      \A t \in Recipients(Payload[i]) : Served(r, i, t)

\* The order of the standalone program's shutdown.
ShutdownInOrder ==
  /\ phase = "serving" => connected
  /\ sender = "standalone" /\ ~connected => ~accepting
  /\ sender = "standalone" /\ ~connected /\ ~hurried => Idle
  /\ ShutdownLosesNoAwaited

\* The inductive invariant.
IInv ==
  /\ Types
  /\ Slots
  /\ InOrder
  /\ EarlierSettled
  /\ NotesInOrder
  /\ Routed
  /\ Delivered
  /\ ShutdownInOrder

-----------------------------------------------------------------------------
(* Routing. *)

\* The nodes on a list.
Named(list) == {list[k] : k \in DOMAIN list}

\* What the proofs need to know of the constants.
LEMMA Constants ==
  /\ NodeOf \in [Spellings -> Targets \cup {NoNode}]
  /\ NoNode \notin Targets
  /\ Payload \in Seq(Severities)
  /\ Alerts = 1 .. Len(Payload) /\ Len(Payload) \in Nat
  /\ NoRoute \notin Written
  /\ MaxNotes \in Nat /\ MaxRequests \in Nat
  /\ Everyone \in Targets
BY AlertAssumption DEF Alerts, Targets

\* The route that is taken comes from the file.
LEMMA RouteType ==
  ASSUME ConfigOK, NEW s \in Severities
  PROVE  RouteOf(s) \in Written \cup {NoRoute}
BY DEF ConfigOK, Files, RouteOf, Route, Severities

\* Reading a route keeps the nodes that can be read.
LEMMA ConvertType ==
  ASSUME NEW route \in Written
  PROVE  /\ ConvertAlertRoute(route).mode = route.mode
         /\ ConvertAlertRoute(route).showOnSender = route.show_on_sender
         /\ ConvertAlertRoute(route).next \in Nat
         /\ ConvertAlertRoute(route).next = Len(route.target_nodes) + 1
         /\ ConvertAlertRoute(route).targets \in TargetLists
         /\ \A k \in DOMAIN ConvertAlertRoute(route).targets :
              k \in Nat /\ 0 < k /\ k < ConvertAlertRoute(route).next
<1> DEFINE written  == route.target_nodes
           readable == {i \in DOMAIN written : Readable(written[i])}
           targets  == [i \in readable |-> NodeOf[written[i]]]
<1>1. written \in Seq(Spellings)
  BY DEF Written
<1>2. DOMAIN written = 1 .. Len(written) /\ Len(written) \in Nat
  BY <1>1
<1>3. \A i \in readable : NodeOf[written[i]] \in Targets
  BY <1>1, Constants DEF Readable
<1>4. readable \in SUBSET Nat
  BY <1>2
<1>5. targets \in [readable -> Targets]
  BY <1>3
<1>6. targets \in TargetLists
  BY <1>4, <1>5 DEF TargetLists
<1>7. ConvertAlertRoute(route) =
        [mode |-> route.mode, targets |-> targets, next |-> Len(written) + 1,
         showOnSender |-> route.show_on_sender]
  BY DEF ConvertAlertRoute
<1> HIDE DEF targets
<1>8. DOMAIN targets = readable
  BY DEF targets
<1> QED BY <1>2, <1>6, <1>7, <1>8

\* The nodes of the converted route are those that the file names.
LEMMA ConvertNames ==
  ASSUME NEW route \in Written
  PROVE  Named(ConvertAlertRoute(route).targets) =
           {NodeOf[route.target_nodes[k]] : k \in DOMAIN route.target_nodes} \ {NoNode}
<1> DEFINE written  == route.target_nodes
           readable == {i \in DOMAIN written : Readable(written[i])}
<1>1. ConvertAlertRoute(route).targets = [i \in readable |-> NodeOf[written[i]]]
  BY DEF ConvertAlertRoute
<1> QED BY <1>1 DEF Readable, Named

\* A list with one more target, at a place of its own.
LEMMA WithTargetType ==
  ASSUME NEW list \in TargetLists, NEW place \in Nat, NEW target \in Targets,
         place \notin DOMAIN list
  PROVE  /\ WithTarget(place, target, list) \in TargetLists
         /\ Named(WithTarget(place, target, list)) = Named(list) \cup {target}
<1>1. PICK places \in SUBSET Nat : list \in [places -> Targets]
  BY DEF TargetLists
<1>2. WithTarget(place, target, list) \in [places \cup {place} -> Targets]
  BY <1>1 DEF WithTarget
<1>3. places \cup {place} \in SUBSET Nat
  OBVIOUS
<1>4. WithTarget(place, target, list) \in TargetLists
  BY <1>2, <1>3 DEF TargetLists
<1>5. ASSUME NEW k \in places PROVE WithTarget(place, target, list)[k] = list[k]
  BY <1>1, <1>5 DEF WithTarget
<1>6. WithTarget(place, target, list)[place] = target
  BY DEF WithTarget
<1>7. DOMAIN WithTarget(place, target, list) = places \cup {place} /\ DOMAIN list = places
  BY <1>1 DEF WithTarget
<1> DEFINE longer == WithTarget(place, target, list)
<1> HIDE DEF longer
<1>8. {longer[k] : k \in places \cup {place}} = {list[k] : k \in places} \cup {target}
  BY <1>5, <1>6 DEF longer
<1> QED BY <1>4, <1>7, <1>8 DEF longer, Named

\* Everyone comes first.
LEMMA EveryoneFirst ==
  ASSUME NEW list \in TargetLists, 0 \notin DOMAIN list
  PROVE  /\ WithTarget(0, Everyone, list) \in TargetLists
         /\ Named(WithTarget(0, Everyone, list)) = Named(list) \cup {Everyone}
<1>1. Everyone \in Targets
  BY DEF Targets
<1>2. 0 \in Nat
  OBVIOUS
<1> QED BY <1>1, <1>2, WithTargetType

\* The list without targets is one.
LEMMA NoTargetsType ==
  NoTargets \in TargetLists /\ DOMAIN NoTargets = {} /\ Named(NoTargets) = {}
<1>1. NoTargets \in [{} -> Targets] /\ {} \in SUBSET Nat
  BY DEF NoTargets
<1> QED BY <1>1 DEF TargetLists, NoTargets, Named

\* The sender's own node, which may be missing.
LEMMA FromNodeType ==
  ASSUME ConfigOK, sender # "standalone"
  PROVE  FromNode = NodeOf[file.from_node_id] /\ FromNode \in Targets \cup {NoNode}
<1>1. file.from_node_id \in Spellings
  BY DEF ConfigOK, Files
<1> QED BY <1>1, Constants DEF FromNode

\* An alert's messages are for its recipients, all of them and nobody else.
LEMMA PlanIsForRecipients ==
  ASSUME ConfigOK, NEW s \in Severities
  PROVE  /\ Plan(ToAlert(s)) \in TargetLists
         /\ Named(Plan(ToAlert(s))) = Recipients(s)
<1> DEFINE route == RouteOf(s)
           converted == ConvertAlertRoute(route)
           names == {NodeOf[route.target_nodes[k]] : k \in DOMAIN route.target_nodes} \ {NoNode}
           everyone == WithTarget(0, Everyone, NoTargets)
<1>1. everyone \in TargetLists /\ Named(everyone) = {Everyone}
  <2>1. 0 \notin DOMAIN NoTargets
    BY NoTargetsType
  <2> HIDE DEF names
  <2> QED BY <2>1, NoTargetsType, EveryoneFirst
<1>2. CASE sender = "standalone" \/ route = NoRoute
  <2>1. route = NoRoute
    BY <1>2 DEF RouteOf, Route
  <2>2. Plan(ToAlert(s)) = everyone
    BY <2>1 DEF ToAlert, Plan
  <2>3. Recipients(s) = {Everyone}
    BY <1>2 DEF Recipients, RouteOf, Route
  <2> QED BY <1>1, <2>2, <2>3
<1>3. CASE sender # "standalone" /\ route # NoRoute
  <2>1. route \in Written
    BY <1>3, RouteType
  <2>2. route.mode \in Modes /\ route.show_on_sender \in BOOLEAN
    BY <2>1 DEF Written
  <2>3. route = IF file.routing[s] = NoRoute THEN file.routing["default"] ELSE file.routing[s]
    BY <1>3 DEF RouteOf, Route
  <2>4. FromNode = NodeOf[file.from_node_id] /\ FromNode \in Targets \cup {NoNode}
    BY <1>3, FromNodeType
  <2>5. /\ converted.mode = route.mode /\ converted.showOnSender = route.show_on_sender
        /\ converted.targets \in TargetLists /\ converted.next \in Nat
        /\ \A k \in DOMAIN converted.targets : 0 < k /\ k < converted.next
        /\ Len(route.target_nodes) \in Nat
    BY <2>1, ConvertType DEF Written
  <2>6. Named(converted.targets) = names
    BY <2>1, ConvertNames
  <2> DEFINE self == IF route.show_on_sender THEN {NodeOf[file.from_node_id]} \ {NoNode} ELSE {}
             alert == ToAlert(s)
  <2>7. Recipients(s) = RecipientsOf(route)
    BY <1>3, <2>3 DEF Recipients
  <2>8. /\ WithTarget(0, Everyone, converted.targets) \in TargetLists
        /\ Named(WithTarget(0, Everyone, converted.targets)) = {Everyone} \cup names
    <3>1. 0 \notin DOMAIN converted.targets
      BY <2>5
    <3> HIDE DEF converted
    <3> QED BY <2>5, <2>6, <3>1, EveryoneFirst
  <2> HIDE DEF converted, names, route
  <2>9. CASE route.mode = ""
    <3>1. alert.mode = ""
      BY <1>3, <2>5, <2>9 DEF ToAlert, converted, route
    <3> QED BY <1>1, <2>7, <2>9, <3>1 DEF Plan, RecipientsOf
  <2>10. CASE route.mode = "broadcast" /\ self = {}
    <3>1. alert.mode = "broadcast"
      BY <1>3, <2>2, <2>4, <2>5, <2>10 DEF ToAlert, converted, route
    <3> QED BY <1>1, <2>7, <2>10, <3>1 DEF Plan, RecipientsOf
  <2>11. CASE route.mode = "broadcast" /\ self # {}
    <3>1. FromNode \in Targets /\ self = {FromNode} /\ route.show_on_sender
      BY <2>2, <2>4, <2>11
    <3> DEFINE shown == WithTarget(converted.next, FromNode, converted.targets)
    <3>2. alert.mode = "mixed" /\ alert.targets = shown
      BY <1>3, <2>5, <2>11, <3>1, Constants DEF ToAlert, converted, route
    <3>3. converted.next \notin DOMAIN converted.targets
      BY <2>5
    <3>4. shown \in TargetLists /\ Named(shown) = names \cup {FromNode}
      BY <2>5, <2>6, <3>1, <3>3, WithTargetType
    <3>5. 0 \notin DOMAIN shown
      <4>1. DOMAIN shown = DOMAIN converted.targets \cup {converted.next}
        BY DEF WithTarget
      <4> HIDE DEF shown
      <4> QED BY <2>5, <4>1
    <3> HIDE DEF shown
    <3>6. /\ WithTarget(0, Everyone, shown) \in TargetLists
          /\ Named(WithTarget(0, Everyone, shown)) = names \cup {FromNode} \cup {Everyone}
      BY <3>4, <3>5, EveryoneFirst
    <3> QED BY <2>7, <2>11, <3>1, <3>2, <3>6 DEF Plan, RecipientsOf, names
  <2>12. CASE route.mode = "mixed"
    <3>1. alert.mode = "mixed" /\ alert.targets = converted.targets
      BY <1>3, <2>5, <2>12 DEF ToAlert, converted, route
    <3> QED BY <2>7, <2>8, <2>12, <3>1 DEF Plan, RecipientsOf, names
  <2>13. CASE route.mode = "direct"
    <3>1. alert.mode = "direct" /\ alert.targets = converted.targets
      BY <1>3, <2>5, <2>13 DEF ToAlert, converted, route
    <3> QED BY <2>5, <2>6, <2>7, <2>13, <3>1 DEF Plan, RecipientsOf, names
  <2> QED BY <2>2, <2>9, <2>10, <2>11, <2>12, <2>13 DEF Modes
<1> QED BY <1>2, <1>3

-----------------------------------------------------------------------------
(* What a step leaves alone. *)

\* The recipients change with the configuration only, which never does.
LEMMA ConfigStays ==
  ASSUME ConfigOK, UNCHANGED config
  PROVE  /\ ConfigOK'
         /\ \A s \in Severities : Recipients(s)' = Recipients(s)
<1>1. sender' = sender /\ file' = file
  BY DEF config
<1>2. ConfigOK'
  BY <1>1 DEF ConfigOK
<1>3. ASSUME NEW s \in Severities PROVE Recipients(s)' = Recipients(s)
  <2>1. ASSUME NEW route PROVE RecipientsOf(route)' = RecipientsOf(route)
    BY <1>1 DEF RecipientsOf
  <2> QED BY <1>1, <2>1 DEF Recipients
<1> QED BY <1>2, <1>3

\* Alerts have severities.
LEMMA PayloadType ==
  ASSUME NEW i \in Alerts PROVE Payload[i] \in Severities
BY Constants DEF Alerts

\* A message more is heard by those it is for.
LEMMA HeardGrows ==
  ASSUME air \in Seq(AirType), NEW m \in AirType, air' = Append(air, m), NEW n, NEW i
  PROVE  Heard(n, i)' = Heard(n, i) \cup IF m.note = n /\ m.alert = i THEN {m.to} ELSE {}
<1>1. /\ DOMAIN air = 1 .. Len(air) /\ DOMAIN air' = 1 .. Len(air) + 1 /\ Len(air) \in Nat
      /\ \A k \in DOMAIN air : air'[k] = air[k]
      /\ air'[Len(air) + 1] = m
  OBVIOUS
<1>2. DOMAIN air' = DOMAIN air \cup {Len(air) + 1}
  BY <1>1
<1> QED BY <1>1, <1>2 DEF Heard

\* The standalone program loses its connection after its webhook, and what that
\* costs is no request's that waits.
LEMMA LoseInOrder ==
  ASSUME ShutdownInOrder, Slots, Types, NEW r \in Requests, NEW i, Running(r), Lose(r, i),
         UNCHANGED <<config, process>>,
         \A q \in Requests : request'[q].reply = request[q].reply
  PROVE  ShutdownInOrder'
<1> USE DEF ShutdownInOrder, ShutdownLosesNoAwaited, Idle, Lose, config, process
<1>1. CASE connected
  BY <1>1
<1>2. CASE ~connected
  <2>1. request[r].reply \in {"waiting", "ok", "lost"} /\ ~Handled(r)
    BY DEF Running, Posted, Types, RequestType
  <2>2. sender = "standalone" /\ ~hurried => request[r].reply = "lost"
    BY <1>2, <2>1 DEF Slots
  <2> QED BY <1>2, <2>2
<1> QED BY <1>1, <1>2 DEF Types

\* What a handler does leaves the slots as they are.
LEMMA HandlerFrame ==
  ASSUME IInv, UNCHANGED <<config, process, note>>,
         \A q \in Requests : request'[q].reply = request[q].reply /\ request'[q].note = request[q].note
  PROVE  InOrder' /\ EarlierSettled' /\ \A q \in Requests : Posted(q)' = Posted(q)
<1>1. \A r \in Requests : \A q \in 1 .. r - 1 : q \in Requests
  BY Constants DEF Requests
<1>2. \A q \in Requests : Posted(q)' = Posted(q)
  BY DEF Posted
<1>3. InOrder'
  BY <1>1, <1>2 DEF IInv, InOrder
<1>4. EarlierSettled'
  BY <1>2 DEF IInv, EarlierSettled
<1> QED BY <1>2, <1>3, <1>4

\* A step without a message keeps their order.
LEMMA SilentOrder ==
  ASSUME IInv, UNCHANGED air, note' >= note, note' \in Nat,
         \A q \in Requests : request[q].reply = "lost" =>
           request'[q].reply = "lost" /\ request'[q].note = request[q].note
  PROVE  NotesInOrder'
<1>1. OrderKeptUnlessLost'
  BY DEF IInv, NotesInOrder, OrderKeptUnlessLost
<1>2. \A k \in DOMAIN air : air[k].note \in Nat /\ air[k].note <= note /\ note \in Nat
  <2>1. \A k \in DOMAIN air : air[k] \in AirType
    BY DEF IInv, Types
  <2>2. note \in Nat
    BY Constants DEF IInv, Types
  <2> QED BY <2>1, <2>2 DEF IInv, NotesInOrder, AirType, Notes
<1> QED BY <1>1, <1>2 DEF NotesInOrder

-----------------------------------------------------------------------------
(* The handlers. *)

\* What handler r may do to its request and to the air: it goes on, with a list
\* of recipients, and every alert so far is lost or on the list or on the air.
Advances(r) ==
  /\ Running(r)
  /\ UNCHANGED <<config, process, note>>
  /\ request' \in [Requests -> RequestType]
  /\ \A q \in Requests \ {r} : request'[q] = request[q]
  /\ request'[r].reply = request[r].reply /\ request'[r].note = request[r].note
  /\ request'[r].item <= Len(Payload) + 1
  /\ request'[r].item \notin Alerts => DOMAIN request'[r].todo = {}
  /\ request'[r].item \in Alerts =>
       \A place \in DOMAIN request'[r].todo :
         request'[r].todo[place] \in Recipients(Payload[request'[r].item])
  /\ trouble \subseteq trouble' /\ unheard \subseteq unheard'
  /\ \A n \in Notes, i \in Alerts : Heard(n, i) \subseteq Heard(n, i)'
  /\ \A i \in Alerts : i <= request'[r].item /\ <<r, i>> \notin trouble' \cup unheard' =>
       \A t \in Recipients(Payload[i]) : Served(r, i, t)'

\* A posted request is for a notification.
LEMMA PostedNote ==
  ASSUME IInv, NEW r \in Requests, Posted(r)
  PROVE  request[r].note \in Notes
BY Constants DEF IInv, Slots, Types, Notes

\* That keeps the invariant, together with what it does to the air.
LEMMA AdvanceInvariant ==
  ASSUME IInv, NEW r \in Requests, Advances(r),
         trouble' \in SUBSET (Requests \X Alerts), unheard' \in SUBSET (Requests \X Alerts),
         hurried' = hurried, air' \in Seq(AirType),
         OnlyRecipientsHear', NotesInOrder', ShutdownInOrder'
  PROVE  IInv'
<1>1. ConfigOK' /\ \A s \in Severities : Recipients(s)' = Recipients(s)
  BY ConfigStays DEF IInv, Types, Advances
<1>2. Types'
  BY <1>1 DEF IInv, Types, Advances, process
<1>3. \A q \in Requests : request'[q].reply = request[q].reply /\ request'[q].note = request[q].note
  BY DEF Advances
<1>4. InOrder' /\ EarlierSettled' /\ \A q \in Requests : Posted(q)' = Posted(q)
  BY <1>3, HandlerFrame DEF Advances
<1>5. Slots'
  <2>1. request[r].reply # "ok"
    BY DEF IInv, Slots, Advances, Running
  <2>2. Posted(r) /\ Posted(r)'
    BY <1>4 DEF Advances, Running
  <2>3. note' = note
    BY DEF Advances
  <2> QED BY <1>3, <1>4, <2>1, <2>2, <2>3 DEF IInv, Slots, Advances, Handled, Between
<1>6. Routed'
  BY <1>1, PayloadType DEF IInv, Routed, Advances
<1>7. Delivered'
  <2> SUFFICES ASSUME NEW q \in Requests, NEW i \in Alerts, Posted(q), i <= request'[q].item,
                      <<q, i>> \notin trouble' \cup unheard', NEW t \in Recipients(Payload[i])
               PROVE  Served(q, i, t)'
    BY <1>1, <1>4, PayloadType DEF Delivered
  <2>1. CASE q = r
    BY <2>1 DEF Advances
  <2>2. CASE q # r
    <3>1. Served(q, i, t)
      BY <2>2 DEF IInv, Delivered, Advances
    <3>2. request[q].note \in Notes
      BY PostedNote
    <3> QED BY <2>2, <3>1, <3>2 DEF Served, Advances
  <2> QED BY <2>1, <2>2
<1> QED BY <1>2, <1>4, <1>5, <1>6, <1>7 DEF IInv

\* A step that leaves the air alone changes nothing of what is heard.
LEMMA HeardStays ==
  ASSUME air' = air, NEW n, NEW i
  PROVE  Heard(n, i)' = Heard(n, i)
BY DEF Heard

\* Nothing is heard of a handler that publishes nothing.
LEMMA SilentAdvance ==
  ASSUME IInv, NEW r \in Requests, Advances(r), air' = air, hurried' = hurried,
         trouble' \in SUBSET (Requests \X Alerts), unheard' \in SUBSET (Requests \X Alerts),
         ShutdownInOrder'
  PROVE  IInv'
<1>1. \A s \in Severities : Recipients(s)' = Recipients(s)
  BY ConfigStays DEF IInv, Types, Advances
<1>2. OnlyRecipientsHear'
  BY <1>1, HeardStays, PayloadType DEF IInv, Routed, OnlyRecipientsHear
<1>3. note' = note /\ note \in Nat
  BY Constants DEF IInv, Types, Advances
<1>4. NotesInOrder'
  BY <1>3, SilentOrder DEF Advances
<1>5. air' \in Seq(AirType)
  BY DEF IInv, Types
<1> QED BY <1>2, <1>4, <1>5, AdvanceInvariant

\* What is known of a running handler's request.
LEMMA RunningRequest ==
  ASSUME IInv, NEW r \in Requests, Running(r)
  PROVE  /\ request \in [Requests -> RequestType]
         /\ request[r] \in RequestType
         /\ request[r].item \in Nat /\ request[r].item <= Len(Payload)
         /\ request[r].note \in Notes
         /\ request[r].todo \in TargetLists
BY PostedNote, Constants DEF IInv, Types, RequestType, Running, Handled

\* The alerts before the one in hand are done with.
LEMMA BetweenServed ==
  ASSUME IInv, NEW r \in Requests, Running(r), Between(r), NEW i \in Alerts,
         i <= request[r].item, <<r, i>> \notin trouble \cup unheard,
         NEW t \in Recipients(Payload[i])
  PROVE  t \in Heard(request[r].note, i)
BY DEF IInv, Delivered, Running, Between, Served

\* Losing an alert adds it to one of the two histories.
LEMMA LoseType ==
  ASSUME IInv, NEW r \in Requests, NEW i \in Alerts, Lose(r, i)
  PROVE  /\ trouble' \in SUBSET (Requests \X Alerts)
         /\ unheard' \in SUBSET (Requests \X Alerts)
         /\ trouble \subseteq trouble' /\ unheard \subseteq unheard'
         /\ <<r, i>> \in trouble' \cup unheard'
         /\ hurried' = hurried
BY DEF IInv, Types, Lose

\* Nothing of the shutdown is touched.
LEMMA CalmShutdown ==
  ASSUME IInv, UNCHANGED <<config, process, history>>,
         \A q \in Requests : request'[q].reply = request[q].reply
  PROVE  ShutdownInOrder'
BY DEF IInv, ShutdownInOrder, ShutdownLosesNoAwaited, Idle, config, process, history

\* The handler takes the next alert, whose recipients are its list.
LEMMA NextAlertInvariant ==
  ASSUME IInv, NEW r \in Requests, NextAlert(r)
  PROVE  IInv'
<1> DEFINE i    == request[r].item + 1
           list == IF i \in Alerts THEN Plan(ToAlert(Payload[i])) ELSE NoTargets
<1>1. Running(r) /\ Between(r) /\ request' = [request EXCEPT ![r].item = i, ![r].todo = list]
  BY DEF NextAlert
<1>2. UNCHANGED <<config, process, note, air, history>>
  BY DEF NextAlert
<1>3. /\ list \in TargetLists
      /\ i \notin Alerts => DOMAIN list = {}
      /\ i \in Alerts => Named(list) = Recipients(Payload[i])
  BY PlanIsForRecipients, PayloadType, NoTargetsType DEF IInv, Types
<1>4. i \in Nat /\ i <= Len(Payload) + 1
  BY <1>1, RunningRequest, Constants
<1> HIDE DEF i, list
<1>5. /\ request' \in [Requests -> RequestType]
      /\ \A q \in Requests \ {r} : request'[q] = request[q]
      /\ request'[r].reply = request[r].reply /\ request'[r].note = request[r].note
      /\ request'[r].item = i /\ request'[r].todo = list
  BY <1>1, <1>3, <1>4, RunningRequest DEF RequestType
<1>6. ASSUME NEW a \in Alerts, a <= i, <<r, a>> \notin trouble' \cup unheard',
             NEW t \in Recipients(Payload[a])
      PROVE  Served(r, a, t)'
  <2>1. CASE a = i
    <3>1. \E place \in DOMAIN list : list[place] = t
      BY <1>3, <1>6, <2>1 DEF Named
    <3> QED BY <1>5, <2>1, <3>1 DEF Served
  <2>2. CASE a # i
    <3>1. a <= request[r].item
      BY <1>1, <1>6, <2>2, RunningRequest, Constants DEF i
    <3>2. t \in Heard(request[r].note, a)
      BY <1>1, <1>2, <1>6, <3>1, BetweenServed DEF history
    <3>3. t \in Heard(request[r].note, a)'
      BY <1>2, <1>5, <3>2, HeardStays
    <3> QED BY <1>5, <3>3 DEF Served
  <2> QED BY <2>1, <2>2
<1>7. \A n \in Notes, a \in Alerts : Heard(n, a) \subseteq Heard(n, a)'
  BY <1>2, HeardStays
<1>8. trouble' = trouble /\ unheard' = unheard /\ hurried' = hurried /\ air' = air
  BY <1>2 DEF history
<1>9. i \in Alerts => \A place \in DOMAIN list : list[place] \in Recipients(Payload[i])
  BY <1>3 DEF Named
<1>10. Advances(r)
  BY <1>1, <1>2, <1>3, <1>4, <1>5, <1>6, <1>7, <1>8, <1>9 DEF Advances
<1>11. ShutdownInOrder'
  BY <1>2, <1>5, CalmShutdown
<1> QED BY <1>8, <1>10, <1>11, SilentAdvance DEF IInv, Types

\* Without a connection it only goes on to the next alert, and loses it.
LEMMA NextAlertOfflineInvariant ==
  ASSUME IInv, NEW r \in Requests, NextAlertOffline(r)
  PROVE  IInv'
<1> DEFINE i == request[r].item + 1
<1>1. Running(r) /\ Between(r) /\ request' = [request EXCEPT ![r].item = @ + 1]
  BY DEF NextAlertOffline
<1>2. UNCHANGED <<config, process, note, air>>
  BY DEF NextAlertOffline
<1>3. i \in Nat /\ i <= Len(Payload) + 1
  BY <1>1, RunningRequest, Constants
<1>4. /\ request' \in [Requests -> RequestType]
      /\ \A q \in Requests \ {r} : request'[q] = request[q]
      /\ request'[r].reply = request[r].reply /\ request'[r].note = request[r].note
      /\ request'[r].item = i /\ request'[r].todo = request[r].todo
  BY <1>1, <1>3, RunningRequest DEF RequestType
<1>5. /\ trouble' \in SUBSET (Requests \X Alerts) /\ unheard' \in SUBSET (Requests \X Alerts)
      /\ trouble \subseteq trouble' /\ unheard \subseteq unheard'
      /\ hurried' = hurried
      /\ i \in Alerts => <<r, i>> \in trouble' \cup unheard'
  <2>1. CASE i \in Alerts
    BY <2>1, LoseType DEF NextAlertOffline
  <2>2. CASE i \notin Alerts
    BY <2>2 DEF NextAlertOffline, history, IInv, Types
  <2> QED BY <2>1, <2>2
<1>6. ShutdownInOrder'
  <2>1. CASE i \in Alerts
    BY <1>1, <1>2, <1>4, <2>1, LoseInOrder DEF NextAlertOffline, IInv
  <2>2. CASE i \notin Alerts
    BY <1>2, <1>4, <2>2, CalmShutdown DEF NextAlertOffline
  <2> QED BY <2>1, <2>2
<1>7. ASSUME NEW a \in Alerts, a <= i, <<r, a>> \notin trouble' \cup unheard',
             NEW t \in Recipients(Payload[a])
      PROVE  Served(r, a, t)'
  <2>1. a <= request[r].item
    BY <1>1, <1>5, <1>7, RunningRequest, Constants
  <2>2. t \in Heard(request[r].note, a)
    BY <1>1, <1>5, <1>7, <2>1, BetweenServed
  <2>3. t \in Heard(request[r].note, a)'
    BY <1>2, <1>4, <2>2, HeardStays
  <2> QED BY <2>3 DEF Served
<1> HIDE DEF i
<1>8. \A n \in Notes, a \in Alerts : Heard(n, a) \subseteq Heard(n, a)'
  BY <1>2, HeardStays
<1>9. DOMAIN request'[r].todo = {}
  BY <1>1, <1>4 DEF Between
<1>10. Advances(r)
  BY <1>1, <1>2, <1>3, <1>4, <1>5, <1>7, <1>8, <1>9 DEF Advances
<1> QED BY <1>2, <1>5, <1>6, <1>10, SilentAdvance

\* A list without one of its places.
LEMMA WithoutType ==
  ASSUME IInv, NEW r \in Requests, Running(r), NEW place \in DOMAIN request[r].todo
  PROVE  /\ Without(r, place) \in TargetLists
         /\ DOMAIN Without(r, place) = DOMAIN request[r].todo \ {place}
         /\ \A k \in DOMAIN Without(r, place) : Without(r, place)[k] = request[r].todo[k]
<1>1. PICK places \in SUBSET Nat : request[r].todo \in [places -> Targets]
  BY RunningRequest DEF TargetLists
<1>2. Without(r, place) \in [places \ {place} -> Targets]
  BY <1>1 DEF Without
<1>3. places \ {place} \in SUBSET Nat
  OBVIOUS
<1>4. Without(r, place) \in TargetLists
  BY <1>2, <1>3 DEF TargetLists
<1> QED BY <1>4 DEF Without

\* A message in hand is for a recipient of an alert of the payload.
LEMMA MessageType ==
  ASSUME IInv, NEW r \in Requests, Running(r), NEW place \in DOMAIN request[r].todo
  PROVE  /\ request[r].item \in Alerts
         /\ Message(r, place) \in AirType
         /\ Message(r, place).to \in Recipients(Payload[request[r].item])
<1>1. request[r].item \in Alerts
  BY DEF IInv, Slots, Between
<1>2. request[r].todo[place] \in Targets
  <2>1. PICK places \in SUBSET Nat : request[r].todo \in [places -> Targets]
    BY RunningRequest DEF TargetLists
  <2> QED BY <2>1
<1>3. request[r].note \in Notes
  BY RunningRequest
<1>4. Message(r, place) \in AirType
  BY <1>1, <1>2, <1>3 DEF Message, AirType
<1>5. request[r].todo[place] \in Recipients(Payload[request[r].item])
  BY <1>1 DEF IInv, Routed
<1> QED BY <1>1, <1>4, <1>5 DEF Message

\* A message of an earlier notification is one that a request has been given up
\* for: all others of it are answered, and their handlers have finished.
LEMMA PublishOrder ==
  ASSUME IInv, NEW r \in Requests, Running(r), NEW place \in DOMAIN request[r].todo,
         air' = Append(air, Message(r, place)), note' = note,
         \A q \in Requests : request'[q].reply = request[q].reply /\ request'[q].note = request[q].note
  PROVE  NotesInOrder'
<1> DEFINE m == Message(r, place)
<1>1. m.note = request[r].note /\ m \in AirType
  BY MessageType DEF Message
<1> HIDE DEF m
<1>2. /\ DOMAIN air = 1 .. Len(air) /\ DOMAIN air' = 1 .. Len(air) + 1 /\ Len(air) \in Nat
      /\ \A k \in DOMAIN air : air'[k] = air[k] /\ air[k].note \in Nat
      /\ air'[Len(air) + 1] = m
  <2>1. air \in Seq(AirType)
    BY DEF IInv, Types
  <2>2. \A k \in DOMAIN air : air[k] \in AirType
    BY <2>1
  <2>3. \A k \in DOMAIN air : air[k].note \in Nat
    BY <2>2 DEF AirType, Notes
  <2> QED BY <2>1, <2>3, <1>1 DEF m
<1>3. request[r].note \in Nat /\ request[r].note <= note /\ note \in Nat
  BY Constants DEF IInv, Types, RequestType, Slots, Running
<1>4. request[r].note < note => request[r].reply = "lost"
  <2>1. request[r].reply # "ok" /\ Posted(r)
    BY DEF IInv, Slots, Running
  <2> QED BY <2>1 DEF IInv, EarlierSettled
<1>5. \A k \in DOMAIN air' : air'[k].note <= note'
  BY <1>1, <1>2, <1>3 DEF IInv, NotesInOrder
<1>6. OrderKeptUnlessLost'
  <2> SUFFICES ASSUME NEW j \in DOMAIN air', NEW k \in DOMAIN air',
                      j < k, air'[j].note > air'[k].note
               PROVE  \E q \in Requests : request'[q].note = air'[k].note /\ request'[q].reply = "lost"
    BY DEF OrderKeptUnlessLost
  <2>1. j \in DOMAIN air
    BY <1>2
  <2>2. CASE k \in DOMAIN air
    BY <1>2, <2>1, <2>2 DEF IInv, NotesInOrder, OrderKeptUnlessLost
  <2>3. CASE k \notin DOMAIN air
    <3>1. k = Len(air) + 1
      BY <1>2, <2>3
    <3>2. air'[k].note = request[r].note
      BY <1>1, <1>2, <3>1
    <3>3. air[j].note <= note /\ air'[j].note = air[j].note /\ air[j].note \in Nat
      BY <1>2, <2>1 DEF IInv, NotesInOrder
    <3> QED BY <1>3, <1>4, <3>2, <3>3
  <2> QED BY <2>2, <2>3
<1> QED BY <1>5, <1>6 DEF NotesInOrder

\* A message that is published goes from the list to the air.
LEMMA PublishInvariant ==
  ASSUME IInv, NEW r \in Requests, Publish(r)
  PROVE  IInv'
<1>1. Running(r)
  BY DEF Publish
<1>2. PICK place \in DOMAIN request[r].todo :
        /\ air' = Append(air, Message(r, place))
        /\ request' = [request EXCEPT ![r].todo = Without(r, place)]
  BY DEF Publish
<1>3. UNCHANGED <<config, process, note, history>>
  BY DEF Publish
<1> DEFINE m == Message(r, place)
           i == request[r].item
<1>4. i \in Alerts /\ m \in AirType /\ m.to \in Recipients(Payload[i])
  BY <1>1, MessageType
<1>5. m.note = request[r].note /\ m.alert = i /\ m.to = request[r].todo[place]
  BY DEF Message
<1>6. /\ Without(r, place) \in TargetLists
      /\ DOMAIN Without(r, place) = DOMAIN request[r].todo \ {place}
      /\ \A k \in DOMAIN Without(r, place) : Without(r, place)[k] = request[r].todo[k]
  BY <1>1, WithoutType
<1>7. /\ request' \in [Requests -> RequestType]
      /\ \A q \in Requests \ {r} : request'[q] = request[q]
      /\ request'[r].reply = request[r].reply /\ request'[r].note = request[r].note
      /\ request'[r].item = i /\ request'[r].todo = Without(r, place)
  BY <1>1, <1>2, <1>6, RunningRequest DEF RequestType
<1>8. air \in Seq(AirType)
  BY DEF IInv, Types
<1> HIDE DEF m
<1>9. \A n, a : Heard(n, a)' =
        Heard(n, a) \cup IF m.note = n /\ m.alert = a THEN {m.to} ELSE {}
  BY <1>2, <1>4, <1>8, HeardGrows DEF m
<1>10. \A n \in Notes, a \in Alerts : Heard(n, a) \subseteq Heard(n, a)'
  BY <1>9
<1>11. \A s \in Severities : Recipients(s)' = Recipients(s)
  BY <1>3, ConfigStays DEF IInv, Types
<1>12. OnlyRecipientsHear'
  <2> SUFFICES ASSUME NEW n \in Notes, NEW a \in Alerts
               PROVE  Heard(n, a)' \subseteq Recipients(Payload[a])
    BY <1>11, PayloadType DEF OnlyRecipientsHear
  <2>1. Heard(n, a) \subseteq Recipients(Payload[a])
    BY DEF IInv, Routed, OnlyRecipientsHear
  <2>2. m.alert = a => m.to \in Recipients(Payload[a])
    BY <1>4, <1>5
  <2> QED BY <1>9, <2>1, <2>2
<1>13. NotesInOrder'
  BY <1>1, <1>2, <1>3, <1>7, PublishOrder
<1>14. ShutdownInOrder'
  BY <1>3, <1>7, CalmShutdown
<1>15. ASSUME NEW a \in Alerts, a <= request'[r].item, <<r, a>> \notin trouble' \cup unheard',
              NEW t \in Recipients(Payload[a])
       PROVE  Served(r, a, t)'
  <2>1. Served(r, a, t)
    BY <1>1, <1>3, <1>7, <1>15 DEF IInv, Delivered, Running, history
  <2>2. CASE t \in Heard(request[r].note, a)
    <3>1. t \in Heard(request[r].note, a)'
      BY <1>7, <1>9, <2>2
    <3> QED BY <3>1 DEF Served
  <2>3. CASE a = i /\ \E k \in DOMAIN request[r].todo : request[r].todo[k] = t
    <3>1. PICK k \in DOMAIN request[r].todo : request[r].todo[k] = t
      BY <2>3
    <3>2. CASE k = place
      <4>1. t \in Heard(request[r].note, a)'
        BY <1>5, <1>7, <1>9, <2>3, <3>1, <3>2
      <4> QED BY <4>1 DEF Served
    <3>3. CASE k # place
      BY <1>6, <1>7, <2>3, <3>1, <3>3 DEF Served
    <3> QED BY <3>2, <3>3
  <2> QED BY <2>1, <2>2, <2>3 DEF Served
<1>16. /\ i <= Len(Payload) + 1
       /\ \A k \in DOMAIN request'[r].todo : request'[r].todo[k] \in Recipients(Payload[i])
       /\ trouble' = trouble /\ unheard' = unheard /\ hurried' = hurried
  BY <1>1, <1>3, <1>4, <1>6, <1>7, RunningRequest, Constants DEF IInv, Routed, history
<1>17. Advances(r)
  BY <1>1, <1>3, <1>4, <1>7, <1>10, <1>15, <1>16 DEF Advances
<1>18. air' \in Seq(AirType)
  BY <1>2, <1>4, <1>8 DEF m
<1> QED BY <1>12, <1>13, <1>14, <1>16, <1>17, <1>18, AdvanceInvariant DEF IInv, Types

\* The alert in hand is lost, with one message of its list or with all.
LEMMA LossInvariant ==
  ASSUME IInv, NEW r \in Requests, Running(r), UNCHANGED <<config, process, note, air>>,
         request[r].item \in Alerts, Lose(r, request[r].item),
         NEW list \in TargetLists, request' = [request EXCEPT ![r].todo = list],
         \A k \in DOMAIN list : k \in DOMAIN request[r].todo /\ list[k] = request[r].todo[k]
  PROVE  IInv'
<1> DEFINE i == request[r].item
<1>1. /\ request' \in [Requests -> RequestType]
      /\ \A q \in Requests \ {r} : request'[q] = request[q]
      /\ request'[r].reply = request[r].reply /\ request'[r].note = request[r].note
      /\ request'[r].item = i /\ request'[r].todo = list
  BY RunningRequest DEF RequestType
<1>2. /\ trouble' \in SUBSET (Requests \X Alerts) /\ unheard' \in SUBSET (Requests \X Alerts)
      /\ trouble \subseteq trouble' /\ unheard \subseteq unheard'
      /\ hurried' = hurried
      /\ <<r, i>> \in trouble' \cup unheard'
  BY LoseType
<1>3. ShutdownInOrder'
  BY <1>1, LoseInOrder DEF IInv
<1>4. ASSUME NEW a \in Alerts, a <= i, <<r, a>> \notin trouble' \cup unheard',
             NEW t \in Recipients(Payload[a])
      PROVE  Served(r, a, t)'
  <2>1. a # i
    BY <1>2, <1>4
  <2>2. Served(r, a, t)
    BY <1>2, <1>4 DEF IInv, Delivered, Running
  <2>3. t \in Heard(request[r].note, a)
    BY <2>1, <2>2 DEF Served
  <2>4. t \in Heard(request[r].note, a)'
    BY <1>1, <2>3, HeardStays
  <2> QED BY <2>4 DEF Served
<1>5. \A n \in Notes, a \in Alerts : Heard(n, a) \subseteq Heard(n, a)'
  BY HeardStays
<1>6. /\ i <= Len(Payload) + 1
      /\ \A k \in DOMAIN list : list[k] \in Recipients(Payload[i])
  BY RunningRequest, Constants DEF IInv, Routed
<1>7. Advances(r)
  BY <1>1, <1>2, <1>4, <1>5, <1>6 DEF Advances
<1> QED BY <1>2, <1>3, <1>7, SilentAdvance

\* A failure costs the messages left of the alert.
LEMMA PublishFailsInvariant ==
  ASSUME IInv, NEW r \in Requests, PublishFails(r)
  PROVE  IInv'
<1>1. /\ Running(r) /\ UNCHANGED <<config, process, note, air>>
      /\ request' = [request EXCEPT ![r].todo = NoTargets] /\ Lose(r, request[r].item)
  BY DEF PublishFails
<1>2. request[r].item \in Alerts
  BY DEF PublishFails, IInv, Slots
<1> QED BY <1>1, <1>2, NoTargetsType, LossInvariant

\* A message that is dropped costs itself.
LEMMA PublishDroppedInvariant ==
  ASSUME IInv, NEW r \in Requests, PublishDropped(r)
  PROVE  IInv'
<1>1. Running(r) /\ UNCHANGED <<config, process, note, air>> /\ Lose(r, request[r].item)
  BY DEF PublishDropped
<1>2. PICK place \in DOMAIN request[r].todo : request' = [request EXCEPT ![r].todo = Without(r, place)]
  BY DEF PublishDropped
<1>3. request[r].item \in Alerts
  BY <1>1, MessageType
<1>4. /\ Without(r, place) \in TargetLists
      /\ DOMAIN Without(r, place) = DOMAIN request[r].todo \ {place}
      /\ \A k \in DOMAIN Without(r, place) : Without(r, place)[k] = request[r].todo[k]
  BY <1>1, WithoutType
<1> QED BY <1>1, <1>2, <1>3, <1>4, LossInvariant

-----------------------------------------------------------------------------
(* Alertmanager, and the end of the program. *)

\* Neither answers nor the shutdown touch what handlers have done and have to do.
LEMMA QuietInvariant ==
  ASSUME IInv, UNCHANGED <<config, note, air, trouble, unheard>>,
         request' \in [Requests -> RequestType],
         \A q \in Requests :
           /\ request'[q].note = request[q].note /\ request'[q].item = request[q].item
           /\ request'[q].todo = request[q].todo
           /\ Posted(q)' = Posted(q)
           /\ ~Posted(q) => request'[q] = request[q]
           /\ request[q].reply \in {"ok", "lost"} => request'[q].reply = request[q].reply
           /\ request'[q].reply = "ok" => Handled(q),
         phase' \in {"serving", "stopping", "gone"},
         accepting' \in BOOLEAN, connected' \in BOOLEAN, hurried' \in BOOLEAN,
         ShutdownInOrder'
  PROVE  IInv'
<1>1. ConfigOK' /\ \A s \in Severities : Recipients(s)' = Recipients(s)
  BY ConfigStays DEF IInv, Types
<1>2. Types'
  BY <1>1 DEF IInv, Types
<1>3. Slots'
  BY DEF IInv, Slots, Handled, Between
<1>4. InOrder'
  <2>1. \A r \in Requests : \A q \in 1 .. r - 1 : q \in Requests
    BY Constants DEF Requests
  <2> QED BY <2>1 DEF IInv, InOrder
<1>5. EarlierSettled'
  BY DEF IInv, EarlierSettled
<1>6. NotesInOrder'
  <2>1. note' = note /\ note \in Nat
    BY Constants DEF IInv, Types
  <2> QED BY <2>1, SilentOrder
<1>7. Routed'
  <2>1. OnlyRecipientsHear'
    BY <1>1, HeardStays, PayloadType DEF IInv, Routed, OnlyRecipientsHear
  <2> QED BY <1>1, <2>1, PayloadType DEF IInv, Routed
<1>8. Delivered'
  <2> SUFFICES ASSUME NEW q \in Requests, NEW i \in Alerts, Posted(q), i <= request[q].item,
                      <<q, i>> \notin trouble \cup unheard, NEW t \in Recipients(Payload[i])
               PROVE  Served(q, i, t)'
    BY <1>1, PayloadType DEF Delivered
  <2>1. Served(q, i, t)
    BY DEF IInv, Delivered
  <2>2. Heard(request[q].note, i)' = Heard(request[q].note, i)
    BY HeardStays
  <2> QED BY <2>1, <2>2 DEF Served
<1> QED BY <1>2, <1>3, <1>4, <1>5, <1>6, <1>7, <1>8 DEF IInv

\* A request is answered or given up.
LEMMA ReplyInvariant ==
  ASSUME IInv, NEW r \in Requests, Answer(r) \/ GiveUp(r)
  PROVE  IInv'
<1>1. PICK said \in {"ok", "lost"} :
        request' = [request EXCEPT ![r].reply = said] /\ (said = "ok" => Handled(r))
  BY DEF Answer, GiveUp
<1>2. UNCHANGED <<config, process, note, air, history>> /\ request[r].reply = "waiting"
  BY DEF Answer, GiveUp
<1>3. request \in [Requests -> RequestType] /\ request[r] \in RequestType
  BY DEF IInv, Types
<1>4. /\ request' \in [Requests -> RequestType]
      /\ \A q \in Requests \ {r} : request'[q] = request[q]
      /\ request'[r].reply = said /\ request'[r].note = request[r].note
      /\ request'[r].item = request[r].item /\ request'[r].todo = request[r].todo
  BY <1>1, <1>3 DEF RequestType
<1>5. \A q \in Requests :
        /\ request'[q].note = request[q].note /\ request'[q].item = request[q].item
        /\ request'[q].todo = request[q].todo
        /\ Posted(q)' = Posted(q)
        /\ ~Posted(q) => request'[q] = request[q]
        /\ request[q].reply \in {"ok", "lost"} => request'[q].reply = request[q].reply
        /\ request'[q].reply = "ok" => Handled(q)
  BY <1>1, <1>2, <1>4 DEF Posted, IInv, Slots
<1>6. ShutdownInOrder'
  BY <1>2, <1>4, <1>5 DEF IInv, ShutdownInOrder, ShutdownLosesNoAwaited, Idle, config, process, history
<1> QED BY <1>2, <1>4, <1>5, <1>6, QuietInvariant DEF IInv, Types, process, history

\* The end of the program: the webhook closes before the standalone client.
LEMMA EndInvariant ==
  ASSUME IInv, Stop \/ StopAccepting \/ Disconnect \/ Exit
  PROVE  IInv'
<1>1. UNCHANGED <<config, note, request, air, trouble, unheard>>
  BY DEF Stop, StopAccepting, Disconnect, Exit, history
<1>2. /\ phase' \in {"serving", "stopping", "gone"}
      /\ accepting' \in BOOLEAN /\ connected' \in BOOLEAN /\ hurried' \in BOOLEAN
  BY DEF Stop, StopAccepting, Disconnect, Exit, history, IInv, Types
<1>3. Idle' = Idle
  BY <1>1 DEF Idle
<1>4. ShutdownInOrder'
  <2> USE <1>1, <1>3 DEF IInv, Types, ShutdownInOrder, ShutdownLosesNoAwaited, config
  <2>1. CASE Stop
    BY <2>1 DEF Stop, history
  <2>2. CASE StopAccepting
    BY <2>2 DEF StopAccepting, history
  <2>3. CASE Disconnect
    BY <2>3 DEF Disconnect
  <2>4. CASE Exit
    BY <2>4 DEF Exit
  <2> QED BY <2>1, <2>2, <2>3, <2>4
<1>5. \A q \in Requests :
        /\ Posted(q)' = Posted(q)
        /\ request'[q].reply = "ok" => Handled(q)
  BY <1>1 DEF Posted, IInv, Slots
<1> QED BY <1>1, <1>2, <1>4, <1>5, QuietInvariant DEF IInv, Types

\* Alertmanager posts when all its requests are answered or given up.
LEMMA AllSettled ==
  ASSUME IInv, Notify \/ Retry
  PROVE  \A q \in Requests : Posted(q) => request[q].reply \in {"ok", "lost"}
<1>1. \A q \in Requests : q \in Int
  BY DEF Requests
<1>2. \A q \in LastPosted : request[q].reply \in {"ok", "lost"}
  <2>1. CASE Notify
    BY <2>1 DEF Notify
  <2>2. CASE Retry
    <3>1. PICK r \in LastPosted : request[r].reply = "lost"
      BY <2>2 DEF Retry
    <3>2. \A q \in LastPosted : q = r
      BY <1>1 DEF LastPosted
    <3> QED BY <3>1, <3>2
  <2> QED BY <2>1, <2>2
<1>3. ASSUME NEW q \in Requests, Posted(q), q \notin LastPosted
      PROVE  request[q].reply \in {"ok", "lost"}
  <2>1. PICK p \in Requests : p > q /\ Posted(p)
    BY <1>3 DEF LastPosted
  <2>2. q \in 1 .. p - 1
    BY <2>1, Constants DEF Requests
  <2> QED BY <2>1, <2>2 DEF IInv, InOrder
<1> QED BY <1>2, <1>3

\* A notification is posted, or posted again, to the first unused slot.
LEMMA PostInvariant ==
  ASSUME IInv, Notify \/ Retry
  PROVE  IInv'
<1>1. PICK n \in Notes : Post(n) /\ n \in {note, note + 1}
  <2>1. CASE Notify
    <3>1. note + 1 \in Notes
      BY <2>1, Constants DEF Notify, IInv, Types, Notes
    <3> QED BY <2>1, <3>1 DEF Notify
  <2>2. CASE Retry
    <3>1. PICK r \in Requests : Posted(r)
      BY <2>2 DEF Retry, LastPosted
    <3>2. request[r].note \in 1 .. note /\ note \in 0 .. MaxNotes
      BY <3>1 DEF IInv, Slots, Types
    <3>3. note \in Notes
      BY <3>2, Constants DEF Notes
    <3> QED BY <2>2, <3>3 DEF Retry
  <2> QED BY <2>1, <2>2
<1>2. PICK r \in Requests :
        /\ accepting /\ ~Posted(r) /\ \A q \in 1 .. r - 1 : Posted(q)
        /\ request' = [request EXCEPT ![r] = [Unused EXCEPT !.note = n, !.reply = "waiting"]]
  BY <1>1 DEF Post
<1>3. UNCHANGED <<config, process, air, history>> /\ note' = n
  BY <1>1 DEF Post
<1>4. note \in Nat /\ n \in Nat /\ note' \in 0 .. MaxNotes /\ note <= note' /\ 1 <= note'
  BY <1>1, <1>3, Constants DEF IInv, Types, Notes
<1> DEFINE new == [note |-> n, reply |-> "waiting", item |-> 0, todo |-> NoTargets]
<1>5. new \in RequestType
  BY <1>4, NoTargetsType DEF RequestType
<1>6. request \in [Requests -> RequestType]
  BY DEF IInv, Types
<1>7. /\ request' \in [Requests -> RequestType]
      /\ request'[r] = new
      /\ \A q \in Requests \ {r} : request'[q] = request[q]
  BY <1>2, <1>5, <1>6 DEF Unused
<1> HIDE DEF new
<1>8. /\ new.note = n /\ new.reply = "waiting" /\ new.item = 0 /\ DOMAIN new.todo = {}
  BY NoTargetsType DEF new
<1>9. /\ Posted(r)'
      /\ \A q \in Requests \ {r} : Posted(q)' = Posted(q)
  BY <1>7, <1>8 DEF Posted
<1>10. \A q \in Requests : Posted(q) => request[q].reply \in {"ok", "lost"}
  BY AllSettled
<1>11. ConfigOK' /\ \A s \in Severities : Recipients(s)' = Recipients(s)
  BY <1>3, ConfigStays DEF IInv, Types
<1>12. Types'
  BY <1>3, <1>4, <1>7, <1>11 DEF IInv, Types, process, history
<1>13. Slots'
  <2>1. 0 <= Len(Payload) + 1 /\ 0 \notin Alerts
    BY Constants
  <2> QED BY <1>3, <1>4, <1>7, <1>8, <1>9, <2>1 DEF IInv, Slots, Handled, Between
<1>14. InOrder'
  <2> SUFFICES ASSUME NEW p \in Requests, Posted(p)', NEW q \in 1 .. p - 1
               PROVE  Posted(q)' /\ request'[q].reply \in {"ok", "lost"}
    BY DEF InOrder
  <2>1. q \in Requests /\ p \in Int /\ r \in Int /\ 1 <= r
    BY Constants DEF Requests
  <2>2. CASE p = r
    BY <1>2, <1>7, <1>9, <1>10, <2>1, <2>2
  <2>3. CASE p # r
    <3>1. Posted(p) /\ \A k \in 1 .. p - 1 : Posted(k) /\ request[k].reply \in {"ok", "lost"}
      BY <1>9, <2>3 DEF IInv, InOrder
    <3>2. q # r
      BY <1>2, <3>1
    <3> QED BY <1>7, <1>9, <2>1, <3>1, <3>2
  <2> QED BY <2>2, <2>3
<1>15. EarlierSettled'
  BY <1>3, <1>4, <1>7, <1>8, <1>9, <1>10 DEF EarlierSettled
<1>16. NotesInOrder'
  <2>1. \A q \in Requests : request[q].reply = "lost" =>
          request'[q].reply = "lost" /\ request'[q].note = request[q].note
    BY <1>2, <1>7 DEF Posted, IInv, Slots, Unused
  <2> QED BY <1>3, <1>4, <2>1, SilentOrder
<1>17. Routed'
  <2>1. OnlyRecipientsHear'
    BY <1>3, <1>11, HeardStays, PayloadType DEF IInv, Routed, OnlyRecipientsHear
  <2> QED BY <1>7, <1>8, <1>11, <2>1, PayloadType DEF IInv, Routed
<1>18. Delivered'
  <2> SUFFICES ASSUME NEW q \in Requests, NEW i \in Alerts, Posted(q)', i <= request'[q].item,
                      <<q, i>> \notin trouble \cup unheard, NEW t \in Recipients(Payload[i])
               PROVE  Served(q, i, t)'
    BY <1>3, <1>11, PayloadType DEF Delivered, history
  <2>1. q # r
    BY <1>7, <1>8, Constants
  <2>2. Served(q, i, t) /\ request'[q] = request[q]
    BY <1>7, <1>9, <2>1 DEF IInv, Delivered
  <2>3. Heard(request[q].note, i)' = Heard(request'[q].note, i)
    BY <1>3, <2>2 DEF Heard
  <2> QED BY <2>2, <2>3 DEF Served
<1>19. ShutdownInOrder'
  BY <1>2, <1>3, <1>7, <1>8 DEF IInv, ShutdownInOrder, ShutdownLosesNoAwaited, Idle, Posted,
     config, process, history
<1> QED BY <1>12, <1>13, <1>14, <1>15, <1>16, <1>17, <1>18, <1>19 DEF IInv

-----------------------------------------------------------------------------
(* The invariant. *)

\* It holds before anything is posted.
LEMMA InitInvariant == Init => IInv
<1> SUFFICES ASSUME Init PROVE IInv
  OBVIOUS
<1>1. Unused \in RequestType /\ Unused.item = 0 /\ Unused.reply = "none" /\ DOMAIN Unused.todo = {}
  BY NoTargetsType DEF Unused, RequestType
<1>2. ConfigOK
  BY AlertAssumption DEF Init, ConfigOK
<1>3. request = [r \in Requests |-> Unused] /\ air = <<>> /\ note = 0
  BY DEF Init
<1>4. trouble = {} /\ unheard = {} /\ 0 \in 0 .. MaxNotes
  BY Constants DEF Init
<1>5. Types
  <2>1. request \in [Requests -> RequestType]
    BY <1>1, <1>3
  <2>2. air \in Seq(AirType)
    BY <1>3
  <2>3. trouble \in SUBSET (Requests \X Alerts) /\ unheard \in SUBSET (Requests \X Alerts)
    BY <1>4
  <2>4. /\ phase = "serving" /\ accepting = TRUE /\ connected = TRUE /\ hurried = FALSE
        /\ note = 0
    BY DEF Init
  <2> QED BY <1>2, <1>4, <2>1, <2>2, <2>3, <2>4 DEF Types
<1>6. \A r \in Requests : ~Posted(r) /\ request[r] = Unused
  BY <1>1, <1>3 DEF Posted
<1>7. Slots
  <2>1. 0 <= Len(Payload) + 1
    BY Constants
  <2> QED BY <1>1, <1>6, <2>1 DEF Slots, Between
<1>8. InOrder /\ EarlierSettled /\ Delivered
  BY <1>6 DEF InOrder, EarlierSettled, Delivered
<1>9. NotesInOrder
  BY <1>3 DEF NotesInOrder, OrderKeptUnlessLost
<1>10. Routed
  <2>1. \A n, i : Heard(n, i) = {}
    BY <1>3 DEF Heard
  <2> QED BY <1>1, <1>6, <2>1 DEF Routed, OnlyRecipientsHear
<1>11. ShutdownInOrder
  BY <1>4 DEF Init, ShutdownInOrder, ShutdownLosesNoAwaited
<1> QED BY <1>5, <1>7, <1>8, <1>9, <1>10, <1>11 DEF IInv

\* Every step keeps it.
LEMMA NextInvariant == IInv /\ [Next]_vars => IInv'
<1> SUFFICES ASSUME IInv, [Next]_vars PROVE IInv'
  OBVIOUS
<1>1. CASE Notify \/ Retry
  BY <1>1, PostInvariant
<1>2. CASE \E r \in Requests : NextAlert(r)
  BY <1>2, NextAlertInvariant
<1>3. CASE \E r \in Requests : NextAlertOffline(r)
  BY <1>3, NextAlertOfflineInvariant
<1>4. CASE \E r \in Requests : Publish(r)
  BY <1>4, PublishInvariant
<1>5. CASE \E r \in Requests : PublishFails(r)
  BY <1>5, PublishFailsInvariant
<1>6. CASE \E r \in Requests : PublishDropped(r)
  BY <1>6, PublishDroppedInvariant
<1>7. CASE \E r \in Requests : Answer(r) \/ GiveUp(r)
  BY <1>7, ReplyInvariant
<1>8. CASE Stop \/ StopAccepting \/ Disconnect \/ Exit
  BY <1>8, EndInvariant
<1>9. CASE UNCHANGED vars
  <2>1. /\ UNCHANGED <<config, process, history>>
        /\ UNCHANGED <<note, request, air>>
    BY <1>9 DEF vars
  <2>2. ShutdownInOrder'
    BY <2>1, CalmShutdown
  <2>3. \A q \in Requests : Posted(q)' = Posted(q) /\ (request'[q].reply = "ok" => Handled(q))
    BY <2>1 DEF Posted, IInv, Slots
  <2> QED BY <2>1, <2>2, <2>3, QuietInvariant DEF IInv, Types, process, history
<1> QED BY <1>1, <1>2, <1>3, <1>4, <1>5, <1>6, <1>7, <1>8, <1>9 DEF Next

\* The invariant holds in every reachable state.
THEOREM Invariance == Spec => []IInv
BY InitInvariant, NextInvariant, PTL DEF Spec

-----------------------------------------------------------------------------
(* The properties. *)

\* Every variable keeps its type.
THEOREM TypeCorrect == Spec => []TypeOK
<1>1. IInv => TypeOK
  <2> SUFFICES ASSUME IInv PROVE TypeOK
    OBVIOUS
  <2>1. ASSUME NEW r \in Requests
        PROVE  /\ request[r].note \in 0 .. MaxNotes
               /\ request[r].reply \in {"none", "waiting", "ok", "lost"}
               /\ request[r].item \in 0 .. Len(Payload) + 1
               /\ \A place \in DOMAIN request[r].todo : request[r].todo[place] \in Targets
    <3>1. request[r] \in RequestType
      BY DEF IInv, Types
    <3>2. PICK places \in SUBSET Nat : request[r].todo \in [places -> Targets]
      BY <3>1 DEF RequestType, TargetLists
    <3>3. \A place \in DOMAIN request[r].todo : request[r].todo[place] \in Targets
      BY <3>2
    <3>4. request[r].note \in 0 .. MaxNotes
      <4>1. CASE Posted(r)
        <5>1. request[r].note \in 1 .. note /\ note \in 0 .. MaxNotes
          BY <4>1 DEF IInv, Slots, Types
        <5> QED BY <5>1, Constants
      <4>2. CASE ~Posted(r)
        <5>1. request[r].note = 0
          BY <4>2 DEF IInv, Slots, Unused
        <5> QED BY <5>1, Constants
      <4> QED BY <4>1, <4>2
    <3>5. request[r].item <= Len(Payload) + 1
      BY DEF IInv, Slots
    <3> QED BY <3>1, <3>3, <3>4, <3>5, Constants DEF RequestType
  <2>2. trouble \cup unheard \subseteq Requests \X Alerts
    BY DEF IInv, Types
  <2> QED BY <2>1, <2>2 DEF IInv, Types, ConfigOK, AirType, TypeOK
<1> QED BY Invariance, <1>1, PTL

\* No alert reaches anyone it is not routed to.
THEOREM RecipientsOnly == Spec => []OnlyRecipientsHear
<1>1. IInv => OnlyRecipientsHear
  BY DEF IInv, Routed
<1> QED BY Invariance, <1>1, PTL

\* What is answered and was not lost has reached its recipients.
THEOREM Answered == Spec => []AnsweredMeansSent
<1>1. IInv => AnsweredMeansSent
  <2> SUFFICES ASSUME IInv, NEW r \in Requests, NEW i \in Alerts, request[r].reply = "ok",
                      <<r, i>> \notin trouble \cup unheard
               PROVE  Heard(request[r].note, i) = Recipients(Payload[i])
    BY DEF AnsweredMeansSent
  <2>1. Posted(r) /\ request[r].item > Len(Payload) /\ request[r].item \in Nat
    BY DEF Posted, IInv, Slots, Handled, Types, RequestType
  <2>2. i < request[r].item /\ i <= request[r].item
    BY <2>1, Constants
  <2>3. Recipients(Payload[i]) \subseteq Heard(request[r].note, i)
    <3> SUFFICES ASSUME NEW t \in Recipients(Payload[i]) PROVE t \in Heard(request[r].note, i)
      OBVIOUS
    <3>1. Served(r, i, t)
      BY <2>1, <2>2 DEF IInv, Delivered
    <3> QED BY <2>1, <2>2, <3>1, Constants DEF Served
  <2>4. Heard(request[r].note, i) \subseteq Recipients(Payload[i])
    BY <2>1, PostedNote DEF IInv, Routed, OnlyRecipientsHear
  <2> QED BY <2>3, <2>4
<1> QED BY Invariance, <1>1, PTL

\* Only a lost answer lets a notification overtake another.
THEOREM OrderOfNotifications == Spec => []OrderKeptUnlessLost
<1>1. IInv => OrderKeptUnlessLost
  BY DEF IInv, NotesInOrder
<1> QED BY Invariance, <1>1, PTL

\* A shutdown that waits costs no alert that is waited for.
THEOREM ShutdownKeepsAwaited == Spec => []ShutdownLosesNoAwaited
<1>1. IInv => ShutdownLosesNoAwaited
  BY DEF IInv, ShutdownInOrder
<1> QED BY Invariance, <1>1, PTL

-----------------------------------------------------------------------------
(* Copies. *)

\* What there is to publish of alert i of a notification.
PlanOf(i) == Plan(ToAlert(Payload[i]))

\* What a handler has in hand is left over from the plan of its alert.
FromPlan ==
  \A r \in Requests : request[r].item \in Alerts =>
    \A place \in DOMAIN request[r].todo :
      /\ place \in DOMAIN PlanOf(request[r].item)
      /\ request[r].todo[place] = PlanOf(request[r].item)[place]

\* Handler r has left a place of the plan of alert i behind.
Past(r, i, place) ==
  \/ i < request[r].item
  \/ i = request[r].item /\ place \notin DOMAIN request[r].todo

\* The messages on the air that say the same.
Copies(m) == {k \in DOMAIN air : air[k] = m}

\* The occasions to publish it that are over: handlers and places of the plan.
Occasions(m) ==
  {o \in Requests \X DOMAIN PlanOf(m.alert) :
     /\ request[o[1]].note = m.note
     /\ PlanOf(m.alert)[o[2]] = m.to
     /\ Past(o[1], m.alert, o[2])}

\* A message is never on the air more often than there were occasions.
CopiesCounted == \A m \in AirType : Cardinality(Copies(m)) <= Cardinality(Occasions(m))

\* Inductive, given IInv.
CopiesInv == FromPlan /\ CopiesCounted

\* A plan is for the configuration and its places are finitely many.
LEMMA PlanPlaces ==
  ASSUME ConfigOK, NEW s \in Severities
  PROVE  IsFiniteSet(DOMAIN Plan(ToAlert(s)))
<1> DEFINE route == RouteOf(s)
           alert == ToAlert(s)
           converted == ConvertAlertRoute(route)
<1>1. IsFiniteSet(DOMAIN alert.targets)
  <2>1. CASE route = NoRoute
    BY <2>1, NoTargetsType, FS_EmptySet DEF ToAlert
  <2>2. CASE route # NoRoute
    <3>1. route \in Written
      BY <2>2, RouteType
    <3>2. /\ converted.next \in Nat
          /\ \A k \in DOMAIN converted.targets : k \in Nat /\ 0 < k /\ k < converted.next
      BY <3>1, ConvertType
    <3> HIDE DEF converted
    <3>3. DOMAIN converted.targets \in SUBSET (1 .. converted.next)
      BY <3>2
    <3>4. IsFiniteSet(1 .. converted.next)
      BY <3>2, FS_Interval
    <3>5. IsFiniteSet(DOMAIN converted.targets)
      BY <3>3, <3>4, FS_Subset
    <3>6. IsFiniteSet(DOMAIN converted.targets \cup {converted.next})
      BY <3>5, FS_AddElement
    <3>7. DOMAIN alert.targets \in {DOMAIN converted.targets,
                                    DOMAIN converted.targets \cup {converted.next}}
      BY <2>2 DEF ToAlert, WithTarget, converted
    <3> QED BY <3>5, <3>6, <3>7
  <2> QED BY <2>1, <2>2
<1> HIDE DEF alert
<1>2. IsFiniteSet({0}) /\ IsFiniteSet(DOMAIN alert.targets \cup {0})
  <2>1. IsFiniteSet({} \cup {0})
    BY FS_EmptySet, FS_AddElement
  <2> QED BY <1>1, <2>1, FS_AddElement
<1>3. DOMAIN Plan(alert) \in {{0}, DOMAIN alert.targets \cup {0}, DOMAIN alert.targets}
  BY NoTargetsType DEF Plan, WithTarget
<1> QED BY <1>1, <1>2, <1>3 DEF alert

\* The plans are those of the configuration, which never changes.
LEMMA PlansStay ==
  ASSUME UNCHANGED config, NEW i
  PROVE  PlanOf(i)' = PlanOf(i)
<1>1. sender' = sender /\ file' = file
  BY DEF config
<1>2. \A s : RouteOf(s)' = RouteOf(s) /\ FromNode' = FromNode
  BY <1>1 DEF RouteOf, Route, FromNode
<1>3. \A s : ToAlert(s)' = ToAlert(s)
  BY <1>2 DEF ToAlert
<1> QED BY <1>3 DEF PlanOf

\* All that is counted is finite.
LEMMA CountsAreFinite ==
  ASSUME IInv, NEW m \in AirType
  PROVE  /\ IsFiniteSet(Copies(m)) /\ IsFiniteSet(Occasions(m))
         /\ Cardinality(Copies(m)) \in Nat /\ Cardinality(Occasions(m)) \in Nat
         /\ IsFiniteSet(Requests) /\ IsFiniteSet(DOMAIN PlanOf(m.alert))
<1>1. IsFiniteSet(Copies(m))
  <2>1. DOMAIN air = 1 .. Len(air) /\ Len(air) \in Nat
    BY DEF IInv, Types
  <2>2. IsFiniteSet(DOMAIN air)
    BY <2>1, FS_Interval
  <2>3. Copies(m) \in SUBSET DOMAIN air
    BY DEF Copies
  <2> QED BY <2>2, <2>3, FS_Subset
<1>2. IsFiniteSet(Requests)
  BY Constants, FS_Interval DEF Requests
<1>3. IsFiniteSet(DOMAIN PlanOf(m.alert))
  <2>1. m.alert \in Alerts
    BY DEF AirType
  <2> QED BY <2>1, PayloadType, PlanPlaces DEF PlanOf, IInv, Types
<1>4. IsFiniteSet(Requests \X DOMAIN PlanOf(m.alert))
  BY <1>2, <1>3, FS_Product
<1>5. Occasions(m) \in SUBSET (Requests \X DOMAIN PlanOf(m.alert))
  BY DEF Occasions
<1>6. IsFiniteSet(Occasions(m))
  BY <1>4, <1>5, FS_Subset
<1> QED BY <1>1, <1>2, <1>3, <1>6, FS_CardinalityType

\* It stays finite.
LEMMA OccasionsStayFinite ==
  ASSUME IInv, UNCHANGED config, NEW m \in AirType
  PROVE  IsFiniteSet(Occasions(m)') /\ Cardinality(Occasions(m)') \in Nat
<1>1. IsFiniteSet(Requests \X DOMAIN PlanOf(m.alert))
  BY CountsAreFinite, FS_Product
<1>2. Occasions(m)' \in SUBSET (Requests \X DOMAIN PlanOf(m.alert)')
  BY DEF Occasions
<1>3. PlanOf(m.alert)' = PlanOf(m.alert)
  BY PlansStay
<1>4. IsFiniteSet(Occasions(m)')
  BY <1>1, <1>2, <1>3, FS_Subset
<1> QED BY <1>4, FS_CardinalityType

\* A step that publishes nothing keeps the count when no handler goes back.
LEMMA SilentCopies ==
  ASSUME IInv, CopiesInv, UNCHANGED <<config, air>>, FromPlan',
         \A q \in Requests : Posted(q) =>
           /\ request'[q].note = request[q].note
           /\ \A i \in Alerts : \A place : Past(q, i, place) => Past(q, i, place)'
  PROVE  CopiesInv'
<1> SUFFICES ASSUME NEW m \in AirType
             PROVE  Cardinality(Copies(m)') <= Cardinality(Occasions(m)')
  BY DEF CopiesInv, CopiesCounted
<1>1. Copies(m)' = Copies(m)
  BY DEF Copies
<1>2. m.note \in Notes /\ m.alert \in Alerts
  BY DEF AirType
<1>3. Occasions(m) \in SUBSET Occasions(m)'
  <2> SUFFICES ASSUME NEW o \in Occasions(m) PROVE o \in Occasions(m)'
    OBVIOUS
  <2>1. /\ o \in Requests \X DOMAIN PlanOf(m.alert) /\ request[o[1]].note = m.note
        /\ PlanOf(m.alert)[o[2]] = m.to /\ Past(o[1], m.alert, o[2])
    BY DEF Occasions
  <2>2. Posted(o[1])
    <3>1. m.note \in Nat /\ 1 <= m.note
      BY <1>2 DEF Notes
    <3>2. request[o[1]] # Unused
      BY <2>1, <3>1 DEF Unused
    <3> QED BY <2>1, <3>2 DEF IInv, Slots
  <2>3. PlanOf(m.alert)' = PlanOf(m.alert)
    BY PlansStay
  <2>4. request'[o[1]].note = m.note /\ Past(o[1], m.alert, o[2])'
    BY <1>2, <2>1, <2>2
  <2> QED BY <2>1, <2>3, <2>4 DEF Occasions
<1>4. IsFiniteSet(Occasions(m)') /\ Cardinality(Occasions(m)') \in Nat
  BY OccasionsStayFinite
<1>5. Cardinality(Occasions(m)) <= Cardinality(Occasions(m)')
  BY <1>3, <1>4, FS_Subset
<1>6. Cardinality(Copies(m)) <= Cardinality(Occasions(m))
  BY DEF CopiesInv, CopiesCounted
<1> QED BY <1>1, <1>4, <1>5, <1>6, CountsAreFinite

\* A message is published from a place of its own: it was no occasion before.
LEMMA PublishCopies ==
  ASSUME IInv, CopiesInv, NEW r \in Requests, Publish(r)
  PROVE  CopiesInv'
<1>1. Running(r) /\ UNCHANGED <<config, process, note, history>>
  BY DEF Publish
<1>2. PICK place \in DOMAIN request[r].todo :
        /\ air' = Append(air, Message(r, place))
        /\ request' = [request EXCEPT ![r].todo = Without(r, place)]
  BY DEF Publish
<1> DEFINE new == Message(r, place)
<1>3. PICK i \in Alerts : i = request[r].item
  BY <1>1, MessageType
<1>4. new \in AirType /\ new.note = request[r].note /\ new.alert = i /\ new.to = request[r].todo[place]
  BY <1>1, <1>3, MessageType DEF Message
<1>5. /\ DOMAIN Without(r, place) = DOMAIN request[r].todo \ {place}
      /\ \A k \in DOMAIN Without(r, place) : Without(r, place)[k] = request[r].todo[k]
  BY <1>1, WithoutType
<1>6. /\ \A q \in Requests : request'[q].note = request[q].note /\ request'[q].item = request[q].item
      /\ \A q \in Requests \ {r} : request'[q] = request[q]
      /\ request'[r].todo = Without(r, place)
  BY <1>1, <1>2, RunningRequest DEF RequestType
<1>7. \A j : PlanOf(j)' = PlanOf(j)
  BY <1>1, PlansStay
<1>8. FromPlan'
  BY <1>5, <1>6, <1>7 DEF CopiesInv, FromPlan
<1>9. \A q \in Requests : \A j \in Alerts : \A p : Past(q, j, p) => Past(q, j, p)'
  BY <1>5, <1>6 DEF Past
<1>10. /\ place \in DOMAIN PlanOf(i) /\ PlanOf(i)[place] = new.to
       /\ ~Past(r, i, place) /\ Past(r, i, place)'
  <2>1. i \in Nat
    BY <1>3, Constants
  <2> QED BY <1>3, <1>4, <1>5, <1>6, <2>1 DEF CopiesInv, FromPlan, Past
<1>11. /\ DOMAIN air' = DOMAIN air \cup {Len(air) + 1}
       /\ \A k \in DOMAIN air : air'[k] = air[k]
       /\ air'[Len(air) + 1] = new
  <2>1. air \in Seq(AirType)
    BY DEF IInv, Types
  <2> HIDE DEF new
  <2> QED BY <1>2, <1>4, <2>1 DEF new
<1> HIDE DEF new
<1>12. ASSUME NEW m \in AirType PROVE Cardinality(Copies(m)') <= Cardinality(Occasions(m)')
  <2>1. IsFiniteSet(Occasions(m)') /\ Cardinality(Occasions(m)') \in Nat
    BY <1>1, OccasionsStayFinite
  <2>2. Occasions(m) \in SUBSET Occasions(m)'
    <3>1. m.alert \in Alerts
      BY DEF AirType
    <3> QED BY <1>6, <1>7, <1>9, <3>1 DEF Occasions
  <2>3. /\ IsFiniteSet(Copies(m)) /\ IsFiniteSet(Occasions(m))
        /\ Cardinality(Copies(m)) \in Nat /\ Cardinality(Occasions(m)) \in Nat
        /\ Cardinality(Copies(m)) <= Cardinality(Occasions(m))
    BY CountsAreFinite DEF CopiesInv, CopiesCounted
  <2>4. CASE m = new
    <3>1. Copies(m)' = Copies(m) \cup {Len(air) + 1}
      BY <1>11, <2>4 DEF Copies
    <3>2. Cardinality(Copies(m)') \in {Cardinality(Copies(m)), Cardinality(Copies(m)) + 1}
      <4>1. Cardinality(Copies(m) \cup {Len(air) + 1}) =
              IF Len(air) + 1 \in Copies(m) THEN Cardinality(Copies(m)) ELSE Cardinality(Copies(m)) + 1
        BY <2>3, FS_AddElement
      <4> QED BY <3>1, <4>1
    <3>3. <<r, place>> \in Occasions(m)' /\ <<r, place>> \notin Occasions(m)
      <4>1. m.alert = i /\ m.note = request[r].note /\ request'[r].note = m.note
        BY <1>4, <1>6, <2>4
      <4>2. <<r, place>> \in Requests \X DOMAIN PlanOf(m.alert)'
        BY <1>7, <1>10, <4>1
      <4>3. PlanOf(m.alert)'[place] = m.to
        BY <1>7, <1>10, <2>4, <4>1
      <4>4. Past(r, m.alert, place)' /\ ~Past(r, m.alert, place)
        BY <1>10, <4>1
      <4>5. <<r, place>>[1] = r /\ <<r, place>>[2] = place
        OBVIOUS
      <4> QED BY <4>1, <4>2, <4>3, <4>4, <4>5 DEF Occasions
    <3>4. Cardinality(Occasions(m) \cup {<<r, place>>}) = Cardinality(Occasions(m)) + 1
      BY <2>3, <3>3, FS_AddElement
    <3>5. Occasions(m) \cup {<<r, place>>} \in SUBSET Occasions(m)'
      BY <2>2, <3>3
    <3>6. Cardinality(Occasions(m) \cup {<<r, place>>}) <= Cardinality(Occasions(m)')
      BY <2>1, <3>5, FS_Subset
    <3> QED BY <2>1, <2>3, <3>2, <3>4, <3>6
  <2>5. CASE m # new
    <3>1. Copies(m)' = Copies(m)
      BY <1>11, <2>5 DEF Copies
    <3>2. Cardinality(Occasions(m)) <= Cardinality(Occasions(m)')
      BY <2>1, <2>2, FS_Subset
    <3> QED BY <2>1, <2>3, <3>1, <3>2
  <2> QED BY <2>4, <2>5
<1>13. CopiesCounted'
  BY <1>12 DEF CopiesCounted
<1> QED BY <1>8, <1>13 DEF CopiesInv

\* A handler that drops messages, or takes the next alert, goes on all the same.
LEMMA SilentHandler ==
  ASSUME IInv, CopiesInv, NEW r \in Requests,
         \/ NextAlert(r) \/ NextAlertOffline(r)
         \/ PublishFails(r) \/ PublishDropped(r)
  PROVE  CopiesInv'
<1>1. Running(r) /\ UNCHANGED <<config, air>>
  BY DEF NextAlert, NextAlertOffline, PublishFails, PublishDropped
<1>2. /\ request \in [Requests -> RequestType] /\ request[r].item \in Nat
      /\ \A i \in Alerts : i \in Nat
  BY <1>1, RunningRequest, Constants
<1>3. \A j : PlanOf(j)' = PlanOf(j)
  BY <1>1, PlansStay
<1>4. PICK item \in Nat, todo \in TargetLists :
        /\ \A q \in Requests \ {r} : request'[q] = request[q]
        /\ request'[r].note = request[r].note
        /\ request'[r].item = item /\ request'[r].todo = todo
        /\ \/ /\ item = request[r].item
              /\ \A k \in DOMAIN todo : k \in DOMAIN request[r].todo /\ todo[k] = request[r].todo[k]
           \/ /\ item = request[r].item + 1
              /\ Between(r)
              /\ item \in Alerts => todo \in {PlanOf(item), request[r].todo}
  <2>1. CASE NextAlert(r)
    <3> DEFINE i    == request[r].item + 1
               list == IF i \in Alerts THEN PlanOf(i) ELSE NoTargets
    <3>1. list \in TargetLists /\ i \in Nat
      BY <1>2, PlanIsForRecipients, PayloadType, NoTargetsType DEF PlanOf, IInv, Types
    <3>2. request' = [request EXCEPT ![r].item = i, ![r].todo = list] /\ Between(r)
      BY <2>1 DEF NextAlert, PlanOf
    <3> HIDE DEF list
    <3>3. /\ \A q \in Requests \ {r} : request'[q] = request[q]
          /\ request'[r].note = request[r].note
          /\ request'[r].item = i /\ request'[r].todo = list
      BY <1>2, <3>2 DEF RequestType
    <3>4. i \in Alerts => list = PlanOf(i)
      BY DEF list
    <3> QED BY <3>1, <3>2, <3>3, <3>4
  <2>2. CASE NextAlertOffline(r)
    <3>1. request' = [request EXCEPT ![r].item = @ + 1] /\ Between(r) /\ request[r].item + 1 \in Nat
      BY <1>2, <2>2 DEF NextAlertOffline
    <3>2. /\ \A q \in Requests \ {r} : request'[q] = request[q]
          /\ request'[r].note = request[r].note
          /\ request'[r].item = request[r].item + 1 /\ request'[r].todo = request[r].todo
      BY <1>2, <3>1 DEF RequestType
    <3>3. request[r].todo \in TargetLists
      BY <1>1, RunningRequest
    <3> QED BY <3>1, <3>2, <3>3
  <2>3. CASE PublishFails(r)
    BY <1>2, <2>3, NoTargetsType DEF PublishFails, RequestType
  <2>4. CASE PublishDropped(r)
    <3>1. PICK place \in DOMAIN request[r].todo : request' = [request EXCEPT ![r].todo = Without(r, place)]
      BY <2>4 DEF PublishDropped
    <3>2. /\ Without(r, place) \in TargetLists
          /\ \A k \in DOMAIN Without(r, place) :
               k \in DOMAIN request[r].todo /\ Without(r, place)[k] = request[r].todo[k]
      BY <1>1, WithoutType
    <3>3. /\ \A q \in Requests \ {r} : request'[q] = request[q]
          /\ request'[r].note = request[r].note
          /\ request'[r].item = request[r].item /\ request'[r].todo = Without(r, place)
      BY <1>2, <3>1, <3>2 DEF RequestType
    <3> QED BY <1>2, <3>2, <3>3
  <2> QED BY <2>1, <2>2, <2>3, <2>4
<1>5. FromPlan'
  <2> SUFFICES ASSUME NEW q \in Requests, request'[q].item \in Alerts,
                      NEW place \in DOMAIN request'[q].todo
               PROVE  /\ place \in DOMAIN PlanOf(request'[q].item)
                      /\ request'[q].todo[place] = PlanOf(request'[q].item)[place]
    BY <1>3 DEF FromPlan
  <2>1. CASE q # r
    BY <1>4, <2>1 DEF CopiesInv, FromPlan
  <2>2. CASE q = r
    BY <1>4, <2>2 DEF CopiesInv, FromPlan, Between
  <2> QED BY <2>1, <2>2
<1>6. \A q \in Requests :
        /\ request'[q].note = request[q].note
        /\ \A i \in Alerts : \A place : Past(q, i, place) => Past(q, i, place)'
  <2> SUFFICES ASSUME NEW q \in Requests
               PROVE  /\ request'[q].note = request[q].note
                      /\ \A i \in Alerts : \A place : Past(q, i, place) => Past(q, i, place)'
    OBVIOUS
  <2>1. CASE q # r
    BY <1>4, <2>1 DEF Past
  <2>2. CASE q = r
    BY <1>2, <1>4, <2>2 DEF Past
  <2> QED BY <2>1, <2>2
<1> QED BY <1>1, <1>5, <1>6, SilentCopies

\* What nobody's handler does leaves lists and air alone.
LEMMA OtherCopies ==
  ASSUME IInv, CopiesInv, UNCHANGED <<config, air>>,
         \A q \in Requests :
           \/ /\ request'[q].note = request[q].note /\ request'[q].item = request[q].item
              /\ request'[q].todo = request[q].todo
           \/ ~Posted(q) /\ request'[q].item = 0
  PROVE  CopiesInv'
<1>1. \A j : PlanOf(j)' = PlanOf(j)
  BY PlansStay
<1>2. FromPlan'
  <2>1. 0 \notin Alerts
    BY Constants
  <2> QED BY <1>1, <2>1 DEF CopiesInv, FromPlan
<1>3. \A q \in Requests : Posted(q) =>
        /\ request'[q].note = request[q].note
        /\ \A i \in Alerts : \A place : Past(q, i, place) => Past(q, i, place)'
  BY DEF Past
<1> QED BY <1>2, <1>3, SilentCopies

\* A handler starts before the first alert.
LEMMA PostCopies ==
  ASSUME IInv, CopiesInv, Notify \/ Retry
  PROVE  CopiesInv'
<1>1. PICK r \in Requests :
        /\ ~Posted(r)
        /\ \E n : request' = [request EXCEPT ![r] = [Unused EXCEPT !.note = n, !.reply = "waiting"]]
  BY DEF Notify, Retry, Post
<1>2. UNCHANGED <<config, air>>
  BY DEF Notify, Retry, Post
<1>3. request \in [Requests -> RequestType]
  BY DEF IInv, Types
<1>4. request'[r].item = 0 /\ \A q \in Requests \ {r} : request'[q] = request[q]
  BY <1>1, <1>3 DEF Unused
<1> QED BY <1>1, <1>2, <1>4, OtherCopies

\* It holds before anything is posted.
LEMMA InitCopies == Init => CopiesInv
<1> SUFFICES ASSUME Init PROVE CopiesInv
  OBVIOUS
<1>1. air = <<>> /\ \A r \in Requests : request[r] = Unused
  BY DEF Init
<1>2. FromPlan
  <2>1. 0 \notin Alerts
    BY Constants
  <2> QED BY <1>1, <2>1 DEF FromPlan, Unused
<1>3. ASSUME NEW m \in AirType PROVE Cardinality(Copies(m)) <= Cardinality(Occasions(m))
  <2>1. Copies(m) = {}
    BY <1>1 DEF Copies
  <2>2. Cardinality(Copies(m)) = 0
    BY <2>1, FS_EmptySet
  <2>3. Cardinality(Occasions(m)) \in Nat
    BY InitInvariant, CountsAreFinite
  <2> QED BY <2>2, <2>3
<1> QED BY <1>2, <1>3 DEF CopiesInv, CopiesCounted

\* Every step keeps it.
LEMMA NextCopies == IInv /\ CopiesInv /\ [Next]_vars => CopiesInv'
<1> SUFFICES ASSUME IInv, CopiesInv, [Next]_vars PROVE CopiesInv'
  OBVIOUS
<1>1. CASE Notify \/ Retry
  BY <1>1, PostCopies
<1>2. CASE \E r \in Requests : NextAlert(r) \/ NextAlertOffline(r) \/ PublishFails(r) \/ PublishDropped(r)
  BY <1>2, SilentHandler
<1>3. CASE \E r \in Requests : Publish(r)
  BY <1>3, PublishCopies
<1>4. CASE \E r \in Requests : Answer(r) \/ GiveUp(r)
  <2>1. PICK r \in Requests, said \in {"ok", "lost"} : request' = [request EXCEPT ![r].reply = said]
    BY <1>4 DEF Answer, GiveUp
  <2>2. UNCHANGED <<config, air>>
    BY <1>4 DEF Answer, GiveUp
  <2>3. \A q \in Requests :
          /\ request'[q].note = request[q].note /\ request'[q].item = request[q].item
          /\ request'[q].todo = request[q].todo
    BY <2>1 DEF IInv, Types, RequestType
  <2> QED BY <2>2, <2>3, OtherCopies
<1>5. CASE Stop \/ StopAccepting \/ Disconnect \/ Exit \/ UNCHANGED vars
  <2>1. UNCHANGED <<config, request, air>>
    BY <1>5 DEF Stop, StopAccepting, Disconnect, Exit, vars
  <2> QED BY <2>1, OtherCopies
<1> QED BY <1>1, <1>2, <1>3, <1>4, <1>5 DEF Next

\* What is on the air was published, each message from a place of its own.
THEOREM CopiesInvariance == Spec => []CopiesInv
BY InitCopies, NextCopies, Invariance, PTL DEF Spec

\* Nobody gets an alert more often than it was posted, times the places that
\* the route gives it: only repeated requests make duplicates.
THEOREM CopiesOfAnAlert == Spec => []CopiesNeedRetries
<1>1. IInv /\ CopiesInv => CopiesNeedRetries
  <2> SUFFICES ASSUME IInv, CopiesInv, NEW n \in Notes, NEW i \in Alerts, NEW t \in Targets
               PROVE  Cardinality({k \in DOMAIN air : air[k] = [note |-> n, alert |-> i, to |-> t]})
                        <= Cardinality({r \in Requests : request[r].note = n})
                           * Cardinality({k \in DOMAIN PlanOf(i) : PlanOf(i)[k] = t})
    BY DEF CopiesNeedRetries, PlanOf
  <2> DEFINE m     == [note |-> n, alert |-> i, to |-> t]
             posts == {r \in Requests : request[r].note = n}
             each  == {k \in DOMAIN PlanOf(i) : PlanOf(i)[k] = t}
  <2>1. m \in AirType /\ m.note = n /\ m.alert = i /\ m.to = t
    BY DEF AirType
  <2> HIDE DEF m
  <2>2. Cardinality(Copies(m)) <= Cardinality(Occasions(m))
    BY <2>1 DEF CopiesInv, CopiesCounted
  <2>3. IsFiniteSet(Requests) /\ IsFiniteSet(DOMAIN PlanOf(i))
        /\ Cardinality(Copies(m)) \in Nat /\ Cardinality(Occasions(m)) \in Nat
    BY <2>1, CountsAreFinite
  <2>4. IsFiniteSet(posts) /\ IsFiniteSet(each)
    BY <2>3, FS_Subset
  <2>5. IsFiniteSet(posts \X each)
        /\ Cardinality(posts \X each) = Cardinality(posts) * Cardinality(each)
    BY <2>4, FS_Product
  <2>6. Occasions(m) \in SUBSET (posts \X each)
    BY <2>1 DEF Occasions
  <2>7. Cardinality(Occasions(m)) <= Cardinality(posts \X each)
    BY <2>5, <2>6, FS_Subset
  <2>8. Cardinality(posts \X each) \in Nat
    BY <2>5, FS_CardinalityType
  <2>9. Copies(m) = {k \in DOMAIN air : air[k] = [note |-> n, alert |-> i, to |-> t]}
    BY DEF Copies, m
  <2> HIDE DEF posts, each
  <2>10. Cardinality(Copies(m)) <= Cardinality(posts \X each)
    BY <2>2, <2>3, <2>7, <2>8
  <2> QED BY <2>5, <2>9, <2>10 DEF posts, each
<1> QED BY Invariance, CopiesInvariance, <1>1, PTL
-----------------------------------------------------------------------------
(* Handlers go on. *)

\* What the proof takes from fairness, since it cannot look into ENABLED: a
\* process whose guard holds for ever takes its step again and again.  As a
\* running handler can always take one, it follows from weak fairness.
Runs(guard, step) == []<>~guard \/ []<><<step>>_vars

\* The fairness of r's handler with its guard written out, and what it gives for
\* a SendAlert: it returns or the process ends, since each of its steps leaves
\* fewer messages of it.
HandlerRuns(r)      == Runs(Running(r), HandlerStep(r))
SendAlertReturns(r) == []<>(Between(r) \/ phase = "gone")

\* Where a request stands stays, or one of its alert's messages is done with, or
\* the next alert is taken.
SameAlert(r) == request'[r].item = request[r].item /\ request'[r].todo = request[r].todo
NextMessage(r) ==
  /\ request'[r].item = request[r].item
  /\ DOMAIN request'[r].todo \subseteq DOMAIN request[r].todo
  /\ DOMAIN request'[r].todo # DOMAIN request[r].todo
AlertDone(r) == Between(r) /\ request'[r].item = request[r].item + 1

\* A step of the handler itself.
LEMMA HandlerAdvances ==
  ASSUME IInv, NEW r \in Requests, Running(r), HandlerStep(r)
  PROVE  Posted(r)' /\ (NextMessage(r) \/ AlertDone(r))
<1>1. /\ request \in [Requests -> RequestType] /\ request[r] \in RequestType
      /\ request[r].item \in Nat
  BY RunningRequest
<1>2. Posted(r)
  BY DEF Running
<1>3. CASE NextAlert(r) \/ NextAlertOffline(r)
  <2>1. Between(r)
    BY <1>3 DEF NextAlert, NextAlertOffline
  <2>2. PICK todo : request' = [request EXCEPT ![r].item = request[r].item + 1, ![r].todo = todo]
    <3>1. CASE NextAlert(r)
      BY <3>1 DEF NextAlert
    <3>2. CASE NextAlertOffline(r)
      <4>1. request' = [request EXCEPT ![r] = [request[r] EXCEPT !.item = request[r].item + 1]]
        BY <1>1, <3>2 DEF NextAlertOffline
      <4>2. [request[r] EXCEPT !.item = request[r].item + 1]
              = [request[r] EXCEPT !.item = request[r].item + 1, !.todo = request[r].todo]
        BY <1>1 DEF RequestType
      <4> QED BY <1>1, <4>1, <4>2
    <3> QED BY <1>3, <3>1, <3>2
  <2>3. request'[r].item = request[r].item + 1 /\ request'[r].reply = request[r].reply
    BY <1>1, <2>2 DEF RequestType
  <2> QED BY <1>2, <2>1, <2>3 DEF AlertDone, Posted
<1>4. CASE Publish(r) \/ PublishDropped(r)
  <2>1. PICK place \in DOMAIN request[r].todo :
          request' = [request EXCEPT ![r].todo = Without(r, place)]
    BY <1>4 DEF Publish, PublishDropped
  <2>2. DOMAIN Without(r, place) = DOMAIN request[r].todo \ {place}
    BY DEF Without
  <2>3. request'[r].item = request[r].item /\ request'[r].todo = Without(r, place) /\ Posted(r)'
    BY <1>1, <1>2, <2>1 DEF Posted, RequestType
  <2>4. /\ DOMAIN request'[r].todo = DOMAIN request[r].todo \ {place}
        /\ place \in DOMAIN request[r].todo
    BY <2>1, <2>2, <2>3
  <2> QED BY <2>3, <2>4 DEF NextMessage
<1>5. CASE PublishFails(r)
  <2>1. request'[r].item = request[r].item /\ request'[r].todo = NoTargets /\ Posted(r)'
    BY <1>1, <1>2, <1>5 DEF PublishFails, Posted, RequestType
  <2>2. DOMAIN request[r].todo # {} /\ DOMAIN NoTargets = {}
    BY <1>5 DEF PublishFails, Between, NoTargets
  <2> QED BY <2>1, <2>2 DEF NextMessage
<1>6. CASE Answer(r)
  BY <1>6 DEF Answer, Running
<1> QED BY <1>3, <1>4, <1>5, <1>6 DEF HandlerStep

\* Whatever else happens leaves it where it stands: also the end of the request.
LEMMA OthersLeaveIt ==
  ASSUME IInv, [Next]_vars, NEW r \in Requests, Running(r), ~HandlerStep(r)
  PROVE  Posted(r)' /\ SameAlert(r)
<1>1. /\ request \in [Requests -> RequestType] /\ request[r] \in RequestType /\ Posted(r)
  BY RunningRequest DEF Running
<1>2. CASE Notify \/ Retry
  <2>1. PICK q \in Requests :
          /\ ~Posted(q)
          /\ \E n : request' = [request EXCEPT ![q] = [Unused EXCEPT !.note = n, !.reply = "waiting"]]
    BY <1>2 DEF Notify, Retry, Post
  <2>2. q # r
    BY <1>1, <2>1
  <2>3. request'[r] = request[r]
    BY <1>1, <2>1, <2>2
  <2> QED BY <1>1, <2>3 DEF SameAlert, Posted
<1>3. CASE \E q \in Requests : HandlerStep(q)
  <2>1. PICK q \in Requests : HandlerStep(q)
    BY <1>3
  <2>2. q # r
    BY <2>1
  <2>3. request'[r] = request[r]
    BY <1>1, <2>1, <2>2
    DEF HandlerStep, NextAlert, NextAlertOffline, Publish, PublishFails, PublishDropped, Answer
  <2> QED BY <1>1, <2>3 DEF SameAlert, Posted
<1>4. CASE \E q \in Requests : GiveUp(q)
  <2>1. PICK q \in Requests : request' = [request EXCEPT ![q].reply = "lost"]
    BY <1>4 DEF GiveUp
  <2> QED BY <1>1, <2>1 DEF SameAlert, Posted, RequestType
<1>5. CASE UNCHANGED request
  BY <1>1, <1>5 DEF SameAlert, Posted
<1> QED BY <1>2, <1>3, <1>4, <1>5 DEF Next, HandlerStep, Stop, StopAccepting, Disconnect, Exit, vars

\* Every alert of a request has its turn: the handler gets past it, also when
\* the request was given up, its messages fail or the broker is closed, unless
\* the process ends; provided that SendAlert returns.
THEOREM HandlersGoOn ==
  ASSUME NEW r \in Requests, NEW i \in Nat
  PROVE  Spec /\ HandlerRuns(r) /\ SendAlertReturns(r) =>
           ((Running(r) /\ request[r].item = i) ~> (request[r].item = i + 1 \/ phase = "gone"))
<1> DEFINE At   == Running(r) /\ request[r].item = i
           Past1 == request[r].item = i + 1 \/ phase = "gone"
           Free == Between(r)
<1>1. IInv /\ [Next]_vars /\ At => At' \/ Past1'
  <2> SUFFICES ASSUME IInv, [Next]_vars, At, phase' # "gone", request'[r].item # i + 1 PROVE At'
    OBVIOUS
  <2>1. Posted(r)' /\ request'[r].item = request[r].item
    BY HandlerAdvances, OthersLeaveIt DEF NextMessage, AlertDone, SameAlert
  <2>2. ~Handled(r)'
    <3>1. Payload' = Payload
      OBVIOUS
    <3> QED BY <2>1, <3>1 DEF Running, Handled
  <2> QED BY <2>1, <2>2 DEF Running
<1>2. IInv /\ [Next]_vars /\ At /\ Free => Free' \/ Past1'
  <2> SUFFICES ASSUME IInv, [Next]_vars, At, Free, request'[r].item # i + 1 PROVE Free'
    OBVIOUS
  <2>1. CASE HandlerStep(r)
    BY <2>1, HandlerAdvances DEF NextMessage, AlertDone, Between
  <2>2. CASE ~HandlerStep(r)
    BY <2>2, OthersLeaveIt DEF SameAlert, Between
  <2> QED BY <2>1, <2>2
<1>3. IInv /\ At /\ Free /\ <<HandlerStep(r)>>_vars => Past1'
  <2> SUFFICES ASSUME IInv, At, Free, HandlerStep(r) PROVE Past1'
    OBVIOUS
  <2>1. NextMessage(r) \/ AlertDone(r)
    BY HandlerAdvances
  <2>2. ~NextMessage(r)
    BY DEF NextMessage, Between
  <2> QED BY <2>1, <2>2 DEF AlertDone
<1>4. (At => Running(r)) /\ (phase = "gone" => Past1)
  OBVIOUS
<1>5. Spec /\ HandlerRuns(r) /\ SendAlertReturns(r) => (At ~> Past1)
  <2> HIDE DEF At, Past1
  <2> QED BY <1>1, <1>2, <1>3, <1>4, Invariance, PTL DEF Spec, HandlerRuns, SendAlertReturns, Runs
<1> QED BY <1>5
=============================================================================
