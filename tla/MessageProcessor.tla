-------------------------- MODULE MessageProcessor --------------------------
(***************************************************************************)
(* MeshtasticProcessor (pkg/application/message_processor.go) and what the *)
(* collector's Collect methods do with its results: which messages are     *)
(* accepted, and what each leaves in the registry.  A message is processed *)
(* in one step here; Collector interleaves the writes of several.          *)
(*                                                                         *)
(* A value is abstracted to where it came from: the number of the accepted *)
(* message and the place in it.  The four names of a node_info series are  *)
(* one number, in the order in which Gather sorts the series.              *)
(***************************************************************************)
EXTENDS MetricFamilies, Sequences, FiniteSets, FiniteSetsExt

CONSTANTS
  Messages,      \* the messages that may arrive
  Identities,    \* the names, hardware and role a node may announce
  Width,         \* the bits of a node id: 32
  NotANumber,    \* the "from" of a message where it is null, a string, ...
  MaxAccepted,   \* bound: accepted messages
  MaxRestarts    \* bound: restarts

Types == {"telemetry", "nodeinfo", "text", "position", "waypoint",
          "neighborinfo", "unsupported"}

\* "sendtext" is the type of the alerts that the exporter itself publishes.
MessageTypes == (Types \ {"unsupported"}) \cup {"sendtext"}

Message ==
  [topic    : {"valid", "invalid"},
   body     : {"empty", "huge", "text", "broken", "senderless", "object"},
   from     : Int \cup {NotANumber},
   type     : MessageTypes,
   payload  : SUBSET Telemetry,           \* numeric fields of the payload
   top      : SUBSET ({RSSI, SNR} \cap Families),  \* and beside the payload
   identity : Identities]

Node    == 1 .. 2 ^ Width - 1
NoValue == <<0, "none">>
Places  == {"payload", "top"}

ASSUME MessageAssumption ==
  /\ Messages \subseteq Message
  /\ Width \in Nat \ {0}
  /\ Identities \subseteq Nat
  /\ {MaxAccepted, MaxRestarts} \subseteq Nat

VARIABLES
  lastSeen,  \* the message that last set it, 0 without a series
  counter,   \* messages_total by node and type, 0 without a series
  gauge,     \* the telemetry gauges
  info,      \* the node_info series of each node
  result,    \* of the last ProcessMessage
  log,       \* history: the accepted messages with their nodes
  counted,   \* history: the messages accepted before the last restart
  restarts

registry == <<lastSeen, counter, gauge, info>>
vars     == <<registry, result, log, counted, restarts>>

-----------------------------------------------------------------------------
(* Checks and conversions. *)

\* validateInput with ValidateMeshtasticMessage: what does not look like JSON
\* is no error.
Ignored(m) == m.topic = "valid" /\ m.body = "text"

\* validateInput and parseMessage succeed.
Parsed(m) == m.topic = "valid" /\ m.body = "object"

\* Bug: a node id is as wide as the number in the message.
ToUint32Unbounded(from) == IF from = NotANumber THEN {0} ELSE {from}

\* uint32(from): 0 without a number.  What a float64 outside the range of
\* uint32 is converted to depends on the build.
ToUint32(from) ==
  IF from = NotANumber THEN {0}
  ELSE IF from \in {0} \cup Node THEN {from}
  ELSE {0} \cup Node

\* The label of messages_total: processMessageByType's default counts every
\* other type as unsupported.
CountedAs(m) == IF m.type \in Types THEN m.type ELSE "unsupported"

\* Bug: ProcessMessage counts what CollectTelemetry counts as well.
CountTelemetryTwice(m) == IF m.type = "telemetry" THEN 2 ELSE 1

\* Each message is counted once, by the processor or by a Collect method.
Count(m) == 1

\* Bug: the fields are read whatever the type.
CarriedByAnyType(m) == m.payload \cup m.top

\* The gauges a message sets: processTelemetry and setTelemetryMetrics.
Carried(m) == IF m.type = "telemetry" THEN m.payload \cup m.top ELSE {}

\* Bug: extractTopLevelFields comes before extractTelemetryFields.
PayloadFirst(m, f) == IF f \in m.payload THEN "payload" ELSE "top"

\* extractTopLevelFields overwrites the payload's rssi and snr.
Place(m, f) == IF f \in m.top THEN "top" ELSE "payload"

\* Bug: a node is not renamed.
AnnouncedOnce(known, m) ==
  IF m.type = "nodeinfo" /\ known = {} THEN {m.identity} ELSE known

\* A nodeinfo adds a series; the series of former names stay.
Announced(known, m) ==
  IF m.type = "nodeinfo" THEN known \cup {m.identity} ELSE known

\* SaveState has one set of labels for a node: those of the last series.
Remembered(known) == IF known = {} THEN {} ELSE {Max(known)}

-----------------------------------------------------------------------------
(* Actions. *)

Init ==
  /\ lastSeen = [n \in Node |-> 0]
  /\ counter = [n \in Node |-> [t \in Types |-> 0]]
  /\ gauge = [n \in Node |-> [f \in Telemetry |-> NoValue]]
  /\ info = [n \in Node |-> {}]
  /\ result = "none"
  /\ log = <<>>
  /\ counted = 0
  /\ restarts = 0

Ignore(m) ==
  /\ Ignored(m)
  /\ result' = "ok"
  /\ UNCHANGED <<registry, log, counted, restarts>>

Reject(m) ==
  /\ ~Ignored(m)
  /\ ~Parsed(m)
  /\ result' = "error"
  /\ UNCHANGED <<registry, log, counted, restarts>>

\* Bug: UpdateNodeLastSeen precedes validateAndFormatNodeID.
RejectSenderLate(m) ==
  /\ Parsed(m)
  /\ 0 \in ToUint32(m.from)
  /\ result' = "error"
  /\ lastSeen' = [lastSeen EXCEPT ![1] = Len(log) + 1]
  /\ UNCHANGED <<counter, gauge, info, log, counted, restarts>>

\* validateAndFormatNodeID refuses 0; any other uint32 is a valid node id.
RejectSender(m) ==
  /\ Parsed(m)
  /\ 0 \in ToUint32(m.from)
  /\ result' = "error"
  /\ UNCHANGED <<registry, log, counted, restarts>>

\* UpdateNodeLastSeen and processMessageByType, for node n.
Accept(m, n) ==
  LET now == Len(log) + 1
  IN  /\ now <= MaxAccepted
      /\ Parsed(m)
      /\ n \in ToUint32(m.from) \ {0}
      /\ result' = "ok"
      /\ lastSeen' = [lastSeen EXCEPT ![n] = now]
      /\ counter' = [counter EXCEPT ![n][CountedAs(m)] = @ + Count(m)]
      /\ gauge' = [gauge EXCEPT ![n] =
           [f \in Telemetry |-> IF f \in Carried(m) THEN <<now, Place(m, f)>> ELSE @[f]]]
      /\ info' = [info EXCEPT ![n] = Announced(@, m)]
      /\ log' = Append(log, [node |-> n, message |-> m])
      /\ UNCHANGED <<counted, restarts>>

\* The process is stopped when all is saved, and started again with the state
\* file: messages_total has no label node_id and is not saved.
Restart ==
  /\ restarts < MaxRestarts
  /\ counter' = [n \in Node |-> [t \in Types |-> 0]]
  /\ info' = [n \in Node |-> Remembered(info[n])]
  /\ result' = "none"
  /\ counted' = Len(log)
  /\ restarts' = restarts + 1
  /\ UNCHANGED <<lastSeen, gauge, log>>

Next ==
  \/ \E m \in Messages : Ignore(m)
  \/ \E m \in Messages : Reject(m)
  \/ \E m \in Messages : RejectSender(m)
  \/ \E m \in Messages : \E n \in ToUint32(m.from) \ {0} : Accept(m, n)
  \/ Restart

Spec == Init /\ [][Next]_vars

-----------------------------------------------------------------------------
(* Properties. *)

\* Every variable has its type: node ids fit the width.
TypeOK ==
  /\ lastSeen \in [Node -> 0 .. MaxAccepted]
  /\ counter \in [Node -> [Types -> 0 .. MaxAccepted]]
  /\ gauge \in [Node -> [Telemetry -> ((1 .. MaxAccepted) \X Places) \cup {NoValue}]]
  /\ info \in [Node -> SUBSET Identities]
  /\ result \in {"none", "ok", "error"}
  /\ \A i \in DOMAIN log : log[i].node \in Node /\ log[i].message \in Messages
  /\ counted \in 0 .. Len(log)
  /\ restarts \in 0 .. MaxRestarts

\* The accepted messages of node n, by number: all, those counted as t, those
\* that carry the field f, and those that announce a name.
Of(n)           == {i \in DOMAIN log : log[i].node = n}
CountedOf(n, t) == {i \in Of(n) : CountedAs(log[i].message) = t}
CarriedOf(n, f) == {i \in Of(n) : /\ log[i].message.type = "telemetry"
                                 /\ f \in log[i].message.payload \cup log[i].message.top}
NamesOf(n)      == {i \in Of(n) : log[i].message.type = "nodeinfo"}

\* messages_total is exact: every accepted message since the start is counted
\* once, under its type and its sender, whether the processor or the collector
\* does it.
CountersAddUp ==
  \A n \in Node, t \in Types :
    counter[n][t] = Cardinality({i \in CountedOf(n, t) : i > counted})

\* Field f in the last message that carried it.
LastReading(n, f) ==
  LET i == Max(CarriedOf(n, f))
  IN  <<i, IF f \in log[i].message.top THEN "top" ELSE "payload">>

\* A gauge shows the last telemetry of its node that carried the field, across
\* restarts, and where a message has rssi or snr twice, the one beside the
\* payload; a node is last seen with its last accepted message.
ReadingsAreLatest ==
  \A n \in Node :
    /\ lastSeen[n] = IF Of(n) = {} THEN 0 ELSE Max(Of(n))
    /\ \A f \in Telemetry :
         gauge[n][f] = IF CarriedOf(n, f) = {} THEN NoValue ELSE LastReading(n, f)

\* A message that is refused or ignored leaves no trace in the registry, however
\* late in ProcessMessage that is decided.
RefusedLeaveNoTrace ==
  [][log' = log /\ restarts' = restarts => UNCHANGED registry]_vars

\* The families of which a step changes the series of node n.
Changed(n) ==
  {f \in Telemetry : gauge'[n][f] # gauge[n][f]}
    \cup {f \in {LastSeen} : lastSeen'[n] # lastSeen[n]}
    \cup {f \in {MessageCounter} : counter'[n] # counter[n]}
    \cup {f \in Families \cap {NodeHardware} : info'[n] # info[n]}

\* What one message changes are series of one node, and of families that
\* Collector takes for the effects of one message.
EffectsAreKnown ==
  [][log' # log =>
       \A n \in Node :
         IF n = log'[Len(log')].node
         THEN \E effects \in MessageEffects :
                Changed(n) \subseteq effects /\ effects \ Changed(n) \subseteq {NodeHardware}
         ELSE Changed(n) = {}]_vars

\* node_info shows only what the node announced, and since a restart also its
\* last announcement.
NamesAreAnnounced ==
  \A n \in Node :
    /\ info[n] \subseteq {log[i].message.identity : i \in NamesOf(n)}
    /\ \A i \in NamesOf(n) :
         i = Max(NamesOf(n)) /\ i > counted => log[i].message.identity \in info[n]

\* After a restart a node is shown with the name it announced last.
RestoredNameIsLast ==
  \A n \in Node :
    NamesOf(n) # {} => log[Max(NamesOf(n))].message.identity \in info[n]
=============================================================================
