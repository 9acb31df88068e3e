------------------------- MODULE MCMessageProcessor -------------------------
(* Instances of MessageProcessor for TLC. *)
EXTENDS MessageProcessor

\* Temperature stands for the fields of the payload, RSSI for the two that may
\* stand in both places.
SomeFamilies == {LastSeen, MessageCounter, Temperature, RSSI, NodeHardware}

Telling(from) ==
  [topic : {"valid"}, body : {"object"}, from : from, type : {"telemetry"},
   payload : SUBSET Telemetry, top : SUBSET {RSSI}, identity : {1}]

Naming(from) ==
  [topic : {"valid"}, body : {"object"}, from : from, type : {"nodeinfo"},
   payload : {{Temperature}}, top : {{}}, identity : Identities]

Other(from) ==
  [topic : {"valid"}, body : {"object"}, from : from, type : {"text", "sendtext"},
   payload : {{Temperature}}, top : {{RSSI}}, identity : {1}]

\* Of the two node ids, of none, and of a number outside the width.
Objects ==
  Telling({1, 2}) \cup Naming({1, 2}) \cup Other({0, 1, NotANumber, 2 ^ Width})

Refused ==
  [topic : {"valid"}, body : {"empty", "huge", "text", "broken", "senderless"},
   from : {1}, type : {"telemetry"}, payload : {{Temperature}}, top : {{}}, identity : {1}]

Misplaced == {[m EXCEPT !.topic = "invalid"] : m \in Telling({1}) \cup Refused}

SomeMessages == Objects \cup Refused \cup Misplaced

JustNames == Naming({1})
=============================================================================
