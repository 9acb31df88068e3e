---------------------------- MODULE MetricFamilies ----------------------------
(***************************************************************************)
(* The metric families of PrometheusCollector, numbered in the order in    *)
(* which processing one message writes them: last seen and the message     *)
(* counter first, then the telemetry gauges in the order of                *)
(* setTelemetryMetrics.  MessageProcessor says which message writes what,  *)
(* Collector how the writes of several goroutines interleave.              *)
(***************************************************************************)
EXTENDS Integers

CONSTANT Families  \* the metric families of the instance, a subset of 0 .. 12

LastSeen       == 0
MessageCounter == 1
BatteryLevel   == 2
Voltage        == 3
Uptime         == 4
Temperature    == 5
Humidity       == 6
Pressure       == 7
ChannelUtil    == 8
AirUtilTx      == 9
RSSI           == 10
SNR            == 11
NodeHardware   == 12

ASSUME FamiliesAssumption ==
  /\ Families \subseteq LastSeen .. NodeHardware
  /\ {LastSeen, MessageCounter} \subseteq Families

\* The families whose gauge is followed by updateMetricTimestamp.
Expiring == Families \cap {Temperature, Humidity, Pressure}

Telemetry == Families \cap (BatteryLevel .. SNR)

\* Every accepted message updates last seen and one counter; telemetry then
\* writes the gauges whose fields it carries, nodeinfo the node_info series.
MessageEffects ==
  {{LastSeen, MessageCounter} \cup fields : fields \in SUBSET Telemetry}
    \cup {{LastSeen, MessageCounter} \cup (Families \cap {NodeHardware})}
=============================================================================
