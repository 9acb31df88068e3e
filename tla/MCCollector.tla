----------------------------- MODULE MCCollector -----------------------------
(* Instances of Collector for TLC. *)
EXTENDS Collector

\* One expiring family, and node_info.
OneReading == {LastSeen, MessageCounter, Temperature, NodeHardware}
=============================================================================
