--------------------------- MODULE MCStandaloneApp ---------------------------
(* Instances of StandaloneApp for TLC. *)
EXTENDS StandaloneApp

\* Two families that are saved, and the message counter, which is not.
AllSeries   == {"last_seen", "battery", "messages_total"}
SavedSeries == {"last_seen", "battery"}
TouchedSeries == {"last_seen", "messages_total"}
OneWriter   == {"app"}
=============================================================================
