--------------------------- MODULE MCHookLifecycle ---------------------------
(* Instances of HookLifecycle for TLC. *)
EXTENDS HookLifecycle

\* Two families that are saved, and the message counter, which is not.
AllSeries   == {"last_seen", "battery", "messages_total"}
SavedSeries == {"last_seen", "battery"}
TouchedSeries == {"last_seen", "messages_total"}
BothWriters == {"saver", "stopper"}

\* One of each kind, and the saver of a hook that is initialised again.
TwoSeries  == {"last_seen", "messages_total"}
LastSeen   == {"last_seen"}
AllWriters == BothWriters \cup {"second saver"}
=============================================================================
