------------------------------ MODULE MCStartup ------------------------------
(* Instances of Startup for TLC. *)
EXTENDS Startup, TLC

Parsed == ("30m" :> 1800000) @@ ("24h" :> 86400000) @@ ("" :> Unreadable) @@
          ("0" :> 0) @@ ("soon" :> Unreadable) @@ ("-1m" :> -60000) @@
          ("500ms" :> 500) @@ ("1500ms" :> 1500)

\* What is hard about each key.
SomeValues ==
  [metrics_ttl |-> {"soon", "-1m", "1500ms"},
   keep_alive  |-> {"1500ms"},
   expiry      |-> {"", "0", "-1m", "500ms", "1500ms"},
   inflight    |-> {-1, 65536},
   pending     |-> {-1},
   qos         |-> {256},
   host        |-> {""},
   port        |-> {0, 8100, 65536},
   tls         |-> {"on", "no certificate"},
   tls_port    |-> {1883, 1884},
   listen      |-> {0, 1883, Empty},
   alert_path  |-> {"", "/health"}]
=============================================================================
