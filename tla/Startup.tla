------------------------------ MODULE Startup ------------------------------
(***************************************************************************)
(* From the configuration file to two running programs: what               *)
(* LoadUnifiedConfig (pkg/config/unified.go) makes of the file, what the   *)
(* getters (pkg/adapters/config.go) and the factory hand on, what Validate *)
(* and the start-up code accept, and which ports of the host the programs  *)
(* get.  The embedded program (cmd/embedded-hook/main.go) binds its HTTP   *)
(* address in a goroutine while main adds the MQTT listeners; the          *)
(* standalone one (pkg/standalone/app.go) connects to a broker, maybe the  *)
(* embedded one on the same host, and opens its HTTP server afterwards.    *)
(*                                                                         *)
(* Durations are in milliseconds.  Users and passwords, topics, TLS        *)
(* versions and the state file's name are handed on as they are and are    *)
(* left out; the routing section is in AlertDelivery.                      *)
(***************************************************************************)
EXTENDS Integers, FiniteSets

CONSTANTS
  Values,        \* the values an edit may give each key
  Absent,        \* the file does not have the key, or has null
  Empty,         \* the empty string, as a host or an address
  ParseDuration, \* time.ParseDuration: milliseconds, or Unreadable
  Unreadable,
  Missing, Corrupt, \* a file that cannot be read, or parsed
  NotLoaded,     \* what a program has loaded that was never started
  Brokers,       \* ports of other MQTT brokers on the host
  MaxEdits       \* bound on the changes to the file

Programs  == {"embedded", "standalone"}
Durations == DOMAIN ParseDuration

Minute == 60000
Hour   == 60 * Minute

MaxUint16 == 65535
MaxInt32  == 2147483647
MinInt32  == -MaxInt32 - 1

\* The keys, and setDefaults: what a key is that the file does not have.
Default ==
  [metrics_ttl |-> "30m", keep_alive |-> "", expiry |-> "24h",
   inflight |-> 1024, pending |-> 1000, qos |-> 2,
   host |-> "localhost", port |-> 1883, tls |-> "off", tls_port |-> 8883,
   listen |-> 8100, alert_path |-> "/alerts"]

Keys == DOMAIN Default

\* A file that can be parsed.
IsFile(f) ==
  /\ f = [key \in Keys |-> f[key]]
  /\ \A key \in Keys : f[key] \in Values[key] \cup {Absent}

ASSUME StartupAssumption ==
  /\ ParseDuration \in [Durations -> Int \cup {Unreadable}]
  /\ Unreadable \notin Int
  /\ {"30m", "24h", ""} \subseteq Durations
  /\ ParseDuration["30m"] = 30 * Minute /\ ParseDuration["24h"] = 24 * Hour
  /\ ParseDuration[""] = Unreadable
  /\ "0" \in Durations => ParseDuration["0"] = 0
  /\ \A key \in Keys : Absent \notin Values[key]
  /\ \A key \in {"metrics_ttl", "keep_alive", "expiry"} : Values[key] \subseteq Durations
  /\ \A key \in {"inflight", "pending", "qos", "port", "tls_port"} : Values[key] \subseteq Int
  /\ Empty \notin Int /\ Values["listen"] \subseteq Int \cup {Empty}
  /\ Values["tls"] \subseteq {"off", "on", "no certificate"}
  /\ Brokers \subseteq 1 .. MaxUint16
  /\ MaxEdits \in Nat

VARIABLES
  file,    \* Missing, Corrupt, or a value or Absent for each key
  edits,   \* how often it was changed
  stage,   \* how far each program is with its start
  from,    \* the file each program loaded last
  setting, \* what it made of it
  bound,   \* the ports of the embedded broker's listeners
  web      \* each program's HTTP server

vars == <<file, edits, stage, from, setting, bound, web>>

-----------------------------------------------------------------------------
(* The settings. *)

Value(f, key) == IF f = Missing \/ f[key] = Absent THEN Default[key] ELSE f[key]

Clamp(low, high, n) == IF n < low THEN low ELSE IF n > high THEN high ELSE n

\* Bug: the number is converted without a look at its range.
SafeUint16Wrapped(n) == n % (MaxUint16 + 1)

SafeUint16(n) == Clamp(0, MaxUint16, n)
SafeInt32(n)  == Clamp(MinInt32, MaxInt32, n)

\* Bug: a negative TTL is taken as it is.
CollectorTTLSigned(f) ==
  LET ttl == ParseDuration[Value(f, "metrics_ttl")]
  IN  IF ttl = Unreadable \/ ttl = 0 THEN 30 * Minute ELSE ttl

\* buildPrometheusConfig, and NewPrometheusCollectorWithConfig for what is not
\* positive.
CollectorTTL(f) ==
  LET ttl == ParseDuration[Value(f, "metrics_ttl")]
  IN  IF ttl = Unreadable THEN 30 * Minute
      ELSE IF ttl <= 0 THEN 30 * Minute ELSE ttl

\* parseKeepAlive.
KeepAlive(f) ==
  LET keepAlive == ParseDuration[Value(f, "keep_alive")]
  IN  IF keepAlive = Unreadable THEN Minute ELSE keepAlive

\* Bug: whole minutes.
SecondsOfMinutes(ms) == 60 * IF ms < 0 THEN -((-ms) \div 60000) ELSE ms \div 60000

\* int64(d.Seconds()): towards zero.
Seconds(ms) == IF ms < 0 THEN -((-ms) \div 1000) ELSE ms \div 1000

\* Bug: what cannot be read is no limit.
MessageExpiryUnlimited(f) ==
  LET expiry == ParseDuration[Value(f, "expiry")]
  IN  IF expiry = Unreadable THEN 0 ELSE Seconds(expiry)

\* parseMessageExpiry and GetMessageExpiry: whole seconds, 0 for no limit.
MessageExpiry(f) ==
  LET expiry == ParseDuration[Value(f, "expiry")]
  IN  IF Value(f, "expiry") = "0" THEN 0
      ELSE IF expiry = Unreadable THEN Seconds(Hour) ELSE Seconds(expiry)

\* The path of the webhook: the hook's configuration for the embedded program,
\* always the default for the standalone one.
AlertPath(p, f) ==
  IF p = "standalone" \/ Value(f, "alert_path") = "" THEN "/alerts" ELSE Value(f, "alert_path")

\* What each program uses.  (byte() of the maximal QoS wraps.)
Settings(p, f) ==
  [metrics_ttl |-> CollectorTTL(f),
   keep_alive  |-> KeepAlive(f),
   expiry      |-> MessageExpiry(f),
   inflight    |-> SafeUint16(Value(f, "inflight")),
   pending     |-> SafeInt32(Value(f, "pending")),
   qos         |-> Value(f, "qos") % 256,
   host        |-> Value(f, "host"),
   port        |-> Value(f, "port"),
   tls         |-> Value(f, "tls"),
   tls_port    |-> Value(f, "tls_port"),
   listen      |-> Value(f, "listen"),
   alert_path  |-> AlertPath(p, f)]

-----------------------------------------------------------------------------
(* Ports.  0 stands for any free one. *)

Taken == Brokers \cup bound \cup {setting[p].listen : p \in {q \in Programs : web[q] = "open"}}

CanBind(port) == port = 0 \/ (port \in 1 .. MaxUint16 /\ port \notin Taken)

Bind(port) == bound' = bound \cup ({port} \ {0})

-----------------------------------------------------------------------------

NoKeys == [key \in Keys |-> Absent]

Init ==
  /\ file = NoKeys
  /\ edits = 0
  /\ stage = [p \in Programs |-> "down"]
  /\ from = [p \in Programs |-> NotLoaded]
  /\ setting = [p \in Programs |-> Settings(p, NoKeys)]
  /\ bound = {}
  /\ web = [p \in Programs |-> "closed"]

\* The operator (external) changes one key, loses the file, or breaks it.
Edit ==
  /\ edits < MaxEdits
  /\ edits' = edits + 1
  /\ \/ /\ file \notin {Missing, Corrupt}
        /\ \E key \in Keys : \E v \in Values[key] : file' = [file EXCEPT ![key] = v]
     \/ file' \in {Missing, Corrupt}
  /\ UNCHANGED <<stage, from, setting, bound, web>>

Become(p, s) == stage' = [stage EXCEPT ![p] = s]

\* The process ends: the system takes its ports back.
End(p) ==
  /\ Become(p, "down")
  /\ web' = [web EXCEPT ![p] = "closed"]
  /\ bound' = IF p = "embedded" THEN {} ELSE bound
  /\ UNCHANGED <<file, edits, from, setting>>

\* main: LoadUnifiedConfig, and the factory.  A file that cannot be parsed is
\* fatal, one that cannot be read is as good as an empty one.
Load(p) ==
  /\ stage[p] = "down"
  /\ file # Corrupt
  /\ Become(p, "loaded")
  /\ from' = [from EXCEPT ![p] = file]
  /\ setting' = [setting EXCEPT ![p] = Settings(p, file)]
  /\ UNCHANGED <<file, edits, bound, web>>

\* The goroutine of UnifiedServer.Start binds the address, or logs that it
\* cannot; the program goes on without.
OpenWeb(p) ==
  /\ web[p] = "opening"
  /\ web' = [web EXCEPT ![p] = IF CanBind(setting[p].listen) THEN "open" ELSE "refused"]
  /\ UNCHANGED <<file, edits, stage, from, setting, bound>>

-----------------------------------------------------------------------------
(* The embedded program. *)

\* A webhook at the path of another handler panics while main adds the hook.
Collides == setting["embedded"].alert_path \in {"/metrics", "/health"}

\* The hook's Init starts the HTTP server, unless it has no address.
AddMeshtasticHook ==
  /\ stage["embedded"] = "loaded"
  /\ IF setting["embedded"].listen = Empty THEN UNCHANGED web
     ELSE ~Collides /\ web' = [web EXCEPT !["embedded"] = "opening"]
  /\ Become("embedded", "hooked")
  /\ UNCHANGED <<file, edits, from, setting, bound>>

AddMeshtasticHookPanics ==
  /\ stage["embedded"] = "loaded"
  /\ setting["embedded"].listen # Empty
  /\ Collides
  /\ End("embedded")

\* addTCPListener: a failure is fatal.
AddTCPListener ==
  /\ stage["embedded"] = "hooked"
  /\ IF CanBind(setting["embedded"].port)
     THEN /\ Bind(setting["embedded"].port)
          /\ Become("embedded", "listening")
          /\ UNCHANGED <<file, edits, from, setting, web>>
     ELSE End("embedded")

\* Bug: without its TLS listener the program serves all the same.
AddTLSListenerAnyhow ==
  /\ stage["embedded"] = "listening"
  /\ \/ /\ setting["embedded"].tls = "on" /\ CanBind(setting["embedded"].tls_port)
        /\ Bind(setting["embedded"].tls_port)
     \/ /\ ~(setting["embedded"].tls = "on" /\ CanBind(setting["embedded"].tls_port))
        /\ UNCHANGED bound
  /\ Become("embedded", "running")
  /\ UNCHANGED <<file, edits, from, setting, web>>

\* addListener's second half, and startServer.
AddTLSListener ==
  /\ stage["embedded"] = "listening"
  /\ IF setting["embedded"].tls = "off"
     THEN /\ Become("embedded", "running")
          /\ UNCHANGED <<file, edits, from, setting, bound, web>>
     ELSE IF setting["embedded"].tls = "on" /\ CanBind(setting["embedded"].tls_port)
     THEN /\ Bind(setting["embedded"].tls_port)
          /\ Become("embedded", "running")
          /\ UNCHANGED <<file, edits, from, setting, web>>
     ELSE End("embedded")

-----------------------------------------------------------------------------
(* The standalone program. *)

Valid(s) == s.host # "" /\ s.port \in 1 .. MaxUint16 /\ s.listen # Empty

\* Run: ConfigAdapter.Validate.
Validate ==
  /\ stage["standalone"] = "loaded"
  /\ IF Valid(setting["standalone"])
     THEN /\ Become("standalone", "valid")
          /\ UNCHANGED <<file, edits, from, setting, bound, web>>
     ELSE End("standalone")

\* buildBrokerURL.
BrokerPort(s) == IF s.tls = "off" THEN s.port ELSE s.tls_port

\* A broker listens there: another one, or the embedded program's, that takes
\* clients once it serves.
Reachable(port) == port \in Brokers \/ (stage["embedded"] = "running" /\ port \in bound)

\* Run: the connection, then the HTTP server.
Connect ==
  /\ stage["standalone"] = "valid"
  /\ Reachable(BrokerPort(setting["standalone"]))
  /\ Become("standalone", "running")
  /\ web' = [web EXCEPT !["standalone"] = "opening"]
  /\ UNCHANGED <<file, edits, from, setting, bound>>

\* Bug: the client waits for a broker to appear.
ConnectFailsWhenRefused ==
  /\ stage["standalone"] = "valid"
  /\ Reachable(BrokerPort(setting["standalone"]))
  /\ End("standalone")

\* The broker may refuse; without one the connection fails at once.
ConnectFails ==
  /\ stage["standalone"] = "valid"
  /\ End("standalone")

-----------------------------------------------------------------------------

\* A signal, or the end of the process for another reason.
Stop(p) ==
  /\ stage[p] # "down"
  /\ End(p)

Next ==
  \/ Edit
  \/ \E p \in Programs : Load(p)
  \/ AddMeshtasticHook
  \/ AddMeshtasticHookPanics
  \/ AddTCPListener
  \/ AddTLSListener
  \/ Validate
  \/ Connect
  \/ ConnectFails
  \/ \E p \in Programs : OpenWeb(p)
  \/ \E p \in Programs : Stop(p)

\* Main, and the goroutine of the HTTP server, run on.
Fairness ==
  /\ WF_vars(AddMeshtasticHook \/ AddMeshtasticHookPanics \/ AddTCPListener \/ AddTLSListener)
  /\ WF_vars(Validate \/ Connect \/ ConnectFails)
  /\ \A p \in Programs : WF_vars(OpenWeb(p))

Spec     == Init /\ [][Next]_vars
FairSpec == Spec /\ Fairness

-----------------------------------------------------------------------------
(* Properties. *)

Started(p) == from[p] # NotLoaded

\* Every variable has its type: no conversion leaves the range of its integers.
TypeOK ==
  /\ file \in {Missing, Corrupt} \/ IsFile(file)
  /\ edits \in 0 .. MaxEdits
  /\ stage \in [Programs -> {"down", "loaded", "hooked", "listening", "valid", "running"}]
  /\ \A p \in Programs :
       /\ setting[p].metrics_ttl \in Nat \ {0}
       /\ setting[p].inflight \in 0 .. MaxUint16
       /\ setting[p].pending \in MinInt32 .. MaxInt32
       /\ setting[p].qos \in 0 .. 255
  /\ bound \subseteq 1 .. MaxUint16
  /\ web \in [Programs -> {"closed", "opening", "open", "refused"}]

\* Readings expire after the time the file says, and after half an hour where it
\* says nothing of use: a TTL of zero, a negative or an unreadable one neither
\* stops the collector (its ticker panics without an interval) nor empties it.
\* (tests/e2e/e2e_metrics_ttl_cleanup_test.go:308 takes zero for never.)
ReadingsExpireAsSaid ==
  \A p \in Programs : Started(p) =>
    LET said == ParseDuration[Value(from[p], "metrics_ttl")]
    IN  setting[p].metrics_ttl = IF said # Unreadable /\ said > 0 THEN said ELSE 30 * Minute

\* The expiry that the file says: an hour where that cannot be read.
ExpirySaid(f) ==
  LET expiry == ParseDuration[Value(f, "expiry")]
  IN  IF expiry = Unreadable THEN Hour ELSE expiry

\* A limit of a second or more remains one, and loses less than a second; zero
\* and less never become one.  Between them nothing is said.
Honours(seconds, ms) ==
  /\ ms >= 1000 => seconds >= 1 /\ ms - 1000 * seconds \in 0 .. 999
  /\ ms <= 0 => seconds <= 0

\* The embedded broker keeps messages as long as the file says, provided that
\* this is a second or more, or no limit.
MessagesExpireAsSaid ==
  \A p \in Programs : Started(p) => Honours(setting[p].expiry, ExpirySaid(from[p]))

\* Whatever is hard to read in the file: a time of a second or more that can be
\* read is honoured, for readings as for messages, and what cannot be read is
\* replaced by a limit and never by none.  An expiry of messages below a second is
\* excepted (NoLimitBelowASecond).
ExpiryAsSaid == ReadingsExpireAsSaid /\ MessagesExpireAsSaid

\* Less than a second, either way.
BelowASecond(ms) == -1000 < ms /\ ms < 1000

\* Messages are kept without a limit if and only if the file says less than a second:
\* a file that says "0", as config.yaml:25 tells it to, but also the shortest of all
\* limits, which it does not.  Neither an unreadable expiry nor any other is one.
NoLimitBelowASecond ==
  \A p \in Programs : Started(p) =>
    (setting[p].expiry = 0 <=> BelowASecond(ExpirySaid(from[p])))

\* The embedded program runs only with all its listeners, on ports that no HTTP
\* server has got before: it is the HTTP server that does without.
RunningHoldsItsPorts ==
  stage["embedded"] = "running" =>
    LET s     == setting["embedded"]
        ports == {s.port} \cup IF s.tls = "off" THEN {} ELSE {s.tls_port}
    IN  /\ s.tls # "no certificate"
        /\ ports \ {0} = bound
        /\ \A p \in Programs : web[p] = "open" => setting[p].listen \notin bound

\* A higher limit in the file is never a lower one for the broker: beyond its
\* integers it stays at the largest.
HigherLimitNotLower ==
  [][\A p \in Programs, limit \in {"inflight", "pending"} :
       Started(p) /\ Started(p)' /\ Value(from[p], limit) <= Value(from'[p], limit) =>
         setting[p][limit] <= setting'[p][limit]]_vars

\* Whatever the file says and whoever holds the ports, a start ends: the program
\* runs, or it is gone, and its HTTP server has got its address or never will.
StartDecides ==
  \A p \in Programs :
    /\ stage[p] = "loaded" ~> stage[p] \in {"running", "down"}
    /\ web[p] = "opening" ~> web[p] # "opening"
=============================================================================
