# Verification of meshtastic-mqtt-exporter

TLA+ models of the exporter, TLC runs that check them on small instances, and
TLAPS proofs. `../src` is the repository; paths below are relative to it.

Run a check with `tlc -config <run>.cfg <module>` (the table in section 3; the
module of a run is the `MC…` one) and the proofs with `tlapm <module>Proofs.tla`
(section 6).

## 1. The system

Two programs turn Meshtastic's MQTT traffic into Prometheus metrics and
Alertmanager's notifications into mesh messages. The *embedded* program
(`cmd/embedded-hook`) is a mochi-mqtt broker with a hook; the *standalone*
program (`cmd/standalone`) is a paho client of an existing broker. They share
everything under `pkg/` that is not named after one of them.

```
 mesh --MQTT--> hook.OnPublish / MQTTClient.messageHandler
                     |                          (many goroutines / one)
                     v
              MeshtasticProcessor --> PrometheusCollector <-- TTL cleanup goroutine
                                        |      ^
                       GET /metrics <---+      | SaveState / LoadState
                                        |      v
                                        |   state file <-- saver goroutine, OnStopped,
                                        |                  App.Shutdown, the next process
 Alertmanager --POST--> UnifiedServer --> LoRaAlertSender / StandaloneLoRaAlertSender
                                               |
                                               +--MQTT--> mesh (and back into OnPublish)
```

| Component | State | Operations | Hard about it | Correct when |
|---|---|---|---|---|
| Collector (`infrastructure/metrics.go`) | registry of gauges, `metricTimestamps`, `cleanupCancel` | Collect…, cleanup, Shutdown | gauges are written outside the lock that guards their timestamps; a ticker in another goroutine deletes | what is shown is fresh, what is silent disappears, nothing fresh is deleted |
| State file (same file) | a JSON file written in place | SaveState, LoadState | Gather is not atomic, `os.WriteFile` truncates first, two goroutines may save, processes are killed | a stop loses nothing, a restart never goes back |
| Message processor (`application`, `validator`) | none; writes the collector | ProcessMessage | the same field in two places, counting in two layers, conversion of `from` | the registry is a function of the accepted messages |
| Hook (`hooks`, `cmd/embedded-hook`, `factory`) | `stopped`, `stopSave`, HTTP server, saver goroutine | Init, OnPublish, OnStopped/Shutdown | saver against OnStopped, alerts that come back as messages, repeated Init | Close saves everything and ends |
| Standalone app (`standalone`, `infrastructure/mqtt_client.go`) | context, client, HTTP server | Run, Shutdown, onConnect, messageHandler | lost and restored connections, order of the shutdown | the same |
| Alerts (`infrastructure/unified_server.go`, `alerting.go`, `standalone_alerting.go`) | routing, requests in progress | webhook, convertToAlert, SendAlert | timeouts and repeated requests, partial failure, silent drops | an alert reaches those it is routed to, and nobody else |
| Topic filters (`hooks`, `validator`) | the pattern | matchesTopicPattern, MatchesMQTTPattern | two algorithms for one pattern | both mean what MQTT means |
| Configuration (`config`, `adapters`, `factory`) | the file | LoadUnifiedConfig, Validate, getters | silent defaults, invalid values dropped, ranges, zero | what the file says is what the program does, as far as it can be read |
| Start (`cmd/*`, `standalone`, `hooks`, `unified_server.go`) | listeners, HTTP addresses | main, addListener, Run, UnifiedServer.Start | an HTTP server that binds in a goroutine, two programs on one host, fatal and logged failures | a running program holds its ports, a start ends |
| Authentication, logger, errors, version, middleware's recovery, endpoints | – | – | – | not modelled (section 8) |

Every hazard we found is in `PROJECT.json` under `hazards`, with its line and
the properties that watch it.

## 2. Modules

| Module | Models | Runs | Proofs |
|---|---|---|---|
| `MetricFamilies` | the metric families and which of them one message writes | – | – |
| `MessageProcessor` | ProcessMessage as one step | `processor_*` | `MessageProcessorProofs` |
| `Collector` | the writes of several ProcessMessage calls, the cleanup goroutine, time | `collector_lifetime` | `CollectorProofs` |
| `ReadingLifetime` | abstract: how long a reading may and must be shown | through the next | – |
| `CollectorRefinement` | `Collector` implements `ReadingLifetime` | `collector_lifetime` | `CollectorProofs` |
| `StateFile` | SaveState and LoadState, step by step | through the two lifecycles | `StateFileProofs` |
| `DurableStore` | abstract: what a program and its restarts may rely on | through the two lifecycles | – |
| `HookLifecycle` | the embedded program, EXTENDS `StateFile`, implements `DurableStore` | `hook_*` | `HookLifecycleProofs` |
| `StandaloneApp` | the standalone program, EXTENDS `StateFile`, implements `DurableStore` | `standalone_*` | `StandaloneAppProofs` |
| `AlertDelivery` | the routing section, webhook, both senders, shutdown under requests | `alerts_*` | `AlertDeliveryProofs` |
| `Startup` | configuration file, settings, and the start of both programs on one host | `startup_config` | `StartupProofs` |
| `TopicFilter` | the two matchers | `topics_filter` | `TopicFilterProofs` |
| `MC…` | constants of the instances | | |

Operators whose comment begins with "Bug:" are not part of a specification:
each is what a named definition would look like with a plausible mistake, and
each property of a passing run is violated with one of them in its place
(`mutants` in `PROJECT.json`).

### MetricFamilies, MessageProcessor and Collector

The three split one call chain. `MessageProcessor` says which messages are
accepted and what they write; a message is one step. `Collector` starts from
the other end: `Receive` gives a handler goroutine a set of families to write,
any of `MessageEffects`, and the handler then writes them one by one in the
order of `setTelemetryMetrics`, a temperature, humidity or pressure in two
steps (`SetExpiring` is the gauge's `Set`, `Stamp` is `updateMetricTimestamp`).
`MessageEffects` is in `MetricFamilies`, and `EffectsAreKnown`, checked of
`MessageProcessor`, says that every accepted message is one of those.

`Collector` keeps ages instead of values and times: `age` of the value shown,
`stampAge` of its entry in `metricTimestamps`. One `Tick` ages all. The
cleanup is one step, because it holds `mu` and what handlers do without `mu`
commutes with the deletion of each single gauge. `Lag` bounds how late its
goroutine may run; a goroutine that may be late for ever keeps no promise, and
`LagAssumption` asks for less than an interval (500 ms at least). The first run
of the goroutine is a step of its own (`StartCleanup`), since `Shutdown` can
come before it.

The lines of `Cleanup`'s inner map deletion (an empty map per node) are
abstracted: no other code can tell.

`MessageProcessor` keeps, in place of a value, the number of the accepted
message and the place in it ("payload" or "top"), so that a property can say
*which* value must be shown. `Width` is the width of a node id. A `from` that
does not fit becomes any id or 0: Go leaves the conversion of a float64 outside
the range of uint32 to the implementation. The names of a node are a number in
the order in which `Gather` sorts the series; `Restart` saves and restores, and
keeps what `updateNodeLabels` keeps.

### StateFile, HookLifecycle and StandaloneApp

A "series" here is all of one metric family; its value is the number of the
message that wrote it last, so "newer" is ">". `SaveState` is `BeginSave`, one
`Gather` per family in any order, `Truncate` (the open of `os.WriteFile`),
`Write`; `SkipWrite` is the early return. A save may fail before the file is touched
(`FailBeforeWrite`: `Gather`, the encoding or the open returns an error) or in
`os.WriteFile` (`FailWrite`), which may then have written nothing, a part or all of it.
The file is missing, unreadable (empty or cut), or holds a snapshot. Two writers that overlap may
leave the tail of the longer document behind a shorter one: `clean` tells who
has an empty file before him.

`DurableStore` says the same without families, system calls or shutdowns: what a
finished save leaves on disk was live after that save had begun; only a save in
progress can damage the disk; a program starts with what is on disk, or empty.
Both lifecycles refine it with the same mapping: `live` is the saved part of
the registry, `disk` the file (unreadable counts as nothing), `saving` the savers
at work, `since` what was live when they began, kept as history (`io[w].since`)
because the code forgets it.

`HookLifecycle` composes that with the process: `Construct` (the factory
loads the file and drops its error), `InitHook`/`InitFails`, `SaverTick` and
`SaverExit` (the saver's select), `OnStopped` followed by the save's steps and
`ShutdownServer`, `Crash` and `Exit`. The end of a process (`LoseMemory`) is the
operating system's, no code of the repository. `OnStopped` comes after the broker has
closed its listeners, so that no client publishes any more; `AlertEcho` is the
message that can still come, an alert that the webhook publishes through the
inline client. A constant, `Reinit`, allows what a test does and the program
does not: `Init` after `Shutdown`, whether or not the saver of the former `Init` is
still at work. Each such `Init` has a saver of its own; how many may run at once is
a bound (`Savers`), and `stopSave` and `stopped` are the hook's, shared by all.

`StandaloneApp` does the same for `App`, whose client may lose and restore its
connection (paho's automatic reconnection, external), runs `onConnect` in a
goroutine of its own, and receives until it is disconnected, after the save.

### AlertDelivery

A request slot is one HTTP request with its handler goroutine. `item` is the
alert in hand and `todo` what `SendAlert` has still to publish. `reply` is what
the other side sees: the handler goes on after "lost". `Notify` and `Retry`
are Alertmanager (external): a notification follows when the last one was
answered or given up, and is posted again only without an answer. `sender`
selects the program; the standalone one builds its server without the alerting
configuration, so that its alerts carry no route. `file` is the routing section as
it is written: `ConvertAlertRoute` is what remains of it after `parseNodeID`, whose
result for a spelling is a constant (`NodeOf`), for any such function. A list of
targets is a function on the places of the list that are taken.

`Stop` begins the end of the program. The embedded one loses its clients first
(`server.Close`) and shuts its webhook down afterwards, the standalone one shuts
the webhook down and disconnects then; `http.Server.Shutdown` waits for requests,
but not for ever (`hurried`), and a handler that was cut off by the timeout is no
request any more. The save in between is the lifecycles'.

### Startup

One host, one configuration file, both programs, any number of starts. An `Edit`
gives one key a value, loses the file or breaks it. `Load` is LoadUnifiedConfig
with all that the getters and the factory do to the values: a record of settings
for each program. Then come the steps of `main` or `Run`, each with its failure:
the hook (`AddMeshtasticHook`, or the panic of a mux that has the webhook's path
already), the TCP and the TLS listener, `Validate`, the connection. `OpenWeb` is
the goroutine of `UnifiedServer.Start`, which binds whenever it runs, or does
without. Ports are numbers; `Taken` is everything bound on the host, 0 stands for
any free port. `ParseDuration` is a constant function, so that the proofs hold for
every reading of durations that keeps Go's answers for "", "0" and the defaults.

### TopicFilter

A topic is the sequence of its levels. `HookMatches` and `ValidatorMatches`
are the two algorithms; `MatchesFrom` is a recursive function over the levels,
for the code's recursion over the rest of both strings: both are always cut at the
same level.
`MQTTMatches`, the reference, is the rule of the MQTT standard.

## 3. Runs and their bounds

| Run | States | Instance | Shows |
|---|---|---|---|
| `collector_lifetime` | 174 k | 1 node, 2 handlers, 1 reading, TTL not configured (default 4), an interval of half of it, lag 1 | races of handlers and cleanup, the time bound, readings disappear, Shutdown ends the goroutine, refinement of `ReadingLifetime` |
| `processor_history` | 249 k | 4 values of ids, 3 accepted messages, 1 restart | registry = function of history |
| `hook_stop` | 182 k | 2 series (one saved), 2 messages, 3 processes, repeated Init, 2 savers | clean stops, crashes, overlaps, every saver ends, the file catches up, refinement of `DurableStore` |
| `standalone_stop` | 118 k | 2 topics, 3 messages, 2 processes | shutdown under traffic and reconnection, subscriptions, refinement of `DurableStore` |
| `alerts_webhook` | 230 k | both programs, 4 configurations, 2 nodes and 4 spellings, 2 alerts, 2 requests | routing, repeats, drops, disconnection, shutdown |
| `startup_config` | 218 k | both programs, 2 edits with what is hard about each of 12 keys, one foreign broker | settings, ports, every start ends |
| `topics_filter` | 6 k | all topics and patterns up to 3 levels | both matchers |
| `processor_rename`, `hook_overlap`, `hook_kill`, `standalone_late`, `alerts_null` | small | | violations, section 5 |

The bounds are enough for the cases the properties are about. Two handlers
suffice for a race of `Set` and `Stamp` with each other and with the cleanup,
since a property names one series. Three messages let an older and a newer
value of a series meet a third, and one restart separates what is restored from
what is received; three processes are the least for a rollback (one saves,
one loads and loses, one loads). A hook initialised again ends its new saver at
its first select without a tick, so that two savers are all that overlap unless
each `Init` finds another still at work. One saved series is enough for `hook_stop`:
an older value of it comes from a save that overlaps a message. That a snapshot is of
no single moment takes two, which `standalone_stop`, `hook_overlap` and `hook_kill`
have; that a series which no alert writes is exactly as at the stop (the last conjunct of
`CleanStopSavesAll`) is left to the theorem `CleanStop`. Two requests are two notifications in the wrong
order, or a repeated one that overlaps itself. Three levels contain every pair
of wildcard, empty level and end of string next to each other. Two edits of the
file put two unusual keys together, or one before the first start and one between
two starts; the properties of the settings concern one key each, and a conflict of
ports takes two.

The type invariants of `HookLifecycle`, `StandaloneApp` and `AlertDelivery`, and
`IInv` of `Collector`, are proved (section 6) and no longer part of a run.

Deadlock is checked except where the bounds or the program's own end stop a
model (messages, processes and notifications are finite in number).

## 4. Fairness

- `Collector`: weak fairness of every handler, of the cleanup goroutine's steps
  and of time. Goroutines that can run are run by Go's scheduler. Nothing
  forces messages or `Shutdown`.
  `ShutdownEndsCleanup` needs the goroutine's only.
- `HookLifecycle`: weak fairness of the steps of a save and of what follows in
  `OnStopped`. Strong fairness of `SaverExit`: the saver's select is evaluated
  again and again, its ticker is empty for almost five minutes each time, and
  with both channels ready Go picks at random. Weak fairness of `SaverTick`: the
  ticker fires as long as the saver runs. Both are asked of each saver. `FileCatchesUp` holds up to failures of
  the write and the end of the process, which nothing rules out.
- `StandaloneApp`: weak fairness of the program's own steps, `onConnect` among
  them; not of the signal, the broker or failures. `EveryTopicSubscribed` allows
  for refused subscriptions and lost connections.
- `AlertDelivery`: weak fairness of each handler and of Alertmanager's next
  notification. Not of publishing successfully, nor of the shutdown.
- `Startup`: weak fairness of `main`'s steps in each program and of the HTTP
  server's goroutine. The connection fails or succeeds: paho's Connect has a
  timeout. Not of edits, loads or the end of a program.

## 5. Disagreements found

Each of these is a run that expects a violation, with the quotation in
`PROJECT.json`:

| Run | What happens |
|---|---|
| `processor_rename` | a renamed node is restored under the name that sorts last |
| `hook_overlap` | a periodic save in progress overwrites the final one |
| `hook_kill` | a kill between truncation and write loses the saved state |
| `standalone_late` | what arrives between save and disconnect is lost |
| `alerts_null` | a null default route broadcasts (config.yaml:49 says it disables) |

Others met while modelling. The models behave so too, and no run is spent on
what reading the code settles:

- `messages_total` has a label `from_node`, so that `SaveState` skips it
  (metrics.go:290) and a restart loses it (README.md:55).
- A message expiry below a second is cut to 0, which the broker takes for no limit
  (adapters/config.go:126): `500ms` is kept for ever, and config.yaml:25 has 0 for
  that. `NoLimitBelowASecond` states for which files this is so.
- A TTL of 0 means the default of 30 minutes (metrics.go:64);
  tests/e2e/e2e_metrics_ttl_cleanup_test.go:308 says it means never, and waits
  two seconds.
- A hook initialised again after `Shutdown` keeps `stopped`
  (meshtastic.go:307): its saver ends at once, and a second `Shutdown` leaves
  the HTTP server running (e2e_network_resilience_test.go:193-202 does the
  first three of these steps).
- The standalone program saves at shutdown only; README.md:55 says every five
  minutes.
- The webhook answers 200 although SendAlert failed (unified_server.go:157);
  api/openapi.yaml:74 says the alert was processed.
- The hook takes a pattern for a prefix (meshtastic.go:303), so that
  `msh/+/+/json/+/+` accepts longer topics too, and the log takes it for an exact
  filter (validator.go:120), so that `msh/` logs nothing; config.yaml:36-40 says
  MQTT wildcards for both. `OnlyBelowIsProcessed` and `OnlySelectedIsLogged` state
  what holds.
- A target node that cannot be read is dropped without a word (unified.go:268):
  docs/src/integration.ru.md:73 has `target_nodes: ["admin001", "monitor02"]`,
  which leaves a direct route without any target.
- `prometheus.path` is read and handed on, and the server always uses `/metrics`
  (unified_server.go:79); the standalone program always uses `/alerts`
  (http_server.go:17), whatever `alertmanager.path` says.
- The maximal QoS is converted to a byte (embedded-hook/main.go:51), so that 256 is 0.
- An alert path of `/metrics` or `/health` is registered twice, and the mux panics
  while the hook is added (unified_server.go:87). Nothing says that these paths are
  not allowed.
- An unreadable message expiry is an hour (unified.go:240), although the default
  is a day (unified.go:113).
- An HTTP server that does not get its address is logged and forgotten
  (unified_server.go:112): the program runs without metrics and alerts.
- docs/src/configuration.ru.md:86 uses a flag `--validate` that no program has.

## 6. Proofs

Eight modules hold proofs, each for every value of the constants under the named
assumptions of the modules it is about (`…Assumption`, which TLC evaluates in the
runs).

| Module | Theorem | States |
|---|---|---|
| `CollectorProofs` | `TypeCorrect` | `TypeOK` |
| | `Invariance` | `IInv` |
| | `StampsExpire` | `StampsExpireInTime` |
| | `NoOrphans` | `NoOrphanReading` |
| | `SeenFirst` | `LastSeenFirst` |
| | `StaleOnly` | `OnlyStaleReadingsRemoved` |
| | `RestoredStay` | `RestoredReadingsStay` |
| | `Refinement` | `ImplementsLifetime` |
| | `CleanupEnds` | `ShutdownEndsCleanup` (scheduled) |
| | `ExpiredLeave` | an expired entry is renewed or leaves with its reading |
| | `ExpiredAreRemoved` | that happens to every expired entry (scheduled) |
| `MessageProcessorProofs` | `TypeCorrect`, `Invariance` | `TypeOK`, `IInv` |
| | `CountersExact` | `CountersAddUp` |
| | `LatestReadings` | `ReadingsAreLatest` |
| | `AnnouncedNames` | `NamesAreAnnounced` |
| | `NoTrace` | `RefusedLeaveNoTrace` |
| | `KnownEffects` | `EffectsAreKnown` |
| | `UnrenamedKeepTheirName` | whoever announced a name has one, across restarts |
| | `ReadingsOnlyGetNewer` | no message and no restart puts an older reading back |
| `StateFileProofs` | (lemmas) | what every interleaving of saves and messages keeps |
| `HookLifecycleProofs` | `TypeCorrect`, `Invariance` | `TypeOK`, `IInv` |
| | `CleanStop` | `CleanStopSavesAll` |
| | `Survives` | `SavedStateSurvives` |
| | `RestartsKeepOrder` | `NoRollback` |
| | `Implementation` | `ImplementsStore` |
| | `StopReturns` | `StopCompletes` (scheduled) |
| | `FileFollows` | `FileCatchesUp` (scheduled) |
| `StandaloneAppProofs` | `TypeCorrect`, `Invariance` | `TypeOK`, `IInv` |
| | `SignalSaves` | `SavedUpToSignal` |
| | `Implementation` | `ImplementsStore` |
| | `ShutdownReturns` | `ShutdownCompletes` (scheduled) |
| | `NoTopicIsForgotten` | a connection whose callback is through lacks no topic but the refused |
| | `EveryTopicIsTried` | each topic is tried or the connection is lost (scheduled) |
| `AlertDeliveryProofs` | `TypeCorrect`, `Invariance` | `TypeOK`, `IInv` |
| | `RecipientsOnly` | `OnlyRecipientsHear` |
| | `Answered` | `AnsweredMeansSent` |
| | `OrderOfNotifications` | `OrderKeptUnlessLost` |
| | `ShutdownKeepsAwaited` | `ShutdownLosesNoAwaited` |
| | `CopiesOfAnAlert` | `CopiesNeedRetries` |
| | `HandlersGoOn` | a handler gets past each alert (scheduled) |
| `StartupProofs` | `TypeCorrect`, `Invariance` | `TypeOK`, `IInv` |
| | `ExpiryOfBoth` | `ExpiryAsSaid` |
| | `PortsHeld` | `RunningHoldsItsPorts` |
| | `LimitsMonotone` | `HigherLimitNotLower` |
| | `ShortIsUnlimited` | `NoLimitBelowASecond` |
| | `StartIsDecided` | `StartDecides` (scheduled) |
| `TopicFilterProofs` | `NothingSelected` | `NothingSelectedIsSkipped` |
| | `OnlyBelow` | `OnlyBelowIsProcessed` |
| | `OnlySelected` | `OnlySelectedIsLogged` |
| | `LoggedExactly` | which selected messages are not logged |

### What must happen

The theorems marked "scheduled" are about something that must happen. tlapm
cannot look into ENABLED, hence not into `WF_vars`: they take from fairness

- `Runs(guard, step)`: a process whose guard holds for ever takes its step again
  and again (`RunsOften`, for strong fairness: whose guard holds again and again).
  It is `WF_vars(step)` with the guard written for ENABLED;
- `SavesReturn`, `SaveReturns`, `SendAlertReturns`, `TickerFires`: a loop that is
  scheduled ends. Each round leaves less of it (`SavesShrink` for a save, one
  message less of an alert, one tick less to the cleanup), but the induction over
  that number is one over data in a temporal formula.

Both can be put to TLC on the instances of the runs, with `guard => ENABLED
<<step>>_vars` as an invariant and the second group as properties of `FairSpec`; it
finds no violation, so that there the hypotheses follow from `Fairness`. They are not
runs of the project, as they say nothing of the program. None of them speaks of
messages, brokers, signals or failures. What the proofs add is the rest of
the argument, for every constant: from which state to which, what can come between,
and that no other step leads astray.

### Collector

None of the safety properties is inductive alone. `IInv` adds:

- `TimersInv`: `StampsExpireInTime` bounds a timestamp's age, which `Tick`
  increases; what a step preserves is the sum of that age and of the ticks to
  the next cleanup, at most TTL + interval. The cleanup removes what is older
  than the TTL and adds one interval to `wait`; `Tick` moves one tick from
  `wait` to the age.
- `WrittenInv`: a handler that has written and not stamped stands at a family
  that expires, so that its next step is the stamp and `InFlight` holds.
- `RestoredInv`: a restored series has no timestamp and nobody writes it, hence
  the cleanup cannot find it.
- `SeenInv`: a handler either has still to update last seen or has done so.
- `HiddenInv`: a reading off display has age 0. The refinement needs it: an entry
  can outlive its reading (a cleanup between `Set` and `Stamp`), and when a later
  cleanup removes that entry the abstract state must not move.

Each action has a step of the proof, and the two action properties follow from
`IInv` in the state before.

`Refinement` maps `SetExpiring` to `BeginWrite`, `Stamp` to `EndWrite`, `Cleanup`
to `Remove` of the expired readings on display, `StopCleanup` to `StopExpiring`
and `Tick` to `Tick`; the rest are stutters. The two steps that need an argument
are `Cleanup` (what it removes is older than the TTL or being written:
`NoOrphanReading`) and `Tick` (no settled reading is at its deadline:
`TimersInv`).

`CleanupEnds` needs `ToldToEnd`: a running goroutine whose cancel function is gone has
been cancelled, since `Shutdown` calls it before it lets go of it. `ExpiredAreRemoved`
goes from a goroutine that starts late to one that runs, from there to a fired ticker,
and shows that nothing but the cleanup or a stamp makes an expired entry anything else
(`ExpiredStays`); `ExpiredLeave` says that the cleanup takes the reading along.

### MessageProcessor

The properties of the history say what the registry owes to the log of accepted
messages: they are inductive together once the types are known. What has to be
shown is that one more entry of the log changes the sets they take a maximum or
a cardinality of (`SetsGrow`, `NowIsLast`) the way `Accept` changes the registry,
and `LastExists` is there because the maximum of a set means nothing where it has
none; the sets of the log are finite, and so are the names of a node, which are
among them. That a counter is at most the number of messages, which `TypeOK` says,
follows from `CountersAddUp` (`CountersBounded`).

`NamesAreAnnounced` leaves open that a restart takes a node's name away.
`NamedAreShown`, inductive with it, closes that: `SaveState` keeps the last of
several identities and never none. What is left for a node that never changed its
name is exactly that name (`UnrenamedKeepTheirName`).

### StateFile, HookLifecycle, StandaloneApp

`SaveInv` (`StateFileProofs`) is shared: what a save has gathered of a series lies
between the value at its call and the value now (`Between`), no value is newer than
the last message, and an idle saver has forgotten everything. Each step of a save is
also a step of `DurableStore` or a stutter (`SaveStepStore`): `BeginSave` begins,
`Truncate` damages, `Write`, `FailWrite`, `FailBeforeWrite` and `SkipWrite` finish.

The embedded program's invariant has three more parts. `StopInOrder` follows the
final save: a saver's save in progress when `OnStopped` comes sets `overlap`, so
that without it the final write has an empty file before it, gathers between
`atStop` and the registry, and leaves `FileAsStopped`; what is `Touched` by alert
echoes may be newer, the rest is exact. `NothingOlder` holds of registry, file and
all snapshots in progress at once: dropping one of the three breaks the others at
the next save or load. `SavedStateSurvives` is inductive once the types are known.
The standalone program's `SaveInOrder` is simpler, since it has one writer, and
weaker, since messages still arrive.

`FileFollows` divides the life of a serving process at its noise (messages, failed
writes): from some moment on there is none or the property holds. A save that begins
after it gathers what the registry holds and goes on to hold it (`SaveBeginsLatest`,
`SavesLatest`), and its write leaves exactly that in the file (`SaveEndsLatest`,
`CaughtUp`); a save that was under way has to return first. It needs `SaverThere`: until the
hook is stopped it has one saver, and no other goroutine saves. `StopReturns` and
`ShutdownReturns` follow the shutdown from step to step; `ServerIsDown` is the fact
about the past that the last state of `ShutdownCompletes` needs.

`TopicsInOrder` says that the topics of a connection are divided among those still to
try, the subscribed and the refused ones. `NoTopicIsForgotten` is what
`EveryTopicSubscribed` says of the moment when the callback is through, and
`EveryTopicIsTried` its liveness, topic by topic.

### AlertDelivery

`Routed` and `Delivered` are the two halves of one ledger: what a handler has
published or has still to publish is for the recipients that the file names, and
each recipient has heard the alert, or is still on the list, or the alert is in
`trouble` or `unheard`. `PlanIsForRecipients` is the lemma about the code's routing:
the values of `Plan(ToAlert(severity))` are exactly `Recipients(severity)`, stated
from the file's section without modes or order, for every routing section. `InOrder`
and `EarlierSettled` say which requests may still be open when a notification is
posted, which gives the order in the air. `ShutdownInOrder` adds that the standalone
program disconnects after the last awaited request or remembers that it did not.

`CopiesNeedRetries` counts. `CopiesInv` says that the messages on the air that are
equal are no more than their occasions: the pairs of a request and a place in its
plan that the handler has passed. A step that publishes passes one more place
and adds one message; the occasions of an alert are among the product of its
requests and of its places, whose cardinality is the bound of the property.

### Startup

`SettingsOfFile` says that each program's settings are `Settings` of the file it has
loaded; `ExpiryAsSaid` and `HigherLimitNotLower` are then facts about the
conversions, for all integers and all durations (`SafeMonotone`, `SecondsHonour`).
`ExpiryAsSaid` speaks of expiries of a second and more, and of none; what it leaves out
is in `NoLimitBelowASecond` (`SecondsLost`).
`PortsOfStage` gives the ports that each stage of the embedded program's start
holds, and that no open HTTP server has one of them. `StartIsDecided` follows the
stages, of which none comes twice in a start (`StagesInOrder`).

### TopicFilter

The hook's matcher is not recursive: what it lets pass follows from the levels one
by one (`SelectedPasses`, `PassedIsBelow`), once `HookPatternType` has shown that
the constructors and the matcher together cut nothing but an empty last level. The
validator's is. `LeastNumber` (the numbers are well-founded, from the library) and
`Downwards` replace induction: a set of levels that holds the last one, and with
each level the one before it, holds all. Applied to the levels from which the
equations have a solution it shows that the recursion ends (`Terminates`); applied
to those that are `InStep`, that what is selected is what MQTT selects. The converse is
false: `Overlooked` are the topic that a filter with a last `#` names itself, and the
topics with an empty last level for a filter with a last `+`. That these, and no others,
are lost is `LoggedExactly`: `OverlookedIsLost` goes down from the topic's last
level, `LastIsFound` and `EarlierIsFound` from the pattern's.

### Only model-checked

- `StaleReadingsDisappear` and `HandlersFinish` as wholes, and that
  `EveryTopicSubscribed` gets to the end of its callback: each is an induction over a
  number of ticks, alerts or topics, of which `ExpiredAreRemoved`, `HandlersGoOn` and
  `EveryTopicIsTried` are the steps.
- The way from `Fairness` to the hypotheses of the "scheduled" theorems (ENABLED, and
  the end of a loop).
- The violations of section 5, which TLC exhibits.

Every invariant and every other property of the passing runs is stated by a theorem.
No module declares a RECURSIVE operator.

## 7. Plan

Done: everything above. What remains, and would add least to do next:

1. The length of alert messages (`convertToAlert` limits the summary, not the
   name) against LoRa's limit.
2. Values in `Collector`, for two gateways whose clocks order last seen
   differently.

## 8. Not modelled

- Formatting and truncation of values (`math.Trunc(v*100)/100` in float64 is
  beyond TLC's integers), `SanitizeString`, role names, texts of alerts and log
  messages.
- HTTP endpoints that only read, the recovery middleware, logger, errors,
  version, mocks.
- Authentication and TLS: a list of rules and a certificate handed to mochi-mqtt
  and paho, which are external and appear only as what they call and when.
- YAML's syntax: a file is missing, cannot be parsed, or gives each key a value of its
  type. Users and passwords, topics, TLS versions and the log level are handed on as
  they are.
