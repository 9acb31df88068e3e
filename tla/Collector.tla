------------------------------ MODULE Collector ------------------------------
(***************************************************************************)
(* PrometheusCollector (pkg/infrastructure/metrics.go): the series that    *)
(* /metrics exposes, the goroutines that write them while a message is     *)
(* processed, and the goroutine that deletes readings older than the TTL.  *)
(*                                                                         *)
(* A reading's value is abstracted to its age, the number of ticks since   *)
(* the Set that wrote it.  A series <<n, f>> is the series of metric       *)
(* family f with label node_id = n; the further labels of node_info and    *)
(* messages_total are abstracted away.                                     *)
(*                                                                         *)
(* The gauges are not protected by PrometheusCollector.mu, which guards    *)
(* metricTimestamps only: writing a gauge and stamping it are two steps,   *)
(* and the cleanup may run between them.                                   *)
(***************************************************************************)
EXTENDS MetricFamilies, FiniteSets

CONSTANTS
  Nodes,          \* node ids
  Handlers,       \* goroutines that may be inside ProcessMessage at once
  ConfiguredTTL,  \* the ttl given to NewPrometheusCollectorWithConfig
  DefaultTTL,     \* domain.DefaultMetricsTTL
  MinInterval,    \* minCleanupInterval
  MaxInterval,    \* maxCleanupInterval
  Lag             \* how late the cleanup goroutine may run, in ticks

Series  == Nodes \X Families
Tracked == Nodes \X Expiring

\* A ttl that is zero or negative is replaced by the default.
TTL == IF ConfiguredTTL <= 0 THEN DefaultTTL ELSE ConfiguredTTL

Interval ==
  LET half == TTL \div 2
  IN  IF half < MinInterval THEN MinInterval
      ELSE IF half > MaxInterval THEN MaxInterval
      ELSE half

\* The age at which a tracked reading must have been cleaned up.
Bound == TTL + Interval + Lag

\* Ages above the bound are not told apart.
AgeCap == Bound + 1

ASSUME TimeAssumption ==
  /\ ConfiguredTTL \in Int
  /\ DefaultTTL \in Nat \ {0}
  /\ MinInterval \in Nat \ {0}
  /\ MaxInterval \in Nat \ {0}

\* The scheduler delays the cleanup goroutine by less than one interval
\* (500 ms at least), and by no more than a TTL.
ASSUME LagAssumption ==
  /\ Lag \in Nat
  /\ Lag < Interval
  /\ Lag <= TTL

VARIABLES
  exposed,    \* the series present in the registry
  age,        \* ticks since a tracked series was written
  restored,   \* exposed series last written by LoadState
  stamped,    \* the tracked series with an entry in metricTimestamps
  stampAge,   \* ticks since that entry was written
  job,        \* what each handler goroutine still has to write
  cleaner,    \* state of the cleanup goroutine
  cancelSet,  \* cleanupCancel # nil
  cancelled,  \* the context of the cleanup goroutine is done
  wait        \* ticks until the cleanup ticker fires; negative when late

registry  == <<exposed, age, restored>>
stamps    == <<stamped, stampAge>>
goroutine == <<cleaner, cancelSet, cancelled, wait>>
vars      == <<registry, stamps, job, goroutine>>

-----------------------------------------------------------------------------
(* What is restored, what a handler does next, and what a cleanup removes. *)

\* restoreMetric knows every family but messages_total.
Restorable == Nodes \X (Families \ {MessageCounter})

\* Bug: a handler's writes in any order.
IsNextInAnyOrder(h, f) == f \in job[h].todo

\* h is about to write family f, or to stamp it once it is written.
IsNext(h, f) ==
  /\ f \in job[h].todo
  /\ \A g \in job[h].todo : f <= g

\* Some handler has written the gauge of s and not yet stamped it.
InFlight(s) ==
  \E h \in Handlers : job[h].written /\ job[h].node = s[1] /\ IsNext(h, s[2])

\* Bug: a reading expires when it is exactly as old as the TTL.
ExpiredAtTTL == {s \in stamped : stampAge[s] >= TTL}

\* Bug: an entry gets one interval of grace.
ExpiredWithGrace == {s \in stamped : stampAge[s] > TTL + Interval}

\* The entries that cleanupExpiredMetrics finds too old.
Expired == {s \in stamped : stampAge[s] > TTL}

\* Bug: the switch lacks the case of the temperature.
DeleteMetricForgetsOne(gone) == {s \in gone : s[2] \in {Humidity, Pressure}}

\* deleteMetric: what goes from the registry with the entries.
DeleteMetric(gone) == {s \in gone : s[2] \in {Temperature, Humidity, Pressure}}

-----------------------------------------------------------------------------
(* Initially the collector has just been created, its cleanup goroutine has *)
(* not run yet, and LoadState has restored some series.                     *)

\* Bug: LoadState stamps what it restores.
InitStamped ==
  /\ restored \in SUBSET Restorable
  /\ exposed = restored
  /\ age = [s \in Tracked |-> 0]
  /\ stamped = restored \cap Tracked
  /\ stampAge = [s \in Tracked |-> 0]
  /\ job \in [Handlers -> [node : Nodes, todo : {{}}, written : {FALSE}]]
  /\ cleaner = "starting"
  /\ cancelSet = FALSE
  /\ cancelled = FALSE
  /\ wait = 0

Init ==
  /\ restored \in SUBSET Restorable
  /\ exposed = restored
  /\ age = [s \in Tracked |-> 0]
  /\ stamped = {}
  /\ stampAge = [s \in Tracked |-> 0]
  /\ job \in [Handlers -> [node : Nodes, todo : {{}}, written : {FALSE}]]
  /\ cleaner = "starting"
  /\ cancelSet = FALSE
  /\ cancelled = FALSE
  /\ wait = 0

\* ProcessMessage accepts a message of node n: h has its effects to carry out.
Receive(h, n, effects) ==
  /\ job[h].todo = {}
  /\ job' = [job EXCEPT ![h] = [node |-> n, todo |-> effects, written |-> FALSE]]
  /\ UNCHANGED <<registry, stamps, goroutine>>

\* WithLabelValues(n).Set(v) or Inc() of a family that does not expire.
SetLasting(h, f) ==
  /\ IsNext(h, f)
  /\ f \notin Expiring
  /\ exposed' = exposed \cup {<<job[h].node, f>>}
  /\ restored' = restored \ {<<job[h].node, f>>}
  /\ job' = [job EXCEPT ![h].todo = @ \ {f}]
  /\ UNCHANGED <<age, stamps, goroutine>>

\* The Set of a temperature, humidity or pressure gauge, outside the lock.
SetExpiring(h, f) ==
  /\ IsNext(h, f)
  /\ f \in Expiring
  /\ ~job[h].written
  /\ exposed' = exposed \cup {<<job[h].node, f>>}
  /\ restored' = restored \ {<<job[h].node, f>>}
  /\ age' = [age EXCEPT ![<<job[h].node, f>>] = 0]
  /\ job' = [job EXCEPT ![h].written = TRUE]
  /\ UNCHANGED <<stamps, goroutine>>

\* Bug: an entry that exists is not renewed.
StampOnce(h, f) ==
  /\ IsNext(h, f)
  /\ f \in Expiring
  /\ job[h].written
  /\ stamped' = stamped \cup {<<job[h].node, f>>}
  /\ job' = [job EXCEPT ![h].todo = @ \ {f}, ![h].written = FALSE]
  /\ UNCHANGED <<registry, stampAge, goroutine>>

\* updateMetricTimestamp: the time is read under the lock.
Stamp(h, f) ==
  /\ IsNext(h, f)
  /\ f \in Expiring
  /\ job[h].written
  /\ stamped' = stamped \cup {<<job[h].node, f>>}
  /\ stampAge' = [stampAge EXCEPT ![<<job[h].node, f>>] = 0]
  /\ job' = [job EXCEPT ![h].todo = @ \ {f}, ![h].written = FALSE]
  /\ UNCHANGED <<registry, goroutine>>

-----------------------------------------------------------------------------
(* The cleanup goroutine. *)

\* Bug: the ticker gets the TTL, not the clamped half of it.
StartCleanupUnclamped ==
  /\ cleaner = "starting"
  /\ cleaner' = "running"
  /\ cancelSet' = TRUE
  /\ wait' = TTL
  /\ UNCHANGED <<registry, stamps, job, cancelled>>

\* It publishes cleanupCancel and starts its ticker.
StartCleanup ==
  /\ cleaner = "starting"
  /\ cleaner' = "running"
  /\ cancelSet' = TRUE
  /\ wait' = Interval
  /\ UNCHANGED <<registry, stamps, job, cancelled>>

\* cleanupExpiredMetrics.  It holds mu throughout, so that no stamp falls
\* inside it; a gauge written meanwhile is written before or after its
\* deletion, as it would be around one atomic step.
Cleanup ==
  LET gone == DeleteMetric(Expired)
      zeroed(a, from) == [s \in Tracked |-> IF s \in from THEN 0 ELSE a[s]]
  IN  /\ cleaner = "running"
      /\ wait <= 0
      /\ exposed' = exposed \ gone
      /\ restored' = restored \ gone
      /\ age' = zeroed(age, gone)
      /\ stamped' = stamped \ Expired
      /\ stampAge' = zeroed(stampAge, Expired)
      /\ wait' = wait + Interval
      /\ UNCHANGED <<job, cleaner, cancelSet, cancelled>>

\* The select sees ctx.Done; when the ticker is ready too, either may win.
StopCleanup ==
  /\ cleaner = "running"
  /\ cancelled
  /\ cleaner' = "exited"
  /\ wait' = 0
  /\ UNCHANGED <<registry, stamps, job, cancelSet, cancelled>>

\* Bug: the context is not cancelled.
ShutdownForgetsCancel ==
  /\ cancelSet
  /\ cancelSet' = FALSE
  /\ UNCHANGED <<registry, stamps, job, cleaner, cancelled, wait>>

\* PrometheusCollector.Shutdown: without effect while cleanupCancel is nil.
Shutdown ==
  /\ cancelSet
  /\ cancelled' = TRUE
  /\ cancelSet' = FALSE
  /\ UNCHANGED <<registry, stamps, job, cleaner, wait>>

\* One tick passes.  It does not while the cleanup goroutine is Lag late.
Tick ==
  LET older(a, present) ==
        [s \in Tracked |-> IF s \in present /\ a[s] < AgeCap THEN a[s] + 1 ELSE a[s]]
  IN  /\ cleaner # "exited" => wait > -Lag
      /\ age' = older(age, exposed)
      /\ stampAge' = older(stampAge, stamped)
      /\ wait' = IF cleaner = "exited" THEN wait ELSE wait - 1
      /\ UNCHANGED <<exposed, restored, stamped, job, cleaner, cancelSet, cancelled>>

Handle(h) == \E f \in Families : SetLasting(h, f) \/ SetExpiring(h, f) \/ Stamp(h, f)

Next ==
  \/ \E h \in Handlers, n \in Nodes, effects \in MessageEffects : Receive(h, n, effects)
  \/ \E h \in Handlers, f \in Families : SetLasting(h, f)
  \/ \E h \in Handlers, f \in Families : SetExpiring(h, f)
  \/ \E h \in Handlers, f \in Families : Stamp(h, f)
  \/ StartCleanup
  \/ Cleanup
  \/ StopCleanup
  \/ Shutdown
  \/ Tick

\* Goroutines that can run do run, and time passes.  Messages may stop, and
\* nothing forces Shutdown.
Fairness ==
  /\ \A h \in Handlers : WF_vars(Handle(h))
  /\ WF_vars(StartCleanup)
  /\ WF_vars(Cleanup)
  /\ WF_vars(StopCleanup)
  /\ WF_vars(Tick)

Spec     == Init /\ [][Next]_vars
FairSpec == Spec /\ Fairness

-----------------------------------------------------------------------------
(* Properties. *)

\* Every variable has its type.
TypeOK ==
  /\ exposed \in SUBSET Series
  /\ age \in [Tracked -> 0 .. AgeCap]
  /\ restored \in SUBSET exposed
  /\ stamped \in SUBSET Tracked
  /\ stampAge \in [Tracked -> 0 .. AgeCap]
  /\ job \in [Handlers -> [node : Nodes, todo : SUBSET Families, written : BOOLEAN]]
  /\ cleaner \in {"starting", "running", "exited"}
  /\ cancelSet \in BOOLEAN
  /\ cancelled \in BOOLEAN
  /\ wait \in -Lag .. Interval

\* While the cleanup goroutine lives, no timestamp outlives the TTL by more
\* than one cleanup interval and the scheduling lag: the clamp of the interval
\* and the strict comparison with the TTL never let an entry slip through two
\* cleanups.
StampsExpireInTime ==
  cleaner # "exited" => \A s \in stamped : stampAge[s] <= Bound

\* A reading this process received has a timestamp at least as young as its
\* value, unless its writer stands between the Set and the stamp: no race of
\* handlers and cleanup leaves a temperature, humidity or pressure behind that
\* no cleanup will ever find, or one that would be found too early.
NoOrphanReading ==
  \A s \in (exposed \cap Tracked) \ restored :
    InFlight(s) \/ (s \in stamped /\ stampAge[s] <= age[s])

\* The cleanup removes a reading only when its value is older than the TTL,
\* or while a handler has written it and not yet stamped it.  The second case
\* is the race of setEnvironmentalMetrics with cleanupExpiredMetrics.
OnlyStaleReadingsRemoved ==
  [][\A s \in Tracked : s \in exposed \ exposed' => age[s] > TTL \/ InFlight(s)]_vars

\* Cleanup never removes what LoadState restored: restored readings have no
\* timestamp, whatever handlers and cleanup do, until a message rewrites them.
RestoredReadingsStay ==
  [][restored \subseteq exposed']_vars

\* A node with a series received by this process has a last-seen series:
\* ProcessMessage updates it before anything else of the message.
LastSeenFirst ==
  \A s \in exposed \ restored : <<s[1], LastSeen>> \in exposed

\* Unless the collector is shut down, no received reading stays exposed with an
\* age beyond the TTL for ever: it is removed or rewritten.
StaleReadingsDisappear ==
  (\A s \in Tracked :
     []<>(s \in exposed \ restored => age[s] <= TTL)) \/ <>cancelled

\* Shutdown takes effect once: from the moment it has taken cleanupCancel away
\* the cleanup goroutine ends, whatever the ticker does, and a goroutine that
\* still runs can still be told to end.
ShutdownEndsCleanup ==
  (cleaner = "running" /\ ~cancelSet) ~> (cleaner = "exited")

-----------------------------------------------------------------------------
(* Inductive invariants. *)

\* The inductive strengthening of StampsExpireInTime: before the ticker starts
\* no timestamp is older than the delay of the goroutine; from then on a
\* timestamp has TTL + Interval ticks to live at most, counted to the next
\* firing of the ticker.
TimersInv ==
  /\ cleaner = "starting" => wait <= 0 /\ \A s \in stamped : stampAge[s] <= -wait
  /\ cleaner = "running" => \A s \in stamped : stampAge[s] + wait <= TTL + Interval

\* A handler between the Set and the stamp is at an expiring family.
WrittenInv ==
  \A h \in Handlers : job[h].written => \E f \in Expiring : IsNext(h, f)

\* A restored series has no timestamp and is being written by nobody.
RestoredInv ==
  \A s \in restored : s \notin stamped /\ ~InFlight(s)

\* The inductive strengthening of LastSeenFirst: a handler that has no longer
\* to update last seen has done so.
SeenInv ==
  \A h \in Handlers :
    job[h].todo # {} =>
      LastSeen \in job[h].todo \/ <<job[h].node, LastSeen>> \in exposed

\* A reading off display has no age: the next one starts from zero.
HiddenInv ==
  \A s \in Tracked \ exposed : age[s] = 0

\* The inductive invariant of the collector.
IInv ==
  /\ TypeOK
  /\ TimersInv
  /\ WrittenInv
  /\ RestoredInv
  /\ NoOrphanReading
  /\ SeenInv
  /\ LastSeenFirst
  /\ HiddenInv
=============================================================================
