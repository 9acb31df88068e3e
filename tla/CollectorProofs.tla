--------------------------- MODULE CollectorProofs ---------------------------
(***************************************************************************)
(* Proofs about Collector, for every set of nodes, handlers and families   *)
(* and every TTL, interval and lag that the assumptions admit; and that it *)
(* implements ReadingLifetime: its initial states map to initial states,   *)
(* and under the inductive invariant each of its steps maps to a step or   *)
(* to a stutter.  Last comes what must happen: the cleanup goroutine ends  *)
(* when it is told to, and removes what has expired until then.            *)
(***************************************************************************)
EXTENDS CollectorRefinement, TLAPS

-----------------------------------------------------------------------------
(* Constants. *)

\* The effective TTL and the cleanup interval are positive.
LEMMA TTLType == TTL \in Nat \ {0}
  BY TimeAssumption DEF TTL

\* The cleanup interval is positive.
LEMMA IntervalType == Interval \in Nat \ {0}
  <1>1. TTL \div 2 \in Int
    BY TTLType
  <1> QED
    BY <1>1, TimeAssumption DEF Interval

\* The deadline of a reading is a natural number.
LEMMA BoundType ==
  /\ Bound \in Nat
  /\ AgeCap \in Nat
  /\ AgeCap = Bound + 1
  /\ Lag \in Nat
  /\ -Lag \in Int
  BY TTLType, IntervalType, LagAssumption DEF Bound, AgeCap

\* Only series of the registry are tracked, and last seen is not among them.
LEMMA TrackedSeries ==
  /\ Expiring \subseteq Families
  /\ Tracked \subseteq Series
  /\ LastSeen \in Families
  /\ LastSeen \notin Expiring
  BY FamiliesAssumption
  DEF Expiring, Tracked, Series, LastSeen, Temperature, Humidity, Pressure

\* The effects of a message are families, last seen among them.
LEMMA MessageEffectsType ==
  ASSUME NEW effects \in MessageEffects
  PROVE  effects \in SUBSET Families /\ LastSeen \in effects
  BY FamiliesAssumption DEF MessageEffects, Telemetry

\* A cleanup takes exactly the series with a timestamp beyond the TTL, from the
\* registry and from the timestamps.
LEMMA CleanupEffect ==
  ASSUME TypeOK, Cleanup
  PROVE  /\ \A s \in Tracked : s \in Expired <=> s \in stamped /\ stampAge[s] > TTL
         /\ Expired \subseteq Tracked
         /\ exposed' = exposed \ Expired
         /\ restored' = restored \ Expired
         /\ age' = [s \in Tracked |-> IF s \in Expired THEN 0 ELSE age[s]]
         /\ stamped' = stamped \ Expired
         /\ stampAge' = [s \in Tracked |-> IF s \in Expired THEN 0 ELSE stampAge[s]]
         /\ wait <= 0 /\ wait' = wait + Interval
         /\ cleaner = "running"
         /\ UNCHANGED <<job, cleaner, cancelSet, cancelled>>
  <1>1. Expired \subseteq Tracked
    BY DEF Expired, TypeOK
  <1>2. DeleteMetric(Expired) = Expired
    BY <1>1 DEF DeleteMetric, Tracked, Expiring
  <1> QED
    BY <1>1, <1>2 DEF Cleanup, Expired

-----------------------------------------------------------------------------
(* Type correctness. *)

\* The initial states have the types of TypeOK.
LEMMA InitTypeOK == Init => TypeOK
  <1> SUFFICES ASSUME Init PROVE TypeOK
    OBVIOUS
  <1>1. age \in [Tracked -> 0 .. AgeCap] /\ stampAge \in [Tracked -> 0 .. AgeCap]
    BY BoundType DEF Init
  <1>2. exposed \in SUBSET Series /\ restored \in SUBSET exposed
    BY DEF Init, Restorable, Series
  <1>3. wait \in -Lag .. Interval
    BY BoundType, IntervalType DEF Init
  <1> QED
    BY <1>1, <1>2, <1>3 DEF Init, TypeOK

\* Every step keeps them.
LEMMA NextTypeOK == TypeOK /\ [Next]_vars => TypeOK'
  <1> SUFFICES ASSUME TypeOK, [Next]_vars PROVE TypeOK'
    OBVIOUS
  <1> USE DEF TypeOK
  <1>1. ASSUME NEW h \in Handlers, NEW n \in Nodes, NEW effects \in MessageEffects,
               Receive(h, n, effects)
        PROVE  TypeOK'
    BY <1>1, MessageEffectsType DEF Receive, registry, stamps, goroutine
  <1>2. ASSUME NEW h \in Handlers, NEW f \in Families, SetLasting(h, f)
        PROVE  TypeOK'
    <2>1. <<job[h].node, f>> \in Series
      BY DEF Series
    <2> QED
      BY <1>2, <2>1 DEF SetLasting, stamps, goroutine
  <1>3. ASSUME NEW h \in Handlers, NEW f \in Families, SetExpiring(h, f)
        PROVE  TypeOK'
    <2>1. <<job[h].node, f>> \in Series
      BY DEF Series
    <2>2. 0 \in 0 .. AgeCap
      BY BoundType
    <2> QED
      BY <1>3, <2>1, <2>2 DEF SetExpiring, stamps, goroutine
  <1>4. ASSUME NEW h \in Handlers, NEW f \in Families, Stamp(h, f)
        PROVE  TypeOK'
    <2>1. <<job[h].node, f>> \in Tracked
      BY <1>4 DEF Stamp, Tracked
    <2>2. 0 \in 0 .. AgeCap
      BY BoundType
    <2> QED
      BY <1>4, <2>1, <2>2 DEF Stamp, registry, goroutine
  <1>5. CASE StartCleanup
    BY <1>5, IntervalType, BoundType DEF StartCleanup, registry, stamps
  <1>6. CASE Cleanup
    <2>1. wait + Interval \in -Lag .. Interval
      BY <1>6, IntervalType, BoundType, CleanupEffect
    <2>2. 0 \in 0 .. AgeCap
      BY BoundType
    <2>3. age' \in [Tracked -> 0 .. AgeCap] /\ stampAge' \in [Tracked -> 0 .. AgeCap]
      BY <1>6, <2>2, CleanupEffect
    <2> QED
      BY <1>6, <2>1, <2>3, CleanupEffect
  <1>7. CASE StopCleanup
    BY <1>7, IntervalType, BoundType DEF StopCleanup, registry, stamps
  <1>8. CASE Shutdown
    BY <1>8 DEF Shutdown, registry, stamps
  <1>9. CASE Tick
    <2>1. age' \in [Tracked -> 0 .. AgeCap] /\ stampAge' \in [Tracked -> 0 .. AgeCap]
      BY <1>9, BoundType DEF Tick
    <2>2. wait' \in -Lag .. Interval
      BY <1>9, IntervalType, BoundType DEF Tick
    <2> QED
      BY <1>9, <2>1, <2>2 DEF Tick
  <1>10. CASE UNCHANGED vars
    BY <1>10 DEF vars, registry, stamps, goroutine
  <1> QED
    BY <1>1, <1>2, <1>3, <1>4, <1>5, <1>6, <1>7, <1>8, <1>9, <1>10 DEF Next

\* Type correctness of the collector.
THEOREM TypeCorrect == Spec => []TypeOK
  BY InitTypeOK, NextTypeOK, PTL DEF Spec

-----------------------------------------------------------------------------
(* Timestamps do not outlive their bound. *)

\* Initially there are no timestamps.
LEMMA InitTimers == Init => TimersInv
  BY DEF Init, TimersInv

\* Each step keeps the account of the timestamps' remaining life.
LEMMA NextTimers == TypeOK /\ TimersInv /\ [Next]_vars => TimersInv'
  <1> SUFFICES ASSUME TypeOK, TimersInv, [Next]_vars PROVE TimersInv'
    OBVIOUS
  <1> USE TTLType, IntervalType, BoundType
  <1> USE DEF TypeOK, TimersInv
  <1>1. ASSUME NEW h \in Handlers, NEW n \in Nodes, NEW effects \in MessageEffects,
               Receive(h, n, effects)
        PROVE  TimersInv'
    BY <1>1 DEF Receive, registry, stamps, goroutine
  <1>2. ASSUME NEW h \in Handlers, NEW f \in Families, SetLasting(h, f)
        PROVE  TimersInv'
    BY <1>2 DEF SetLasting, stamps, goroutine
  <1>3. ASSUME NEW h \in Handlers, NEW f \in Families, SetExpiring(h, f)
        PROVE  TimersInv'
    BY <1>3 DEF SetExpiring, stamps, goroutine
  <1>4. ASSUME NEW h \in Handlers, NEW f \in Families, Stamp(h, f)
        PROVE  TimersInv'
    <2> DEFINE new == <<job[h].node, f>>
    <2>1. new \in Tracked
      BY <1>4 DEF Stamp, Tracked
    <2>2. ASSUME NEW s \in stamped'
          PROVE  stampAge'[s] = 0 \/ (s \in stamped /\ stampAge'[s] = stampAge[s])
      BY <1>4, <2>1, <2>2 DEF Stamp
    <2> QED
      BY <1>4, <2>2 DEF Stamp, goroutine
  <1>5. CASE StartCleanup
    <2>1. \A s \in stamped : stampAge[s] <= TTL
      BY <1>5, LagAssumption DEF StartCleanup
    <2> QED
      BY <1>5, <2>1 DEF StartCleanup, stamps
  <1>6. CASE Cleanup
    <2>1. \A s \in stamped' : stampAge'[s] <= TTL
      BY <1>6, CleanupEffect
    <2>2. cleaner' = "running" /\ wait' <= Interval
      BY <1>6, CleanupEffect
    <2>3. \A s \in stamped' : stampAge'[s] \in Int
      BY <1>6, CleanupEffect
    <2>4. wait' \in Int
      BY <1>6, CleanupEffect
    <2> QED
      BY <2>1, <2>2, <2>3, <2>4
  <1>7. CASE StopCleanup
    BY <1>7 DEF StopCleanup
  <1>8. CASE Shutdown
    BY <1>8 DEF Shutdown, stamps
  <1>9. CASE Tick
    <2>1. ASSUME NEW s \in stamped
          PROVE  stampAge'[s] <= stampAge[s] + 1 /\ stampAge'[s] \in Int
      BY <1>9 DEF Tick
    <2> QED
      BY <1>9, <2>1 DEF Tick
  <1>10. CASE UNCHANGED vars
    BY <1>10 DEF vars, stamps, goroutine
  <1> QED
    BY <1>1, <1>2, <1>3, <1>4, <1>5, <1>6, <1>7, <1>8, <1>9, <1>10 DEF Next

-----------------------------------------------------------------------------
(* Written gauges, restored series and timestamps. *)

\* A handler has one family at most that it comes to next.
LEMMA NextIsUnique ==
  ASSUME TypeOK, NEW h \in Handlers, NEW f, NEW g, IsNext(h, f), IsNext(h, g)
  PROVE  f = g
  <1>1. f \in Int /\ g \in Int
    BY FamiliesAssumption DEF TypeOK, IsNext, LastSeen, NodeHardware
  <1>2. f <= g /\ g <= f
    BY DEF IsNext
  <1> QED
    BY <1>1, <1>2

\* A step that leaves the other handlers alone leaves their writes in flight.
LEMMA OthersInFlight ==
  ASSUME NEW h \in Handlers,
         \A k \in Handlers \ {h} : job'[k] = job[k],
         NEW s,
         ~(job'[h].written /\ job'[h].node = s[1] /\ IsNext(h, s[2])'),
         InFlight(s)'
  PROVE  InFlight(s)
  BY DEF InFlight, IsNext

\* A write in flight ends only with a step of its own handler.
LEMMA StaysInFlight ==
  ASSUME NEW h \in Handlers,
         \A k \in Handlers \ {h} : job'[k] = job[k],
         NEW s,
         ~(job[h].written /\ job[h].node = s[1] /\ IsNext(h, s[2])),
         InFlight(s)
  PROVE  InFlight(s)'
  BY DEF InFlight, IsNext

\* Initially nothing is written, and everything exposed is restored.
LEMMA InitReadings == Init => WrittenInv /\ RestoredInv /\ NoOrphanReading
  BY DEF Init, WrittenInv, RestoredInv, NoOrphanReading, InFlight

\* Each step keeps a received reading stamped or in flight, and a restored one
\* neither stamped nor in flight.
LEMMA NextReadings ==
  ASSUME TypeOK, TypeOK', WrittenInv, RestoredInv, NoOrphanReading, [Next]_vars
  PROVE  WrittenInv' /\ RestoredInv' /\ NoOrphanReading'
  <1> USE DEF TypeOK
  <1>1. ASSUME NEW h \in Handlers, NEW n \in Nodes, NEW effects \in MessageEffects,
               Receive(h, n, effects)
        PROVE  WrittenInv' /\ RestoredInv' /\ NoOrphanReading'
    <2>1. ~job'[h].written /\ ~\E f : IsNext(h, f)
      BY <1>1 DEF Receive, IsNext
    <2>2. \A k \in Handlers \ {h} : job'[k] = job[k]
      BY <1>1 DEF Receive
    <2>3. ASSUME NEW s PROVE InFlight(s)' <=> InFlight(s)
      BY <2>1, <2>2, OthersInFlight, StaysInFlight
    <2>4. WrittenInv'
      BY <2>1, <2>2 DEF WrittenInv, IsNext
    <2> QED
      BY <1>1, <2>3, <2>4
      DEF Receive, registry, stamps, RestoredInv, NoOrphanReading
  <1>2. ASSUME NEW h \in Handlers, NEW f \in Families, SetLasting(h, f)
        PROVE  WrittenInv' /\ RestoredInv' /\ NoOrphanReading'
    <2>1. ~job[h].written
      BY <1>2, NextIsUnique DEF SetLasting, WrittenInv
    <2>2. ~job'[h].written /\ \A k \in Handlers \ {h} : job'[k] = job[k]
      BY <1>2, <2>1 DEF SetLasting
    <2>3. ASSUME NEW s PROVE InFlight(s)' <=> InFlight(s)
      BY <2>1, <2>2, OthersInFlight, StaysInFlight
    <2>4. WrittenInv'
      BY <2>2 DEF WrittenInv, IsNext
    <2>5. <<job[h].node, f>> \notin Tracked
      BY <1>2 DEF SetLasting, Tracked
    <2> QED
      BY <1>2, <2>3, <2>4, <2>5
      DEF SetLasting, stamps, RestoredInv, NoOrphanReading
  <1>3. ASSUME NEW h \in Handlers, NEW f \in Families, SetExpiring(h, f)
        PROVE  WrittenInv' /\ RestoredInv' /\ NoOrphanReading'
    <2> DEFINE new == <<job[h].node, f>>
    <2>1. \A k \in Handlers \ {h} : job'[k] = job[k]
      BY <1>3 DEF SetExpiring
    <2>2. ~job[h].written /\ job'[h].written /\ IsNext(h, f)' /\ job'[h].node = job[h].node
      BY <1>3 DEF SetExpiring, IsNext
    <2>3. InFlight(new)'
      BY <2>2 DEF InFlight
    <2>4. ASSUME NEW s \in Series, s # new PROVE InFlight(s)' <=> InFlight(s)
      <3>1. ~(job'[h].written /\ job'[h].node = s[1] /\ IsNext(h, s[2])')
        <4> SUFFICES ASSUME job'[h].node = s[1], IsNext(h, s[2])' PROVE FALSE
          OBVIOUS
        <4>0. job'[h].todo = job[h].todo
          BY <1>3 DEF SetExpiring
        <4>1. s[2] = f
          <5>1. IsNext(h, s[2]) /\ IsNext(h, f)
            BY <1>3, <4>0 DEF SetExpiring, IsNext
          <5> QED
            BY <5>1, NextIsUnique
        <4>2. s[1] = job[h].node
          BY <2>2
        <4>3. s = <<s[1], s[2]>>
          BY DEF Series
        <4> QED
          BY <4>1, <4>2, <4>3, <2>4
      <3> QED
        BY <2>1, <2>2, <3>1, OthersInFlight, StaysInFlight
    <2>5. WrittenInv'
      BY <1>3, <2>1, <2>2 DEF WrittenInv, IsNext, SetExpiring
    <2>6. RestoredInv'
      BY <1>3, <2>4 DEF SetExpiring, stamps, RestoredInv
    <2>7. NoOrphanReading'
      BY <1>3, <2>3, <2>4, TrackedSeries DEF SetExpiring, stamps, NoOrphanReading
    <2> QED
      BY <2>5, <2>6, <2>7
  <1>4. ASSUME NEW h \in Handlers, NEW f \in Families, Stamp(h, f)
        PROVE  WrittenInv' /\ RestoredInv' /\ NoOrphanReading'
    <2> DEFINE new == <<job[h].node, f>>
    <2>1. ~job'[h].written /\ \A k \in Handlers \ {h} : job'[k] = job[k]
      BY <1>4 DEF Stamp
    <2>2. InFlight(new)
      BY <1>4 DEF Stamp, InFlight
    <2>3. ASSUME NEW s PROVE InFlight(s)' => InFlight(s)
      BY <2>1, OthersInFlight
    <2>4. ASSUME NEW s \in Series, s # new PROVE InFlight(s) => InFlight(s)'
      <3>1. ~(job[h].written /\ job[h].node = s[1] /\ IsNext(h, s[2]))
        <4> SUFFICES ASSUME job[h].node = s[1], IsNext(h, s[2]) PROVE FALSE
          OBVIOUS
        <4>1. s[2] = f
          BY <1>4, NextIsUnique DEF Stamp
        <4> QED
          BY <4>1, <2>4 DEF Series
      <3> QED
        BY <2>1, <3>1, StaysInFlight
    <2>5. new \in Tracked
      BY <1>4 DEF Stamp, Tracked
    <2>6. WrittenInv'
      BY <2>1 DEF WrittenInv, IsNext
    <2>7. RestoredInv'
      BY <1>4, <2>2, <2>3 DEF Stamp, registry, RestoredInv
    <2>8. NoOrphanReading'
      <3> SUFFICES ASSUME NEW s \in (exposed' \cap Tracked) \ restored', ~InFlight(s)'
                   PROVE  s \in stamped' /\ stampAge'[s] <= age'[s]
        BY DEF NoOrphanReading
      <3>1. CASE s = new
        BY <1>4, <2>5, <3>1, BoundType DEF Stamp, registry
      <3>2. CASE s # new
        <4>1. s \in stamped /\ stampAge[s] <= age[s]
          BY <1>4, <2>4, <3>2, TrackedSeries DEF Stamp, registry, NoOrphanReading
        <4> QED
          BY <1>4, <3>2, <4>1 DEF Stamp, registry
      <3> QED
        BY <3>1, <3>2
    <2> QED
      BY <2>6, <2>7, <2>8
  <1>5. ASSUME UNCHANGED job
        PROVE  WrittenInv' /\ \A s : InFlight(s)' <=> InFlight(s)
    BY <1>5 DEF WrittenInv, InFlight, IsNext
  <1>6. CASE StartCleanup
    BY <1>5, <1>6 DEF StartCleanup, registry, stamps, RestoredInv, NoOrphanReading
  <1>7. CASE Cleanup
    <2>1. RestoredInv'
      BY <1>5, <1>7, CleanupEffect DEF RestoredInv
    <2>2. NoOrphanReading'
      BY <1>5, <1>7, CleanupEffect DEF NoOrphanReading
    <2> QED
      BY <1>5, <1>7, <2>1, <2>2, CleanupEffect
  <1>8. CASE StopCleanup
    BY <1>5, <1>8 DEF StopCleanup, registry, stamps, RestoredInv, NoOrphanReading
  <1>9. CASE Shutdown
    BY <1>5, <1>9 DEF Shutdown, registry, stamps, RestoredInv, NoOrphanReading
  <1>10. CASE Tick
    <2>1. ASSUME NEW s \in exposed \cap stamped, s \in Tracked, stampAge[s] <= age[s]
          PROVE  stampAge'[s] <= age'[s]
      BY <1>10, <2>1, BoundType DEF Tick
    <2>2. NoOrphanReading'
      BY <1>5, <1>10, <2>1 DEF Tick, NoOrphanReading
    <2>3. RestoredInv'
      BY <1>5, <1>10 DEF Tick, RestoredInv
    <2> QED
      BY <1>5, <1>10, <2>2, <2>3 DEF Tick
  <1>11. CASE UNCHANGED vars
    BY <1>5, <1>11 DEF vars, registry, stamps, RestoredInv, NoOrphanReading
  <1> QED
    BY <1>1, <1>2, <1>3, <1>4, <1>6, <1>7, <1>8, <1>9, <1>10, <1>11 DEF Next

-----------------------------------------------------------------------------
(* Last seen comes first. *)

\* Initially no handler runs and everything exposed is restored.
LEMMA InitSeen == Init => SeenInv /\ LastSeenFirst
  <1> SUFFICES ASSUME Init PROVE SeenInv /\ LastSeenFirst
    OBVIOUS
  <1>1. \A h \in Handlers : job[h].todo = {}
    BY DEF Init
  <1> QED
    BY <1>1 DEF Init, SeenInv, LastSeenFirst

\* A step writes last seen before any other series of a node, and removes
\* tracked series only.
LEMMA NextSeen ==
  ASSUME TypeOK, SeenInv, LastSeenFirst, [Next]_vars
  PROVE  SeenInv' /\ LastSeenFirst'
  <1> USE DEF TypeOK
  <1>1. ASSUME NEW h \in Handlers, NEW n \in Nodes, NEW effects \in MessageEffects,
               Receive(h, n, effects)
        PROVE  SeenInv' /\ LastSeenFirst'
    BY <1>1, MessageEffectsType
    DEF Receive, registry, SeenInv, LastSeenFirst
  <1>2. ASSUME NEW h \in Handlers, NEW f \in Families, IsNext(h, f)
        PROVE  f = LastSeen \/ <<job[h].node, LastSeen>> \in exposed
    <2>1. f \in Int /\ f >= LastSeen /\ LastSeen \in Int
      BY FamiliesAssumption DEF LastSeen, NodeHardware
    <2>2. CASE LastSeen \in job[h].todo
      BY <1>2, <2>1, <2>2 DEF IsNext
    <2>3. CASE LastSeen \notin job[h].todo
      BY <1>2, <2>3 DEF IsNext, SeenInv
    <2> QED
      BY <2>2, <2>3
  <1>3. ASSUME NEW h \in Handlers, NEW f \in Families,
               SetLasting(h, f) \/ SetExpiring(h, f)
        PROVE  SeenInv' /\ LastSeenFirst'
    <2> DEFINE new == <<job[h].node, f>>
    <2>1. exposed' = exposed \cup {new} /\ restored' = restored \ {new}
      BY <1>3 DEF SetLasting, SetExpiring
    <2>2. f = LastSeen \/ <<job[h].node, LastSeen>> \in exposed
      BY <1>2, <1>3 DEF SetLasting, SetExpiring
    <2>3. <<job[h].node, LastSeen>> \in exposed'
      BY <2>1, <2>2
    <2>4. job'[h].node = job[h].node /\ \A k \in Handlers \ {h} : job'[k] = job[k]
      BY <1>3 DEF SetLasting, SetExpiring
    <2>5. SeenInv'
      BY <2>1, <2>3, <2>4 DEF SeenInv
    <2>6. ASSUME NEW s \in exposed' \ restored'
          PROVE  <<s[1], LastSeen>> \in exposed'
      <3>1. CASE s = new
        BY <2>3, <3>1
      <3>2. CASE s # new
        BY <2>1, <3>2 DEF LastSeenFirst
      <3> QED
        BY <3>1, <3>2
    <2> QED
      BY <2>5, <2>6 DEF LastSeenFirst
  <1>4. ASSUME NEW h \in Handlers, NEW f \in Families, Stamp(h, f)
        PROVE  SeenInv' /\ LastSeenFirst'
    <2>1. \A k \in Handlers \ {h} : job'[k] = job[k]
      BY <1>4 DEF Stamp
    <2>2. job'[h].node = job[h].node /\ job'[h].todo = job[h].todo \ {f}
      BY <1>4 DEF Stamp
    <2>3. f # LastSeen
      BY <1>4, TrackedSeries DEF Stamp
    <2> QED
      BY <1>4, <2>1, <2>2, <2>3 DEF Stamp, registry, SeenInv, LastSeenFirst
  <1>5. CASE Cleanup
    <2>1. \A n : <<n, LastSeen>> \in exposed => <<n, LastSeen>> \in exposed'
      BY <1>5, TrackedSeries, CleanupEffect DEF Tracked
    <2>2. exposed' \ restored' \subseteq exposed \ restored
      BY <1>5, CleanupEffect
    <2> QED
      BY <1>5, <2>1, <2>2, CleanupEffect DEF SeenInv, LastSeenFirst
  <1>6. ASSUME UNCHANGED <<exposed, restored, job>>
        PROVE  SeenInv' /\ LastSeenFirst'
    BY <1>6 DEF SeenInv, LastSeenFirst
  <1>7. CASE StartCleanup \/ StopCleanup \/ Shutdown \/ Tick \/ UNCHANGED vars
    BY <1>6, <1>7 DEF StartCleanup, StopCleanup, Shutdown, Tick, vars, registry
  <1> QED
    BY <1>1, <1>3, <1>4, <1>5, <1>7 DEF Next

-----------------------------------------------------------------------------
(* Readings off display. *)

\* Every step that hides a reading resets its age, and no step ages a hidden
\* one.
LEMMA NextHidden ==
  ASSUME TypeOK, HiddenInv, [Next]_vars
  PROVE  HiddenInv'
  <1> USE DEF TypeOK, HiddenInv
  <1>1. ASSUME NEW h \in Handlers, NEW f \in Families, SetExpiring(h, f)
        PROVE  HiddenInv'
    BY <1>1 DEF SetExpiring
  <1>2. ASSUME NEW h \in Handlers, NEW f \in Families, SetLasting(h, f)
        PROVE  HiddenInv'
    BY <1>2 DEF SetLasting
  <1>3. CASE Cleanup
    BY <1>3, CleanupEffect
  <1>4. CASE Tick
    BY <1>4 DEF Tick
  <1>5. ASSUME UNCHANGED <<exposed, age>>
        PROVE  HiddenInv'
    BY <1>5
  <1> QED
    BY <1>1, <1>2, <1>3, <1>4, <1>5
    DEF Next, Receive, Stamp, StartCleanup, StopCleanup, Shutdown, vars, registry

-----------------------------------------------------------------------------
(* The invariant and what follows from it. *)

\* The inductive invariant holds in every reachable state.
THEOREM Invariance == Spec => []IInv
  <1>1. Init => IInv
    <2>1. Init => HiddenInv
      BY DEF Init, HiddenInv
    <2> QED
      BY <2>1, InitTypeOK, InitTimers, InitReadings, InitSeen DEF IInv
  <1>2. IInv /\ [Next]_vars => IInv'
    BY NextTypeOK, NextTimers, NextReadings, NextSeen, NextHidden DEF IInv
  <1> QED
    BY <1>1, <1>2, PTL DEF Spec

\* No timestamp outlives TTL, cleanup interval and lag together while the
\* cleanup goroutine lives.
THEOREM StampsExpire == Spec => []StampsExpireInTime
  <1>1. IInv => StampsExpireInTime
    <2> SUFFICES ASSUME IInv, cleaner # "exited", NEW s \in stamped
                 PROVE  stampAge[s] <= Bound
      BY DEF StampsExpireInTime
    <2>1. stampAge[s] \in Int /\ wait \in Int /\ -Lag <= wait
      BY BoundType, IntervalType DEF IInv, TypeOK
    <2>2. CASE cleaner = "starting"
      BY <2>1, <2>2, BoundType, TTLType, IntervalType DEF IInv, TimersInv, Bound
    <2>3. CASE cleaner = "running"
      BY <2>1, <2>3, BoundType, TTLType, IntervalType DEF IInv, TimersInv, Bound
    <2> QED
      BY <2>2, <2>3 DEF IInv, TypeOK
  <1> QED
    BY <1>1, Invariance, PTL

\* Every received reading is stamped at least as late as it was written, or
\* its write is in flight.
THEOREM NoOrphans == Spec => []NoOrphanReading
  <1>1. IInv => NoOrphanReading
    BY DEF IInv
  <1> QED
    BY <1>1, Invariance, PTL

\* Last seen is exposed for every node with a received series.
THEOREM SeenFirst == Spec => []LastSeenFirst
  <1>1. IInv => LastSeenFirst
    BY DEF IInv
  <1> QED
    BY <1>1, Invariance, PTL

\* A reading disappears only past its TTL or while it is being written.
THEOREM StaleOnly == Spec => OnlyStaleReadingsRemoved
  <1> DEFINE Allowed == \A s \in Tracked : s \in exposed \ exposed' => age[s] > TTL \/ InFlight(s)
  <1>1. IInv /\ [Next]_vars => [Allowed]_vars
    <2> SUFFICES ASSUME IInv, Next, NEW s \in Tracked, s \in exposed \ exposed', ~InFlight(s)
                 PROVE  age[s] > TTL
      OBVIOUS
    <2>1. Cleanup
      BY DEF Next, Receive, SetLasting, SetExpiring, Stamp, StartCleanup,
             StopCleanup, Shutdown, Tick, registry
    <2>2. s \in stamped /\ stampAge[s] > TTL
      BY <2>1, CleanupEffect DEF IInv
    <2>3. s \notin restored
      BY <2>2 DEF IInv, RestoredInv
    <2>4. stampAge[s] <= age[s]
      BY <2>3 DEF IInv, NoOrphanReading
    <2>5. stampAge[s] \in Int /\ age[s] \in Int
      BY BoundType DEF IInv, TypeOK
    <2> QED
      BY <2>2, <2>4, <2>5, TTLType
  <1> QED
    BY <1>1, Invariance, PTL DEF Spec, OnlyStaleReadingsRemoved

\* What LoadState restored is never removed.
THEOREM RestoredStay == Spec => RestoredReadingsStay
  <1>1. IInv /\ [Next]_vars => [restored \subseteq exposed']_vars
    <2> SUFFICES ASSUME IInv, Next PROVE restored \subseteq exposed'
      OBVIOUS
    <2>1. restored \subseteq exposed
      BY DEF IInv, TypeOK
    <2>2. CASE Cleanup
      BY <2>1, <2>2, CleanupEffect DEF IInv, RestoredInv
    <2>3. CASE ~Cleanup
      BY <2>1, <2>3 DEF Next, Receive, SetLasting, SetExpiring, Stamp, StartCleanup,
                        StopCleanup, Shutdown, Tick, registry
    <2> QED
      BY <2>2, <2>3
  <1> QED
    BY <1>1, Invariance, PTL DEF Spec, RestoredReadingsStay

-----------------------------------------------------------------------------
(* Refinement: the writers of a reading. *)

\* Only the handlers that have written a reading count as its writers.
LEMMA WritersInFlight ==
  ASSUME NEW s
  PROVE  InFlight(s) <=> WritersOf(s) # {}
  BY DEF InFlight, WritersOf

\* A handler's writers' sets change with its own job only.
LEMMA OtherWriters ==
  ASSUME NEW h \in Handlers,
         \A k \in Handlers \ {h} : job'[k] = job[k],
         NEW s
  PROVE  \A k \in Handlers \ {h} : k \in WritersOf(s)' <=> k \in WritersOf(s)
  BY DEF WritersOf, IsNext

\* A handler that is not between a Set and its stamp, before and after a step,
\* changes no set of writers.
LEMMA IdleWriter ==
  ASSUME NEW h \in Handlers,
         \A k \in Handlers \ {h} : job'[k] = job[k],
         NEW s,
         h \notin WritersOf(s),
         h \notin WritersOf(s)'
  PROVE  WritersOf(s)' = WritersOf(s)
  <1>1. WritersOf(s) \subseteq Handlers /\ WritersOf(s)' \subseteq Handlers
    BY DEF WritersOf
  <1> QED
    BY <1>1, OtherWriters

\* A step that leaves readings, timestamps and writers alone maps to a stutter.
LEMMA Stutter ==
  ASSUME exposed' \cap Tracked = exposed \cap Tracked,
         restored' \cap Tracked = restored \cap Tracked,
         UNCHANGED <<age, stampAge>>,
         \A s \in Tracked : WritersOf(s)' = WritersOf(s),
         (cleaner' # "exited") <=> (cleaner # "exited")
  PROVE  UNCHANGED Lifetime!vars
  <1>1. \A s \in Tracked : IdleSince(s)' = IdleSince(s)
    BY DEF IdleSince
  <1> QED
    BY <1>1 DEF Lifetime!vars
-----------------------------------------------------------------------------
(* Initial states. *)

\* Restored readings are displayed, kept, idle and written by nobody.
LEMMA InitLifetime == Init => Lifetime!Init
  <1> SUFFICES ASSUME Init PROVE Lifetime!Init
    OBVIOUS
  <1>1. ASSUME NEW s \in Tracked PROVE WritersOf(s) = {} /\ IdleSince(s) = 0
    BY DEF Init, WritersOf, IdleSince
  <1> QED
    BY <1>1 DEF Init, Lifetime!Init

-----------------------------------------------------------------------------
(* Steps of a handler. *)

\* Accepting a message is invisible.
LEMMA ReceiveLifetime ==
  ASSUME IInv, NEW h \in Handlers, NEW n \in Nodes, NEW effects \in MessageEffects,
         Receive(h, n, effects)
  PROVE  UNCHANGED Lifetime!vars
  <1>1. \A k \in Handlers \ {h} : job'[k] = job[k]
    BY DEF Receive, IInv, TypeOK
  <1>2. ASSUME NEW s PROVE h \notin WritersOf(s) /\ h \notin WritersOf(s)'
    BY DEF Receive, IInv, TypeOK, WritersOf, IsNext
  <1>3. \A s \in Tracked : WritersOf(s)' = WritersOf(s)
    BY <1>1, <1>2, IdleWriter
  <1> QED
    BY <1>3, Stutter DEF Receive, registry, stamps, goroutine

\* So is the write of a family that does not expire.
LEMMA SetLastingLifetime ==
  ASSUME IInv, NEW h \in Handlers, NEW f \in Families, SetLasting(h, f)
  PROVE  UNCHANGED Lifetime!vars
  <1> USE DEF IInv, TypeOK
  <1>1. \A k \in Handlers \ {h} : job'[k] = job[k]
    BY DEF SetLasting
  <1>2. ~job[h].written
    BY NextIsUnique DEF SetLasting, WrittenInv
  <1>3. ASSUME NEW s PROVE h \notin WritersOf(s) /\ h \notin WritersOf(s)'
    BY <1>2 DEF SetLasting, WritersOf
  <1>4. \A s \in Tracked : WritersOf(s)' = WritersOf(s)
    BY <1>1, <1>3, IdleWriter
  <1>5. <<job[h].node, f>> \notin Tracked
    BY DEF SetLasting, Tracked
  <1> QED
    BY <1>4, <1>5, Stutter DEF SetLasting, stamps, goroutine

\* The Set of a reading begins its write.
LEMMA SetExpiringLifetime ==
  ASSUME IInv, NEW h \in Handlers, NEW f \in Families, SetExpiring(h, f),
         NEW new, new = <<job[h].node, f>>
  PROVE  Lifetime!BeginWrite(h, new)
  <1> USE DEF IInv, TypeOK
  <1>1. new \in Tracked
    BY DEF SetExpiring, Tracked
  <1>2. \A k \in Handlers \ {h} : job'[k] = job[k]
    BY DEF SetExpiring
  <1>3. ASSUME NEW s PROVE h \notin WritersOf(s)
    BY DEF SetExpiring, WritersOf
  <1>4. WritersOf(new)' = WritersOf(new) \cup {h}
    <2>1. h \in WritersOf(new)'
      BY DEF SetExpiring, WritersOf, IsNext
    <2>2. WritersOf(new) \subseteq Handlers /\ WritersOf(new)' \subseteq Handlers
      BY DEF WritersOf
    <2> QED
      BY <1>2, <2>1, <2>2, OtherWriters
  <1>5. ASSUME NEW s \in Tracked, s # new PROVE WritersOf(s)' = WritersOf(s)
    <2>1. h \notin WritersOf(s)'
      <3> SUFFICES ASSUME job'[h].node = s[1], IsNext(h, s[2])' PROVE FALSE
        BY DEF WritersOf
      <3>1. IsNext(h, s[2]) /\ IsNext(h, f) /\ job[h].node = s[1]
        BY DEF SetExpiring, IsNext
      <3>2. s[2] = f
        BY <3>1, NextIsUnique
      <3> QED
        BY <1>5, <3>1, <3>2 DEF Tracked
    <2> QED
      BY <1>2, <1>3, <2>1, IdleWriter
  <1>6. IdleSince(new)' = 0 /\ \A s \in Tracked : s # new => IdleSince(s)' = IdleSince(s)
    BY <1>4, <1>5 DEF IdleSince, SetExpiring, stamps
  <1>7. UNCHANGED (cleaner # "exited")
    BY DEF SetExpiring, goroutine
  <1> QED
    BY <1>1, <1>3, <1>4, <1>5, <1>6, <1>7 DEF SetExpiring, Lifetime!BeginWrite

\* Its stamp ends the write.
LEMMA StampLifetime ==
  ASSUME IInv, NEW h \in Handlers, NEW f \in Families, Stamp(h, f),
         NEW new, new = <<job[h].node, f>>
  PROVE  Lifetime!EndWrite(h, new)
  <1> USE DEF IInv, TypeOK
  <1>1. new \in Tracked
    BY DEF Stamp, Tracked
  <1>2. \A k \in Handlers \ {h} : job'[k] = job[k]
    BY DEF Stamp
  <1>3. ASSUME NEW s PROVE h \notin WritersOf(s)'
    BY DEF Stamp, WritersOf
  <1>4. h \in WritersOf(new) /\ WritersOf(new)' = WritersOf(new) \ {h}
    <2>1. h \in WritersOf(new)
      BY DEF Stamp, WritersOf
    <2>2. WritersOf(new) \subseteq Handlers /\ WritersOf(new)' \subseteq Handlers
      BY DEF WritersOf
    <2> QED
      BY <1>2, <1>3, <2>1, <2>2, OtherWriters
  <1>5. ASSUME NEW s \in Tracked, s # new PROVE WritersOf(s)' = WritersOf(s)
    <2>1. h \notin WritersOf(s)
      <3> SUFFICES ASSUME job[h].node = s[1], IsNext(h, s[2]) PROVE FALSE
        BY DEF WritersOf
      <3>1. s[2] = f
        BY NextIsUnique DEF Stamp
      <3> QED
        BY <1>5, <3>1 DEF Tracked
    <2> QED
      BY <1>2, <1>3, <2>1, IdleWriter
  <1>6. IdleSince(new)' = 0 /\ \A s \in Tracked : s # new => IdleSince(s)' = IdleSince(s)
    BY <1>1, <1>5 DEF IdleSince, Stamp, registry
  <1>7. UNCHANGED (cleaner # "exited")
    BY DEF Stamp, goroutine
  <1> QED
    BY <1>1, <1>4, <1>5, <1>6, <1>7 DEF Stamp, registry, Lifetime!EndWrite

-----------------------------------------------------------------------------
(* Steps of the cleanup goroutine and of time. *)

\* Steps that leave every job alone leave the writers alone.
LEMMA SameWriters ==
  ASSUME UNCHANGED job
  PROVE  \A s : WritersOf(s)' = WritersOf(s)
  BY DEF WritersOf, IsNext

\* A received reading that nobody writes has a timestamp, no older than its
\* value.
LEMMA SettledIsStamped ==
  ASSUME IInv, NEW s \in Tracked, s \in exposed \ restored, WritersOf(s) = {}
  PROVE  s \in stamped /\ stampAge[s] <= age[s]
  BY WritersInFlight DEF IInv, NoOrphanReading

\* A cleanup removes the expired readings that are on display.
LEMMA CleanupLifetime ==
  ASSUME IInv, Cleanup
  PROVE  Lifetime!Remove(Expired \cap exposed)
  <1> DEFINE gone == Expired \cap exposed
  <1> USE DEF IInv, TypeOK
  <1>1. gone \subseteq (exposed \cap Tracked) \ (restored \cap Tracked)
    BY CleanupEffect DEF RestoredInv
  <1>2. ASSUME NEW s \in gone PROVE age[s] > TTL \/ WritersOf(s) # {}
    <2> SUFFICES ASSUME WritersOf(s) = {} PROVE age[s] > TTL
      OBVIOUS
    <2>1. stampAge[s] > TTL /\ stampAge[s] <= age[s]
      BY <1>1, CleanupEffect, SettledIsStamped
    <2>2. stampAge[s] \in Int /\ age[s] \in Int
      BY <1>1, BoundType
    <2> QED
      BY <2>1, <2>2, TTLType
  <1>3. age' = [s \in Tracked |-> IF s \in gone THEN 0 ELSE age[s]]
    BY CleanupEffect DEF HiddenInv
  <1>4. ASSUME NEW s \in Tracked
        PROVE  /\ WritersOf(s)' = WritersOf(s)
               /\ IdleSince(s)' = IF s \in gone THEN 0 ELSE IdleSince(s)
    <2>1. WritersOf(s)' = WritersOf(s)
      BY CleanupEffect, SameWriters
    <2> QED
      BY <2>1, CleanupEffect DEF IdleSince
  <1>5. exposed' \cap Tracked = (exposed \cap Tracked) \ gone
    BY CleanupEffect
  <1>6. restored' = restored
    BY CleanupEffect DEF RestoredInv
  <1>7. cleaner # "exited" /\ cleaner' = cleaner
    BY CleanupEffect
  <1> QED
    BY <1>1, <1>2, <1>3, <1>4, <1>5, <1>6, <1>7 DEF Lifetime!Remove

\* A tick ages what is on display, and passes no deadline.
LEMMA TickLifetime ==
  ASSUME IInv, Tick
  PROVE  Lifetime!Tick
  <1> USE DEF IInv, TypeOK
  <1>1. ASSUME NEW s \in Tracked PROVE WritersOf(s)' = WritersOf(s)
    BY SameWriters DEF Tick
  <1>2. ASSUME NEW s \in Lifetime!Settled
        PROVE  /\ s \in Tracked /\ s \in stamped /\ s \in exposed
               /\ WritersOf(s) = {}
               /\ IdleSince(s) = stampAge[s]
               /\ stampAge[s] \in Int
    <2>1. s \in Tracked /\ s \in exposed \ restored /\ WritersOf(s) = {}
      BY DEF Lifetime!Settled
    <2> QED
      BY <2>1, SettledIsStamped, BoundType DEF IdleSince
  <1>3. ASSUME cleaner # "exited", NEW s \in Lifetime!Settled
        PROVE  IdleSince(s) < Bound
    <2>1. wait > -Lag /\ wait \in Int
      BY <1>3, BoundType, IntervalType DEF Tick
    <2>2. CASE cleaner = "starting"
      BY <1>2, <2>1, <2>2, TTLType, IntervalType, BoundType DEF TimersInv, Bound
    <2>3. CASE cleaner = "running"
      BY <1>2, <2>1, <2>3, TTLType, IntervalType, BoundType DEF TimersInv, Bound
    <2> QED
      BY <1>3, <2>2, <2>3
  <1>4. Lifetime!Deadline = Bound
    BY TTLType, IntervalType, BoundType DEF Lifetime!Deadline, Bound
  <1>5. ASSUME NEW a \in 0 .. AgeCap
        PROVE  Lifetime!Older(a) = IF a < AgeCap THEN a + 1 ELSE a
    BY <1>4, BoundType DEF Lifetime!Older
  <1>6. age' = [s \in Tracked |-> IF s \in exposed \cap Tracked THEN Lifetime!Older(age[s]) ELSE age[s]]
    BY <1>5 DEF Tick
  <1>7. ASSUME NEW s \in Tracked
        PROVE  IdleSince(s)' = IF s \in Lifetime!Settled THEN Lifetime!Older(IdleSince(s))
                                                         ELSE IdleSince(s)
    <2>1. CASE s \in Lifetime!Settled
      BY <1>1, <1>2, <1>5, <2>1 DEF Tick, IdleSince
    <2>2. CASE s \notin Lifetime!Settled
      <3>1. s \notin exposed \/ WritersOf(s) # {} \/ s \notin stamped
        BY <2>2 DEF Lifetime!Settled, RestoredInv
      <3> QED
        BY <1>1, <2>2, <3>1 DEF Tick, IdleSince
    <2> QED
      BY <2>1, <2>2
  <1> QED
    <2>1. cleaner # "exited" =>
            \A s \in Lifetime!Settled : [r \in Tracked |-> IdleSince(r)][s] < Lifetime!Deadline
      BY <1>2, <1>3, <1>4
    <2>2. [s \in Tracked |-> IdleSince(s)]' =
            [s \in Tracked |-> IF s \in Lifetime!Settled THEN Lifetime!Older(IdleSince(s))
                                                         ELSE IdleSince(s)]
      BY <1>7
    <2>3. [s \in Tracked |-> WritersOf(s)]' = [s \in Tracked |-> WritersOf(s)]
      BY <1>1
    <2> QED
      BY <1>6, <2>1, <2>2, <2>3 DEF Tick, Lifetime!Tick

\* StartCleanup and Shutdown are invisible; the goroutine's end is the end of
\* expiry.
LEMMA GoroutineLifetime ==
  /\ StartCleanup \/ Shutdown => UNCHANGED Lifetime!vars
  /\ StopCleanup => Lifetime!StopExpiring
  <1>1. ASSUME StartCleanup \/ Shutdown PROVE UNCHANGED Lifetime!vars
    <2>1. \A s \in Tracked : WritersOf(s)' = WritersOf(s)
      BY <1>1, SameWriters DEF StartCleanup, Shutdown
    <2> QED
      BY <1>1, <2>1, Stutter DEF StartCleanup, Shutdown, registry, stamps
  <1>2. ASSUME StopCleanup PROVE Lifetime!StopExpiring
    <2>1. \A s \in Tracked : WritersOf(s)' = WritersOf(s)
      BY <1>2, SameWriters DEF StopCleanup
    <2>2. \A s \in Tracked : IdleSince(s)' = IdleSince(s)
      BY <1>2, <2>1 DEF StopCleanup, IdleSince, registry, stamps
    <2> QED
      BY <1>2, <2>1, <2>2 DEF StopCleanup, registry, stamps, Lifetime!StopExpiring
  <1> QED
    BY <1>1, <1>2

-----------------------------------------------------------------------------
(* The refinement. *)

\* The step simulation.
LEMMA NextLifetime == IInv /\ [Next]_vars => [Lifetime!Next]_(Lifetime!vars)
  <1> SUFFICES ASSUME IInv, [Next]_vars PROVE [Lifetime!Next]_(Lifetime!vars)
    OBVIOUS
  <1>1. ASSUME NEW h \in Handlers, NEW n \in Nodes, NEW effects \in MessageEffects,
               Receive(h, n, effects)
        PROVE  UNCHANGED Lifetime!vars
    BY <1>1, ReceiveLifetime
  <1>2. ASSUME NEW h \in Handlers, NEW f \in Families, SetLasting(h, f)
        PROVE  UNCHANGED Lifetime!vars
    BY <1>2, SetLastingLifetime
  <1>3. ASSUME NEW h \in Handlers, NEW f \in Families, SetExpiring(h, f)
        PROVE  Lifetime!Next
    <2>1. <<job[h].node, f>> \in Tracked
      BY <1>3 DEF SetExpiring, Tracked, IInv, TypeOK
    <2>2. Lifetime!BeginWrite(h, <<job[h].node, f>>)
      BY <1>3, SetExpiringLifetime
    <2> QED
      BY <2>1, <2>2 DEF Lifetime!Next
  <1>4. ASSUME NEW h \in Handlers, NEW f \in Families, Stamp(h, f)
        PROVE  Lifetime!Next
    <2>1. <<job[h].node, f>> \in Tracked
      BY <1>4 DEF Stamp, Tracked, IInv, TypeOK
    <2>2. Lifetime!EndWrite(h, <<job[h].node, f>>)
      BY <1>4, StampLifetime
    <2> QED
      BY <2>1, <2>2 DEF Lifetime!Next
  <1>5. CASE StartCleanup \/ Shutdown
    BY <1>5, GoroutineLifetime
  <1>6. CASE Cleanup
    <2>1. Expired \cap exposed \subseteq Tracked
      BY <1>6, CleanupEffect DEF IInv
    <2> QED
      BY <1>6, <2>1, CleanupLifetime DEF Lifetime!Next
  <1>7. CASE StopCleanup
    BY <1>7, GoroutineLifetime DEF Lifetime!Next
  <1>8. CASE Tick
    BY <1>8, TickLifetime DEF Lifetime!Next
  <1>9. CASE UNCHANGED vars
    <2>1. \A s \in Tracked : WritersOf(s)' = WritersOf(s)
      BY <1>9, SameWriters DEF vars
    <2> QED
      BY <1>9, <2>1, Stutter DEF vars, registry, stamps, goroutine
  <1> QED
    BY <1>1, <1>2, <1>3, <1>4, <1>5, <1>6, <1>7, <1>8, <1>9 DEF Next

\* The collector's handlers, stamps and cleanup goroutine keep the promise of
\* ReadingLifetime.
THEOREM Refinement == Spec => ImplementsLifetime
  BY InitLifetime, NextLifetime, Invariance, PTL
  DEF Spec, ImplementsLifetime, Lifetime!Spec
-----------------------------------------------------------------------------
(* Shutdown ends the cleanup goroutine. *)

\* What the proof takes from fairness, since it cannot look into ENABLED: a
\* process whose guard holds for ever takes its step again and again.  As the
\* guard below enables its step, it follows from weak fairness of the step.
Runs(guard, step) == []<>~guard \/ []<><<step>>_vars

\* The cleanup goroutine is not kept from seeing that its context is done.
SelectRuns == Runs(cleaner = "running" /\ cancelled, StopCleanup)

\* cleanupCancel is taken away only together with the context's end: a running
\* goroutine without it has been told to end.
ToldToEnd == cleaner = "running" /\ ~cancelSet => cancelled

\* Shutdown is the only one that takes it away.
LEMMA NextToldToEnd == ToldToEnd /\ [Next]_vars => ToldToEnd'
  BY DEF ToldToEnd, Next, vars, registry, stamps, goroutine, Receive, SetLasting, SetExpiring,
     Stamp, StartCleanup, Cleanup, StopCleanup, Shutdown, Tick

\* The goroutine that has been told to end runs on until it does.
LEMMA RunsUntilEnd ==
  ASSUME [Next]_vars, cleaner = "running", ~cancelSet
  PROVE  cleaner' \in {"running", "exited"} /\ ~cancelSet'
  <1> USE DEF vars, registry, stamps, goroutine
  <1>1. CASE StopCleanup
    BY <1>1 DEF StopCleanup
  <1>2. CASE ~StopCleanup
    <2>1. cleaner' = cleaner /\ cancelSet' = cancelSet
      BY <1>2 DEF Next, Receive, SetLasting, SetExpiring, Stamp, StartCleanup, Cleanup, Shutdown, Tick
    <2> QED
      BY <2>1
  <1> QED
    BY <1>1, <1>2

\* Once Shutdown has taken cleanupCancel away, the goroutine ends, whatever
\* handlers and ticker do meanwhile.
THEOREM CleanupEnds == Spec /\ SelectRuns => ShutdownEndsCleanup
  <1>1. Init => ToldToEnd
    BY DEF Init, ToldToEnd
  <1>2. ToldToEnd /\ cleaner = "running" /\ ~cancelSet => cleaner = "running" /\ cancelled
    BY DEF ToldToEnd
  <1>3. [Next]_vars /\ cleaner = "running" /\ ~cancelSet =>
          (cleaner = "running" /\ ~cancelSet)' \/ (cleaner = "exited")'
    BY RunsUntilEnd
  <1>4. <<StopCleanup>>_vars => (cleaner = "exited")'
    BY DEF StopCleanup
  <1> QED
    BY <1>1, <1>2, <1>3, <1>4, NextToldToEnd, PTL
    DEF Spec, SelectRuns, Runs, ShutdownEndsCleanup
-----------------------------------------------------------------------------
(* What has expired is removed. *)

\* The cleanup goroutine starts, and runs when its ticker has fired.
CleanerRuns ==
  /\ Runs(cleaner = "starting", StartCleanup)
  /\ Runs(cleaner = "running" /\ wait <= 0, Cleanup)

\* What fairness of Tick gives: the ticker fires, as each tick brings it nearer.
TickerFires == []<>(cleaner # "running" \/ wait <= 0)

\* The goroutine ends only when its context does.
ExitsWhenTold == cleaner = "exited" => cancelled

\* No step makes it end otherwise.
LEMMA NextExitsWhenTold == ExitsWhenTold /\ [Next]_vars => ExitsWhenTold'
  BY DEF ExitsWhenTold, Next, vars, registry, stamps, goroutine, Receive, SetLasting, SetExpiring,
     Stamp, StartCleanup, Cleanup, StopCleanup, Shutdown, Tick

\* An entry that is too old stays so until it is renewed or removed.
LEMMA ExpiredStays ==
  ASSUME TypeOK, [Next]_vars, NEW s \in Tracked, s \in Expired, ~Cleanup
  PROVE  s \in Expired' \/ (s \in stamped' /\ stampAge'[s] = 0)
  <1>1. s \in stamped /\ stampAge[s] \in Nat /\ stampAge[s] > TTL /\ TTL \in Nat /\ AgeCap \in Nat
    BY TTLType, BoundType DEF Expired, TypeOK
  <1>2. CASE \E h \in Handlers, f \in Families : Stamp(h, f)
    <2>1. PICK h \in Handlers, f \in Families : Stamp(h, f)
      BY <1>2
    <2>2. /\ stamped' = stamped \cup {<<job[h].node, f>>}
          /\ stampAge' = [stampAge EXCEPT ![<<job[h].node, f>>] = 0]
      BY <2>1 DEF Stamp
    <2>3. s \in stamped' /\ stampAge'[s] \in {0, stampAge[s]}
      BY <1>1, <2>2 DEF TypeOK
    <2> QED
      BY <1>1, <2>3 DEF Expired
  <1>3. CASE Tick
    <2>1. stamped' = stamped /\ stampAge'[s] \in {stampAge[s], stampAge[s] + 1}
      BY <1>3 DEF Tick
    <2> QED
      BY <1>1, <2>1 DEF Expired
  <1>4. CASE UNCHANGED stamps
    BY <1>1, <1>4 DEF Expired, stamps
  <1> QED
    BY <1>2, <1>3, <1>4
    DEF Next, vars, Receive, SetLasting, SetExpiring, StartCleanup, StopCleanup, Shutdown

\* A ticker that has fired stays so until the cleanup.
LEMMA FiredStays ==
  ASSUME TypeOK, [Next]_vars, cleaner = "running", wait <= 0, ~Cleanup
  PROVE  (cleaner' = "running" /\ wait' <= 0) \/ cleaner' = "exited"
  <1>1. wait \in Int
    BY DEF TypeOK
  <1>2. CASE Tick
    BY <1>1, <1>2 DEF Tick
  <1>3. CASE ~Tick
    BY <1>3 DEF Next, vars, registry, stamps, goroutine, Receive, SetLasting, SetExpiring,
       Stamp, StartCleanup, StopCleanup, Shutdown
  <1> QED
    BY <1>2, <1>3

\* An entry that is too old no more has been renewed, or its reading has left
\* the registry with it.
THEOREM ExpiredLeave ==
  Spec => [][\A s \in Tracked :
               s \in Expired /\ s \notin Expired' =>
                 \/ s \in stamped' /\ stampAge'[s] = 0
                 \/ s \notin stamped' /\ s \notin exposed']_vars
  <1>1. TypeOK /\ [Next]_vars =>
          [\A s \in Tracked :
             s \in Expired /\ s \notin Expired' =>
               \/ s \in stamped' /\ stampAge'[s] = 0
               \/ s \notin stamped' /\ s \notin exposed']_vars
    <2> SUFFICES ASSUME TypeOK, Next, NEW s \in Tracked, s \in Expired, s \notin Expired'
                 PROVE  \/ s \in stamped' /\ stampAge'[s] = 0
                        \/ s \notin stamped' /\ s \notin exposed'
      OBVIOUS
    <2>1. CASE Cleanup
      BY <2>1, CleanupEffect
    <2>2. CASE ~Cleanup
      BY <2>2, ExpiredStays
    <2> QED
      BY <2>1, <2>2
  <1> QED
    BY <1>1, TypeCorrect, PTL DEF Spec

\* So it happens to every entry that is too old, however late the goroutine
\* starts and its ticker fires, unless the collector is shut down.
THEOREM ExpiredAreRemoved ==
  ASSUME NEW s \in Tracked
  PROVE  Spec /\ CleanerRuns /\ TickerFires =>
           (s \in Expired ~> (s \notin Expired \/ cancelled))
  <1> DEFINE Old      == s \in Expired
             Running  == cleaner = "running"
             Starting == cleaner = "starting"
             Fired    == wait <= 0
  <1>1. Init => ExitsWhenTold
    BY DEF Init, ExitsWhenTold
  <1>2. TypeOK /\ ExitsWhenTold => Running \/ Starting \/ cancelled
    BY DEF TypeOK, ExitsWhenTold
  <1>3. /\ <<StartCleanup>>_vars => ~Starting'
        /\ [Next]_vars /\ Running => ~Starting'
        /\ Running => ~Starting
    BY DEF StartCleanup, Next, vars, registry, stamps, goroutine, Receive, SetLasting, SetExpiring,
       Stamp, Cleanup, StopCleanup, Shutdown, Tick
  <1>4. TypeOK /\ [Next]_vars /\ Running /\ Fired => Fired' \/ ~Running' \/ <<Cleanup>>_vars
    <2> SUFFICES ASSUME TypeOK, [Next]_vars, Running, Fired, Running' PROVE Fired' \/ <<Cleanup>>_vars
      OBVIOUS
    <2>1. CASE Cleanup
      <3>1. wait' = wait + Interval /\ wait \in Int /\ Interval \in Nat \ {0}
        BY <2>1, IntervalType DEF Cleanup, TypeOK
      <3>2. wait' # wait
        BY <3>1
      <3> QED
        BY <2>1, <3>2 DEF vars, goroutine
    <2>2. CASE ~Cleanup
      BY <2>2, FiredStays
    <2> QED
      BY <2>1, <2>2
  <1>5. TypeOK /\ <<Cleanup>>_vars => ~Old'
    <2> SUFFICES ASSUME TypeOK, Cleanup PROVE s \notin Expired'
      OBVIOUS
    <2>1. s \in stamped' => s \in stamped /\ ~(stampAge[s] > TTL) /\ stampAge'[s] = stampAge[s]
      BY CleanupEffect
    <2>2. TTL' = TTL
      OBVIOUS
    <2> QED
      BY <2>1, <2>2 DEF Expired
  <1>6. Old <=> ~(s \notin Expired)
    OBVIOUS
  <1>7. cleaner # "running" <=> ~Running
    OBVIOUS
  <1>8. Spec /\ CleanerRuns /\ TickerFires => (Old ~> (~Old \/ cancelled))
    <2> HIDE DEF Old
    <2> QED
      BY <1>1, <1>2, <1>3, <1>4, <1>5, <1>7, NextExitsWhenTold, TypeCorrect, PTL
      DEF Spec, CleanerRuns, TickerFires, Runs
  <1> QED
    BY <1>6, <1>8, PTL
=============================================================================
