------------------------- MODULE CollectorRefinement -------------------------
(* Collector implements ReadingLifetime. *)
EXTENDS Collector

\* The handlers that have written the gauge of s and not yet stamped it.
WritersOf(s) ==
  {h \in Handlers : job[h].written /\ job[h].node = s[1] /\ IsNext(h, s[2])}

\* A reading nobody writes has been idle since its timestamp.
IdleSince(s) ==
  IF s \in exposed /\ WritersOf(s) = {} THEN stampAge[s] ELSE 0

Lifetime == INSTANCE ReadingLifetime WITH
  Readings <- Tracked,
  Writers  <- Handlers,
  TTL      <- TTL,
  Grace    <- Interval + Lag,
  shown    <- exposed \cap Tracked,
  kept     <- restored \cap Tracked,
  writing  <- [s \in Tracked |-> WritersOf(s)],
  age      <- age,
  idle     <- [s \in Tracked |-> IdleSince(s)],
  expiring <- cleaner # "exited"

\* The collector's handlers, stamps and cleanup goroutine, whatever their
\* interleaving, keep the promise of ReadingLifetime.
ImplementsLifetime == Lifetime!Spec
=============================================================================
