\* One node, two handlers: they race each other and a cleanup that may be late.
\* The TTL is not configured, and the default takes its place.  No symmetry,
\* because of the liveness properties.
SPECIFICATION FairSpec
CONSTANTS
  n1 = n1
  h1 = h1
  h2 = h2
  Nodes = {n1}
  Handlers = {h1, h2}
  Families <- OneReading
  ConfiguredTTL = 0
  DefaultTTL = 4
  MinInterval = 1
  MaxInterval = 3
  Lag = 1
INVARIANTS TypeOK StampsExpireInTime NoOrphanReading LastSeenFirst
PROPERTIES OnlyStaleReadingsRemoved RestoredReadingsStay StaleReadingsDisappear ShutdownEndsCleanup ImplementsLifetime
