\* A message that arrives during Shutdown.
SPECIFICATION Spec
CONSTANTS
  Series <- AllSeries
  Saved <- SavedSeries
  Touched <- TouchedSeries
  Writers <- OneWriter
  MaxMessages = 2
  MaxStarts = 1
  t1 = t1
  t2 = t2
  Topics = {t1, t2}
INVARIANTS StopSavesLatest
CHECK_DEADLOCK FALSE
