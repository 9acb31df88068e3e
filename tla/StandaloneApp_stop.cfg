\* Two processes, three messages; the bounds end the run.
SPECIFICATION FairSpec
CONSTANTS
  Series <- AllSeries
  Saved <- SavedSeries
  Touched <- TouchedSeries
  Writers <- OneWriter
  MaxMessages = 3
  MaxStarts = 2
  t1 = t1
  t2 = t2
  Topics = {t1, t2}
INVARIANTS SavedUpToSignal
PROPERTIES ShutdownCompletes EveryTopicSubscribed ImplementsStore
CHECK_DEADLOCK FALSE
