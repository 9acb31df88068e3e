\* Three processes, two messages, hooks initialised again beside a former saver that
\* may still be at work; the bounds end the run.
SPECIFICATION FairSpec
CONSTANTS
  Series <- TwoSeries
  Saved <- LastSeen
  Touched <- TouchedSeries
  Writers <- AllWriters
  MaxMessages = 2
  MaxStarts = 3
  Reinit = TRUE
INVARIANTS CleanStopSavesAll SavedStateSurvives
PROPERTIES NoRollback StopCompletes FileCatchesUp ImplementsStore
CHECK_DEADLOCK FALSE
