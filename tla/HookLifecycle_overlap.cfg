\* One process: periodic and final save.
SPECIFICATION Spec
CONSTANTS
  Series <- AllSeries
  Saved <- SavedSeries
  Touched <- TouchedSeries
  Writers <- BothWriters
  MaxMessages = 2
  MaxStarts = 1
  Reinit = FALSE
INVARIANTS StopSavesLatest
CHECK_DEADLOCK FALSE
