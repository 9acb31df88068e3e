\* Processes that are killed.
SPECIFICATION Spec
CONSTANTS
  Series <- AllSeries
  Saved <- SavedSeries
  Touched <- TouchedSeries
  Writers <- BothWriters
  MaxMessages = 2
  MaxStarts = 3
  Reinit = FALSE
PROPERTIES RestartRestores
CHECK_DEADLOCK FALSE
