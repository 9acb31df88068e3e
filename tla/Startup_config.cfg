\* Two changes of the file, before and between the starts of both programs; the
\* last changes end nothing: a program can always be started again.
SPECIFICATION FairSpec
CONSTANTS
  Absent = Absent
  Empty = Empty
  Missing = Missing
  Corrupt = Corrupt
  NotLoaded = NotLoaded
  Unreadable = Unreadable
  ParseDuration <- Parsed
  Values <- SomeValues
  Brokers = {1884}
  MaxEdits = 2
INVARIANTS TypeOK ExpiryAsSaid NoLimitBelowASecond RunningHoldsItsPorts
PROPERTIES HigherLimitNotLower StartDecides
CHECK_DEADLOCK FALSE
