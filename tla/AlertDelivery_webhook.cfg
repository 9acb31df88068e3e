\* Both programs and every kind of routing: two requests, which are two
\* notifications or one of them repeated; the bounds and the exit end the run.
SPECIFICATION FairSpec
CONSTANTS
  n1 = n1
  n2 = n2
  NoNode = NoNode
  NoRoute = NoRoute
  Nodes <- TwoNodes
  NodeOf <- FourSpellings
  Payload <- CriticalAndWarning
  Starts <- Both
  MaxNotes = 2
  MaxRequests = 2
INVARIANTS OnlyRecipientsHear AnsweredMeansSent CopiesNeedRetries
INVARIANTS OrderKeptUnlessLost ShutdownLosesNoAwaited
PROPERTIES HandlersFinish
CHECK_DEADLOCK FALSE
