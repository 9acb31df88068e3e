\* A default route of null.
SPECIFICATION Spec
CONSTANTS
  n1 = n1
  n2 = n2
  NoNode = NoNode
  NoRoute = NoRoute
  Nodes <- TwoNodes
  NodeOf <- FourSpellings
  Payload <- CriticalAndWarning
  Starts <- Null
  MaxNotes = 1
  MaxRequests = 1
INVARIANTS NullDefaultDisables
CHECK_DEADLOCK FALSE
