SPECIFICATION Spec
CONSTANTS
  Families <- SomeFamilies
  Messages <- JustNames
  Identities = {1, 2}
  Width = 2
  NotANumber = NotANumber
  MaxAccepted = 2
  MaxRestarts = 1
INVARIANT RestoredNameIsLast
CHECK_DEADLOCK FALSE
