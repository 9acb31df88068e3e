SPECIFICATION Spec
CONSTANTS
  Families <- SomeFamilies
  Messages <- SomeMessages
  Identities = {1, 2}
  Width = 2
  NotANumber = NotANumber
  MaxAccepted = 3
  MaxRestarts = 1
INVARIANTS
  TypeOK
  CountersAddUp
  ReadingsAreLatest
  NamesAreAnnounced
PROPERTIES
  RefusedLeaveNoTrace
  EffectsAreKnown
