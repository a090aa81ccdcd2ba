SPECIFICATION Spec
CONSTANTS
  p1 = p1
  p2 = p2
  Producers = {p1, p2}
  Capacity = 32
  MessagesOf <- MCUneven
  MaxMessages = 7
  MaxCrashes = 0
  MaxThrows = 0
CONSTRAINT
  NoMisread
INVARIANTS
  WritersApart
  NoLengthLeft
  HeadOnRecord
PROPERTY
  ImplementsChannel
