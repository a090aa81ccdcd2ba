SPECIFICATION FairSpec
CONSTANTS
  Values = {a, b}
  Raw = Raw
  Capacity = 2
  IndexModulus = 8
  MaxEnqueues = 7
CHECK_DEADLOCK FALSE
INVARIANTS
  SlotsAsExpected
  LeaksOnlyWrapped
PROPERTIES
  ImplementsChannel
  EveryObjectReceived
