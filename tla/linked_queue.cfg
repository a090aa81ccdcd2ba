SPECIFICATION FairSpec
CONSTANTS
  Producers = {p1, p2}
  Nodes = {n1, n2, n3, n4}
  Null = Null
  Values = {a, b}
  Default = Default
  MaxEnqueues = 4
CHECK_DEADLOCK FALSE
INVARIANTS
  ChainSound
  NothingLeaks
PROPERTIES
  ImplementsChannel
  EveryValueReceived
