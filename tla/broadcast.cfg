SPECIFICATION FairSpec
CONSTANTS
  Receivers = {r1}
  Capacity = 16
  Messages <- MCMessages
  MaxMessages = 4
  MaxThrows = 1
INVARIANTS
  RedeliveredUnchanged
  RefusedOnlyWhenUnread
PROPERTIES
  EveryMessageReceived
  ImplementsChannel
