SPECIFICATION FairSpec
CONSTANTS
  p1 = p1
  p2 = p2
  Producers = {p1}
  Capacity = 16
  MessagesOf <- MCHeaderOnly
  MaxMessages = 12
  MaxCrashes = 1
  MaxThrows = 2
INVARIANTS
  TypeOK
  NoOverrun
  HeadCountsDelivered
PROPERTIES
  EveryClaimDelivered
  RefusedOnlyWhenOccupied
