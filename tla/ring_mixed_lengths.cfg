SPECIFICATION Spec
CONSTANTS
  p1 = p1
  p2 = p2
  Producers = {p1}
  Capacity = 32
  MessagesOf <- MCMixed
  MaxMessages = 9
  MaxCrashes = 0
  MaxThrows = 0
INVARIANT
  DeliveredInOrder
