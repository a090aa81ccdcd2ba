SPECIFICATION Spec
CONSTANTS
  Receivers = {r1, r2}
  Capacity = 16
  Messages <- MCMessages
  MaxMessages = 4
  MaxThrows = 0
INVARIANT
  EachReceivesAll
