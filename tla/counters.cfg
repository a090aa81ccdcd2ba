SPECIFICATION Spec
CONSTANTS
  Threads = {t1, t2}
  Allocators = {t1, t2}
  Slots = 2
  SlotSize = 2
  KeyLength <- MCKeyLength
  LabelLength <- MCLabelLength
  MaxAllocations = 4
  MaxValue = 2
INVARIANTS
  NoCollision
  NothingInherited
  
  NoSlotIsExcused
