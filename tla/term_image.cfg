SPECIFICATION FairSpec
CONSTANTS
  Frames <- MCFrames
  MaxLengths = {2, 3}
  PayloadWord = 1
  ScanLength = 3
CHECK_DEADLOCK FALSE
INVARIANTS
  ReadsTheStream
  GapsAreMissing
  ScansEndOnFrames
PROPERTY
  CatchesUp
