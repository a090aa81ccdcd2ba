SPECIFICATION CodecSpec
CONSTANTS
  ScratchSize = 74
  PartLengths = {0, 1, 3, 4, 50}
  ForeignLengths <- MCForeignLengths
  ForeignExtra <- MCForeignExtra
INVARIANTS
  ArgumentsArrive
  ReadsInside
  NothingStaleSent
