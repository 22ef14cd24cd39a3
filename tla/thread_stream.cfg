SPECIFICATION FairSpec
CONSTANTS
  HeaderSize = 2
  BodySize = 1
  MaxSent = 6
  PipeSize = 7
  ShortReads = FALSE
INVARIANTS EventPerChunk InSync
PROPERTIES StreamRefined EndsWell
CHECK_DEADLOCK FALSE
