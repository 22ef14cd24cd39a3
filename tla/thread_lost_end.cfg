SPECIFICATION FairSpec
CONSTANTS
  HeaderSize = 2
  BodySize = 1
  MaxSent = 6
  PipeSize = 7
  ShortReads = FALSE
PROPERTIES LossNoticed
CHECK_DEADLOCK FALSE
