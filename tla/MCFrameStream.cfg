SPECIFICATION FairStreamSpec
CONSTANTS
  HeaderSize = 2
  Sizes = {0, 1}
  Faults = {"header", "body"}
  MaxConn = 2
  MaxFrames = 2
INVARIANTS ConsumedOnce InSync ReplyMatches
PROPERTIES RequestEnds
CHECK_DEADLOCK FALSE
