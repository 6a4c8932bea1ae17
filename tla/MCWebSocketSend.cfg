\* One WebSocket whose client sends one message and may stop reading.
CONSTANTS
  MaxMessages = 2
  FrameOps = {"text"}
  TxSize = 1
  MaxTexts = 2
  MaxFragments = 1
  Rounds = 1
SPECIFICATION FairSpec
CHECK_DEADLOCK FALSE
PROPERTIES
  SendEnds
