\* A request and two frames, a send buffer of one unit.
CONSTANTS
  MaxMessages = 3
  FrameOps = {"text", "cont", "ping", "bad"}
  TxSize = 1
  MaxTexts = 1
  MaxFragments = 1
  Rounds = 1
SPECIFICATION FairSpec
CHECK_DEADLOCK FALSE
INVARIANTS
  MessagesAreWhole
  NothingLostNorRepeated
  FailedAnswerIsRepeatedOnce
  OneCloseFrame
  NoHttpOnWebSocket
PROPERTIES
  ReceiveEnds
  LostClientsAreNoticed
