\* One chunk more than the limit and than the pipe to the server holds.
CONSTANTS
  Modes = {"vnc", "web"}
  MaxChunks = 3
  InputLimit = 2
  PipeSize = 1
SPECIFICATION FairSpec
CHECK_DEADLOCK FALSE
INVARIANTS
  RequestIsWhole
  AnswerIsWhole
  ClientIsTold

  
