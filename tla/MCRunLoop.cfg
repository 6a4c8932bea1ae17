\* Output for two cuts, a terminal that holds two chunks.
CONSTANTS
  Modes = {"batch", "vncLaunch", "terminal"}
  MaxChunks <- Chunks
  PtySize = 2
  BufferLimit = 2
  InputLimit = 1
  DrainTurns = 4
SPECIFICATION FairSpec
CHECK_DEADLOCK FALSE
INVARIANTS
  
  CutKeepsBothEnds
  EndsAreExplained
  
  NothingRunsOn

  
