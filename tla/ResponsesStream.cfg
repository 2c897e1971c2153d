SPECIFICATION FairSpec
CONSTANTS
  MaxTools = 2
  MaxLines = 4
  Chunks <- MCChunks
INVARIANTS Remembered EndsWell
PROPERTIES ImplementsEventStream FinalEventFollows
CHECK_DEADLOCK FALSE
