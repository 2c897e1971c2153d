SPECIFICATION Spec
CONSTANTS
  None = None
  MaxTools = 2
  MaxLines = 4
  Protocols = {"anthropic", "openai"}
  Chunks <- MCChunks
  Answers <- MCAnswers
INVARIANTS SignaturesReturned OwnSignatures ResultsMatch ReasonTellsCalls
PROPERTIES ProperBlocks
CHECK_DEADLOCK FALSE
