SPECIFICATION Spec
CONSTANTS
  MaxTokens = 3
  MaxTurns = 3
  MaxTexts = 5
  BatchSize = 2
INVARIANTS  PromptArrives EmbeddingsAlign
PROPERTIES ImplementsChunkStream
