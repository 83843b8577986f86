SPECIFICATION Spec
CONSTANTS
  Letters <- MCLetters
  ChunkSizes = {2, 3}
  Overlaps = {0, 1, 2}
INVARIANTS NothingLost WordsIntact SizeBounded
