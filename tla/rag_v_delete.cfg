SPECIFICATION Spec
CONSTANTS
  None = None
  Docs = {d1, d2}
  Deletes = {x1}
  ChunkCounts = {1}
  BatchSize = 2
  DeleteLimit = 3
  Faults = {}
  MaxCrashes = 0
INVARIANTS DeletedIsGone
