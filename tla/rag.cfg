SPECIFICATION FairSpec
CONSTANTS
  None = None
  Docs = {d1, d2}
  Deletes = {x1}
  ChunkCounts = {0, 3}
  BatchSize = 2
  DeleteLimit = 3
  Faults = {"db", "parser", "llm", "qdrant"}
  MaxCrashes = 1
INVARIANTS ReadyIsSearchable DeletedAtRestIsGone
PROPERTIES DocumentsSettle
