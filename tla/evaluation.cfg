SPECIFICATION FairSpec
CONSTANTS
  None = None
  Evals = {e1, e2}
  Recalls = {q1}
  Weights <- MCWeights
  Threshold = 7000
  Scores = {70}
  Readabilities = {70}
  RecallLimit = 1
  Faults = {"db", "llm", "qdrant", "list"}
  MaxCrashes = 1
INVARIANTS MarkedIsSearchable RecalledIsGood
PROPERTIES EvaluationsEnd
