SPECIFICATION FairSpec
CONSTANTS
  None = None
  Jobs = {j1}
  Clients = {c1, c2, c3}
  MaxEvents = 1
  MaxRuns = 2
  MaxBeats = 1
INVARIANTS TimersMatchEntries EndedWithAnOutcome
PROPERTIES NoWriteAfterEnd EntriesExpire
