SPECIFICATION FairSpec
CONSTANTS
  None = None
  r1 = r1
  r2 = r2
  s1 = s1
  s2 = s2
  Jobs = {j1}
  Replicas = {r1, r2}
  Slots = {s1, s2}
  Home <- OneSlotEach
  MaxAttempts = 2
  MaxStalledCount = 1
  InitiallyUp = {r1, r2}
  MaxCrashes = 2
  MaxLapses = 1
  DbFaults = {"brand", "save"}
  LateWrites = FALSE
INVARIANTS CompletedIsDone NoForgottenRun AttemptsBounded OneOutcomePerDelivery
PROPERTIES ImplementsStatusMachine AcceptedJobsSettle
