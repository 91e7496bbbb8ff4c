SPECIFICATION Spec
CONSTANTS
  Ids = {m1, m2}
  Recipients = {alice}
  RecipientOf <- MCRecipientOf
  Nobody = nobody
  MaxRuns = 1
  MaxTime = 2
  MaxCancels = 1
  MaxCrashes = 1
  Faults = {"agent", "panic", "store"}
SYMMETRY Symmetry
INVARIANTS
  TypeOK
  ClaimedWhileRunning
  OwnerIsWaiting
CHECK_DEADLOCK FALSE
