SPECIFICATION FairSpec
CONSTANTS
  Ids = {m1}
  Recipients = {alice}
  RecipientOf <- MCRecipientOf
  Nobody = nobody
  MaxRuns = 2
  MaxTime = 3
  MaxCancels = 2
  MaxCrashes = 2
  Faults = {"agent", "panic"}
PROPERTIES
  DueIsActedOn
CHECK_DEADLOCK FALSE
