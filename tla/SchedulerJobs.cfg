SPECIFICATION FairSpec
CONSTANTS
  NJobs = 3
  Kind <- MCKind
  When <- MCWhen
  MaxTime = 5
  Day <- MCDay
  Hour <- MCHour
  MaxSlips = 1
  MaxCrashes = 1
INVARIANT TypeOK
PROPERTIES
  KeepsPromise
  Spaced
  DueIsServed
CHECK_DEADLOCK FALSE
