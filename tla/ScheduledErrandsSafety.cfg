SPECIFICATION FairSpec
CONSTANTS
  Ids = {s1, s2}
  MaxCrashes = 2
  Faults = {"save", "remove", "panic"}
INVARIANTS
  StartsOnce
  ToldIsDurable
  GoneIsGone
PROPERTIES
  EveryOneFires
CHECK_DEADLOCK FALSE
