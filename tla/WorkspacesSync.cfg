SPECIFICATION FairSpec
CONSTANTS
  p1 = p1
  p2 = p2
  d1 = d1
  Repos = {p1, p2}
  Roots = {d1}
  Below <- MCBelow
  Tick = tick
  Socket = socket
  MaxChanges = 1
  MaxCommands = 2
  MaxFaults = 1
INVARIANTS
  SyncSeesTruth
PROPERTIES
  PresentSettles
