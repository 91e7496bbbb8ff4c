SPECIFICATION FairSpec
CONSTANTS
  Users = {alice}
  Planners = {alice}
  Sessions = {s1, s2}
  Turns = {t1, t2}
  Files = {f1}
  None = none
  maxTriageReadRounds = 1
  MaxCommands = 2
  MaxTexts = 2
  MaxOpenings = 1
  MaxPanics = 1
  MaxReloads = 2
INVARIANTS
  TypeOK
  OneTurn
  BrainAlone
  FilesKept
  PlanFits
PROPERTIES
  SessionsFree
CHECK_DEADLOCK FALSE
