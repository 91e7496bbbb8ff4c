SPECIFICATION Spec
CONSTANTS
  Ids = {e1}
  Cmds = {c1}
  Feeder = feeder
  Drivers = {d1}
  Replies = {r1, r2}
  Contacts = {alice}
  ContactOf <- MCContactOf
  From <- MCFrom
  DeliverToTarget = {e1}
  SeenCap = 2
  MaxMsgs = 0
  MaxWorkerTurns = 1
  MaxCmds = 2
  MaxCrashes = 0
  Faults = {}
SYMMETRY Goroutines
INVARIANTS
  TypeOK
  NothingStranded
  RepliesInOrder
CHECK_DEADLOCK FALSE
