SPECIFICATION FairSpec
CONSTANTS
  Ids = {e1}
  Cmds = {c1}
  Feeder = feeder
  Drivers = {d1}
  Replies = {r1}
  Contacts = {alice}
  ContactOf <- MCContactOf
  From <- MCFrom
  DeliverToTarget = {}
  SeenCap = 1
  MaxMsgs = 0
  MaxWorkerTurns = 2
  MaxCmds = 2
  MaxCrashes = 0
  Faults = {}
PROPERTIES
  ProducingEnds
  BufferDrains
CHECK_DEADLOCK FALSE
