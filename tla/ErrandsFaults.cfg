SPECIFICATION Spec
CONSTANTS
  Ids = {e1}
  Cmds = {c1}
  Feeder = feeder
  Drivers = {d1, d2}
  Replies = {r1}
  Contacts = {alice}
  ContactOf <- MCContactOf
  From <- MCFrom
  DeliverToTarget = {}
  SeenCap = 1
  MaxMsgs = 1
  MaxWorkerTurns = 1
  MaxCmds = 2
  MaxCrashes = 1
  Faults = {"backend", "create", "send", "panic"}
SYMMETRY Goroutines
INVARIANTS
  SingleDriver
  SilentWhilePending
  HeardOnce
CHECK_DEADLOCK FALSE
