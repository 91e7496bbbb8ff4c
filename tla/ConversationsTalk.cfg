SPECIFICATION FairSpec
CONSTANTS
  Events = {e1, e2}
  Existing = {e1}
  Morning = morning
  Owner = owner
  Parties = {bob}
  PartyOf <- MCPartyOf
  Nobody = nobody
  Times = {1}
  MaxConv = 1
  MaxTurns = 2
  MaxNudges = 1
  MaxFires = 1
  MaxStarts = 2
  MaxMsgs = 2
  MaxWrites = 1
  MaxCrashes = 1
  Faults = {"agent", "panic", "report", "store"}
INVARIANTS
  TypeOK
  FirstReplyIsHeard
  FreshReply
  ReportedOnce
PROPERTIES
  CancelledForGood
  ConversationsEnd
CHECK_DEADLOCK FALSE
