SPECIFICATION FairSpec
CONSTANTS
  m1 = m1
  m2 = m2
  c1 = c1
  c2 = c2
  t1 = t1
  t2 = t2
  Groups = {g1}
  Msgs = {m1, m2}
  Chats = {c1, c2}
  Transports = {t1, t2}
  ChatOf <- MCChatOf
  Via <- MCVia
  Listed = {c2}
  Ticker = ticker
  Now = now
  Turn = turn
  None = none
  Sources <- MCSources
  MaxCommands = 2
  MaxFaults = 1
INVARIANTS
  TypeOK
  NothingLost
  ToldIsMarked
PROPERTIES
  EveryMessageTriaged
CHECK_DEADLOCK FALSE
