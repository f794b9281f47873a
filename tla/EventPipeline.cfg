SPECIFICATION FairSpec
CONSTANTS
  c1 = c1
  c2 = c2
  m1 = m1
  m2 = m2
  m3 = m3
  m4 = m4
  Messages = {m1, m2, m3, m4}
  ChannelOf <- MCChannelOf
  FromBots = {m3}
  Listed = {c1}
  Replies <- SomeReplies
  MaxLen = 2
  Size = 2
  HistoryLimit = 2
  MaxSecond = 1
  MaxOthers = 1
  NoMessage = NoMessage
CHECK_DEADLOCK FALSE
INVARIANTS
  TypeOK
  MessagesAccounted
  HistoryCoversBatch
  ShownIsPrefix
  
PROPERTIES
  BridgeCatchesUp
