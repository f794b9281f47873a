SPECIFICATION FairSpec
CONSTANTS
  Nodes = {n1}
  Codes = {k1}
  Tokens = {t1, t2}
  Conns = {c1, c2}
  BackoffMax = 2
  MaxFaults = 2
  MaxIssues = 1
  NoNode = NoNode
  NoToken = NoToken
  NoConn = NoConn
  NoMessage = NoMessage
  Refused = Refused
INVARIANTS
  TypeOK
  OneLinkPerCode
  EntriesHaveHandlers
PROPERTIES
  NodeComesBack
  DeadEntriesLeave
