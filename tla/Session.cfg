SPECIFICATION FairSpec
CONSTANTS
  Keys = {k1, k2}
  Messages = {m1, m2, m3}
  Debounce = 2
  Lateness = 1
  Capacity = 1
  Free = Free
INVARIANTS
  TypeOK
  OneTimerPerSession
  BurstsStayTogether
  NothingLost
  FlushedInTime
PROPERTIES
  AllReceived
