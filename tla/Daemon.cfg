SPECIFICATION FairSpec
CONSTANTS
  Pids = {p1, p2, p3}
  Users = {u1, u2}
  MaxCalls = 3
  None = None
  Invalid = Invalid
CHECK_DEADLOCK FALSE
INVARIANTS
  TypeOK
  FileNamesDaemon
  NothingLeftBehind
PROPERTIES
  CommandsReturn
  ShutdownCompletes
