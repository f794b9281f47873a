SPECIFICATION Spec
CONSTANTS
  c2 = c2
  c1 = c1
  m3 = m3
  m2 = m2
  m1 = m1
  Ids = {m1, m2, m3}
  Old = {m1, m2}
  Callers = {c1, c2}
  Contents <- SomeContents
  GivenTypes = {"fact"}
  Requests <- SomeRequests
  Overfetch = 2
  MaxAccesses = 1
  Links <- SomeLinks
  MaxWrites = 3
  MaxSearches = 1
  None = None
SYMMETRY Symmetry
CHECK_DEADLOCK FALSE
INVARIANTS
  TypeOK
  DatabasesAgree
  RowsBounded
PROPERTIES
  NextCallHeals
  SearchFindsWhatFits
