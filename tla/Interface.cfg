SPECIFICATION FairInterfaceSpec
CONSTANTS
  c1 = c1
  c2 = c2
  m1 = m1
  m2 = m2
  m3 = m3
  Runs = {s1, o1}
  Synapses = {s1}
  Channels = {c1, c2}
  Messages = {m1, m2, m3}
  MaxSynapses = 1
  MaxOperators = 1
  SynapseSteps = 1
  OperatorSteps = 1
  MaxRetries = 0
  ExtraCalls = 0
  MaxTools = 1
  NoChannel = NoChannel
  Nobody = Nobody
  NoSignal = NoSignal
  WrapUp = WrapUp
  ChannelOf <- TwoChannels
  InboxCapacity = 2
  InterfaceTurns = 2
  InterfaceRetries = 1
  NoBatch = NoBatch
CHECK_DEADLOCK FALSE
INVARIANTS
  InterfaceTypeOK
  BatchInOnePlace
  OneAgentForTheBatch
PROPERTIES
  EveryBatchHandled
