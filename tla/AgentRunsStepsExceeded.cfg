SPECIFICATION Spec
CONSTANTS
  Runs = {s1, o1}
  Synapses = {s1}
  Channels = {c1}
  Messages = {}
  MaxSynapses = 1
  MaxOperators = 1
  SynapseSteps = 1
  OperatorSteps = 1
  MaxRetries = 1
  ExtraCalls = 1
  MaxTools = 1
  NoChannel = NoChannel
  Nobody = Nobody
  NoSignal = NoSignal
  WrapUp = WrapUp
CHECK_DEADLOCK FALSE
INVARIANTS
  StepsLimited
