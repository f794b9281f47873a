SPECIFICATION Spec
CONSTANTS
  Runs = {s1}
  Synapses = {s1}
  Channels = {c1}
  Messages = {m1}
  MaxSynapses = 1
  MaxOperators = 1
  SynapseSteps = 2
  OperatorSteps = 1
  MaxRetries = 1
  ExtraCalls = 0
  MaxTools = 1
  NoChannel = NoChannel
  Nobody = Nobody
  NoSignal = NoSignal
  WrapUp = WrapUp
CHECK_DEADLOCK FALSE
PROPERTIES
  WrapUpHonoured
