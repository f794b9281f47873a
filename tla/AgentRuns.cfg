SPECIFICATION FairSpec
CONSTANTS
  Runs = {s1, o1, o2}
  Synapses = {s1}
  Channels = {c1}
  Messages = {m1}
  MaxSynapses = 1
  MaxOperators = 1
  SynapseSteps = 2
  OperatorSteps = 0
  MaxRetries = 1
  ExtraCalls = 0
  MaxTools = 2
  NoChannel = NoChannel
  Nobody = Nobody
  NoSignal = NoSignal
  WrapUp = WrapUp
CHECK_DEADLOCK FALSE
INVARIANTS
  TypeOK
  PermitsConserved
  RegistryTracksRuns
  OneVerdict
  SteerAppliedOnce
  TurnsBounded
PROPERTIES
  WrapUpSticks
  ImplementsPools
  RunsReturn
