SPECIFICATION LiveSpec
CONSTANTS
  WanCount = 2
  Configs = {a}
  NoConfig = NoConfig
  SchemeOf <- MCSchemeOf
  EndpointOf <- MCEndpointOf
  Conns = {x}
  WanFailThreshold = 1
INVARIANTS
  TypeOK
  NeverOvercounted
  NobodyMissed
  UndisturbedScan
PROPERTIES
  DeadWanDrained
  DeadPoolNotReady
