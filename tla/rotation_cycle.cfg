SPECIFICATION Spec
CONSTANTS
  WanCount = 2
  Configs = {a, b, c, d}
  NoConfig = NoConfig
  a = a
  b = b
  c = c
  d = d
  h = h
  p = p
  q = q
  SchemeOf <- MCSchemeOf
  EndpointOf <- MCEndpointOf
  Droppers = {}
  Subscriptions <- OneEndpointTwice
  Speeds = {1, 5}
  Scores = {0}
  MinimumSpeed = 5
  MaxTestPerCycle = 2
  AllowDegradedBoot = TRUE
  FlakySlots = {1}
  StabilityProbes = 1
INVARIANTS
  NoOrphans
  DistinctEndpoints
  CleanShutdown
PROPERTIES
  LifecycleRefined
