SPECIFICATION Spec
CONSTANTS
  WanCount = 1
  Configs = {a, b, c, d}
  NoConfig = NoConfig
  a = a
  b = b
  c = c
  d = d
  h = h
  p = p
  q = q
  SchemeOf <- MCSchemeOf
  EndpointOf <- MCEndpointOf
  Droppers = {p}
  Subscriptions <- OneEndpointTwice
  Speeds = {1, 5}
  Scores = {0}
  MinimumSpeed = 5
  MaxTestPerCycle = 2
  AllowDegradedBoot = TRUE
  FlakySlots = {}
  StabilityProbes = 1
INVARIANTS
  OneXrayPerPort
