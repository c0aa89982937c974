SPECIFICATION LiveSpec
CONSTANTS
  WanCount = 1
  Configs = {a}
  NoConfig = NoConfig
  a = a
  b = b
  c = c
  d = d
  h = h
  p = p
  q = q
  SchemeOf <- MCSchemeOf
  EndpointOf <- MCEndpointOf
  Droppers = {p, q}
  Subscriptions <- OneConfig
  Speeds = {0}
  Scores = {0}
  MinimumSpeed = 0
  MaxTestPerCycle = 1
  AllowDegradedBoot = TRUE
  FlakySlots = {}
  StabilityProbes = 1
PROPERTIES
  DropAnswered
