SPECIFICATION LiveSpec
CONSTANTS
  WanCount = 1
  Configs = {a, c}
  NoConfig = NoConfig
  a = a
  b = b
  c = c
  d = d
  h = h
  p = p
  q = q
  SchemeOf <- MCSchemeOf
  EndpointOf <- MCEndpointOf
  Droppers = {p}
  Subscriptions <- EveryFetch
  Speeds = {0}
  Scores = {0}
  MinimumSpeed = 0
  MaxTestPerCycle = 1
  AllowDegradedBoot = FALSE
  FlakySlots = {0}
  StabilityProbes = 1
PROPERTIES
  DrainedSlotFreed
  TriggerServed
  SignalStops
