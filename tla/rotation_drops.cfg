SPECIFICATION Spec
CONSTANTS
  WanCount = 1
  Configs = {a, c, h}
  NoConfig = NoConfig
  a = a
  b = b
  c = c
  d = d
  h = h
  p = p
  q = q
  SchemeOf <- MCSchemeOf
  EndpointOf <- MCEndpointOf
  Droppers = {p, q}
  Subscriptions <- LeakFirst
  Speeds = {0}
  Scores = {0}
  MinimumSpeed = 0
  MaxTestPerCycle = 1
  AllowDegradedBoot = TRUE
  FlakySlots = {0}
  StabilityProbes = 1
INVARIANTS
  TypeOK
  SlotShape
  LeakGuard
  DropHonoursExclusion
SYMMETRY DropperSymmetry
