SPECIFICATION LiveSpec
CONSTANTS
  LowerOf <- MCLowerOf
  Digits <- MCDigits
  Targets <- MCTargets
  Envs <- MCEnvs
  NoTarget = NoTarget
  NoEnv = NoEnv
  MaxChunks = 2
INVARIANTS
  RouteAsListed
  Released
  CutForCause
  NoGap
  Told
PROPERTIES
  OneEndEndsAll
  StalledClientDropped
  ClientGoneEnds
